-------------------------- MODULE BoardPostsProofs --------------------------
(* Safety of complaints, notices, comments and events, for any numbers of    *)
(* posts, requests, comments and events.                                     *)
EXTENDS BoardPosts, FiniteSetTheorems, TLAPS

(* The program points. *)
LEMMA KnownOps ==
  \A op \in {"idle", "reporting", "editing", "deleting", "deciding", "telling",
            "commenting", "removing", "counting", "storing", "spreading", "planning",
            "looking", "adding", "moving"} : op \in Ops
BY DEF Ops

(* Every field of a call can be changed alone: its program point, ... *)
LEMMA OpChanges ==
  ASSUME NEW k \in Call, NEW op \in Ops
  PROVE  /\ [k EXCEPT !.op = op] \in Call
         /\ [k EXCEPT !.op = op].op = op
         /\ [k EXCEPT !.op = op].post = k.post
         /\ [k EXCEPT !.op = op].old = k.old
         /\ [k EXCEPT !.op = op].new = k.new
         /\ [k EXCEPT !.op = op].item = k.item
         /\ [k EXCEPT !.op = op].dated = k.dated
         /\ [k EXCEPT !.op = op].alone = k.alone
BY DEF Call

(* ... the number it carries, ... *)
LEMMA ItemChanges ==
  ASSUME NEW k \in Call, NEW i \in Nat
  PROVE  /\ [k EXCEPT !.item = i] \in Call
         /\ [k EXCEPT !.item = i].op = k.op
         /\ [k EXCEPT !.item = i].post = k.post
         /\ [k EXCEPT !.item = i].item = i
         /\ [k EXCEPT !.item = i].alone = k.alone
BY DEF Call

(* ... and whether another comment request met it. *)
LEMMA AloneChanges ==
  ASSUME NEW k \in Call, NEW b \in BOOLEAN
  PROVE  /\ [k EXCEPT !.alone = b] \in Call
         /\ [k EXCEPT !.alone = b].op = k.op
         /\ [k EXCEPT !.alone = b].post = k.post
         /\ [k EXCEPT !.alone = b].old = k.old
         /\ [k EXCEPT !.alone = b].item = k.item
         /\ [k EXCEPT !.alone = b].dated = k.dated
         /\ [k EXCEPT !.alone = b].alone = b
BY DEF Call

(* A request starts with nothing but its post. *)
LEMMA FreshCall ==
  ASSUME NEW op \in Ops, NEW p \in Posts \cup {NoPost}
  PROVE  /\ CallTo(op, p) \in Call
         /\ CallTo(op, p).op = op /\ CallTo(op, p).post = p
         /\ CallTo(op, p).old = "PENDING"
         /\ CallTo(op, p).dated = FALSE /\ CallTo(op, p).alone = TRUE
BY DEF CallTo, Call, ComplaintStatus

(* A manager's request carries the status it found and the one it will write. *)
LEMMA DecidingCall ==
  ASSUME NEW p \in Posts, NEW old \in ComplaintStatus, NEW new \in ComplaintStatus
  PROVE  /\ [CallTo("deciding", p) EXCEPT !.old = old, !.new = new] \in Call
         /\ [CallTo("deciding", p) EXCEPT !.old = old, !.new = new].op = "deciding"
         /\ [CallTo("deciding", p) EXCEPT !.old = old, !.new = new].post = p
         /\ [CallTo("deciding", p) EXCEPT !.old = old, !.new = new].old = old
         /\ [CallTo("deciding", p) EXCEPT !.old = old, !.new = new].new = new
BY DEF CallTo, Call, Ops

(* createNotice remembers whether the notice has a date. *)
LEMMA SpreadingCall ==
  ASSUME NEW p \in Posts, NEW dated \in BOOLEAN
  PROVE  /\ [CallTo("spreading", p) EXCEPT !.dated = dated] \in Call
         /\ [CallTo("spreading", p) EXCEPT !.dated = dated].op = "spreading"
         /\ [CallTo("spreading", p) EXCEPT !.dated = dated].post = p
         /\ [CallTo("spreading", p) EXCEPT !.dated = dated].dated = dated
BY DEF CallTo, Call, Ops, ComplaintStatus

(* deleteComment remembers the comment it found. *)
LEMMA RemovingCall ==
  ASSUME NEW p \in Posts, NEW i \in Nat
  PROVE  /\ [CallTo("removing", p) EXCEPT !.item = i] \in Call
         /\ [CallTo("removing", p) EXCEPT !.item = i].op = "removing"
         /\ [CallTo("removing", p) EXCEPT !.item = i].post = p
BY DEF CallTo, Call, Ops, ComplaintStatus

(* A comment request starts to count. *)
LEMMA CountingCall ==
  ASSUME NEW k \in Call, NEW b \in BOOLEAN
  PROVE  /\ [k EXCEPT !.op = "counting", !.alone = b] \in Call
         /\ [k EXCEPT !.op = "counting", !.alone = b].op = "counting"
         /\ [k EXCEPT !.op = "counting", !.alone = b].post = k.post
         /\ [k EXCEPT !.op = "counting", !.alone = b].alone = b
BY DEF Call, Ops

(* An idle request has no post. *)
LEMMA IdleCall == Idle \in Call /\ Idle.op = "idle" /\ Idle.post = NoPost
BY DEF Idle, CallTo, Call, Ops, ComplaintStatus

-----------------------------------------------------------------------------
(* A request that is at work has a post, and a decision is about a complaint. *)
Asks == /\ request \in [Requests -> Call]
        /\ \A r \in Requests :
             /\ request[r].post = NoPost => request[r] = Idle
             /\ request[r].op = "deciding" => request[r].post \in Complaints
Asked(k) == k.post # NoPost /\ (k.op = "deciding" => k.post \in Complaints)

(* A request that moves leaves the others alone. *)
LEMMA BecomesEffect ==
  ASSUME Asks, NEW r \in Requests, NEW k \in Call, k = Idle \/ Asked(k), Becomes(r, k)
  PROVE  /\ Asks' /\ request'[r] = k
         /\ \A q \in Requests \ {r} : request'[q] = request[q]
BY IdleCall DEF Asks, Asked, Becomes

(* A request that ends leaves the others alone. *)
LEMMA FinishEffect ==
  ASSUME Asks, NEW r \in Requests, Finish(r)
  PROVE  /\ Asks' /\ request'[r] = Idle
         /\ \A q \in Requests \ {r} : request'[q] = request[q]
BY BecomesEffect, IdleCall DEF Finish

(* A request at work knows a post. *)
LEMMA PostOf ==
  ASSUME Asks, NEW r \in Requests, ~At(r, "idle")
  PROVE  request[r] \in Call /\ request[r].post \in Posts /\ request[r].post # NoPost
BY IdleCall, ConstantsAssumption DEF Asks, At, Call

(* A request that goes on to another point keeps the rest. *)
LEMMA GoesEffect ==
  ASSUME Asks, NEW r \in Requests, ~At(r, "idle"), NEW op \in Ops \ {"deciding"}, Goes(r, op)
  PROVE  /\ Asks'
         /\ request'[r] = [request[r] EXCEPT !.op = op]
         /\ request'[r].op = op /\ request'[r].post = request[r].post
         /\ request'[r].dated = request[r].dated
         /\ \A q \in Requests \ {r} : request'[q] = request[q]
<1>1. request[r] \in Call /\ request[r].post # NoPost
  BY PostOf
<1>2. [request[r] EXCEPT !.op = op] \in Call /\ Asked([request[r] EXCEPT !.op = op])
  BY <1>1, OpChanges DEF Asked
<1>3. Becomes(r, [request[r] EXCEPT !.op = op])
  BY DEF Goes
<1>4. /\ Asks' /\ request'[r] = [request[r] EXCEPT !.op = op]
      /\ \A q \in Requests \ {r} : request'[q] = request[q]
  BY <1>2, <1>3, BecomesEffect
<1> QED
  BY <1>1, <1>4, OpChanges

(* So does one that takes a number along. *)
LEMMA NumberEffect ==
  ASSUME Asks, NEW r \in Requests, ~At(r, "idle"), NEW op \in {"storing", "moving"},
         NEW i \in Nat, Becomes(r, [request[r] EXCEPT !.op = op, !.item = i])
  PROVE  /\ Asks'
         /\ request'[r].op = op /\ request'[r].post = request[r].post
         /\ request'[r].item = i /\ request'[r].alone = request[r].alone
         /\ \A q \in Requests \ {r} : request'[q] = request[q]
<1>1. PICK k \in Call : k = request[r] /\ k.post # NoPost
  BY PostOf
<1> DEFINE m == [k EXCEPT !.op = op, !.item = i]
<1>2. /\ m \in Call /\ m.op = op /\ m.post = k.post /\ m.item = i /\ m.alone = k.alone
  BY DEF Call, Ops
<1>3. Becomes(r, m)
  BY <1>1
<1> HIDE DEF m
<1>4. Asked(m)
  BY <1>1, <1>2 DEF Asked
<1>5. /\ Asks' /\ request'[r] = m
      /\ \A q \in Requests \ {r} : request'[q] = request[q]
  BY <1>2, <1>3, <1>4, BecomesEffect
<1> QED
  BY <1>1, <1>2, <1>5

(* A comment request that starts to count is alone if nobody counts for its
   post, and those that do are no longer. *)
LEMMA StartCountEffect ==
  ASSUME Asks, NEW r \in Requests, ~At(r, "idle"), request[r].op \notin {"counting", "storing"},
         StartCount(r)
  PROVE  /\ Asks'
         /\ request'[r].op = "counting" /\ request'[r].post = request[r].post
         /\ request'[r].alone = (Counting(request[r].post) = {})
         /\ \A q \in Requests \ {r} :
              /\ request'[q].op = request[q].op /\ request'[q].post = request[q].post
              /\ request'[q].old = request[q].old /\ request'[q].item = request[q].item
              /\ request'[q].dated = request[q].dated
              /\ request'[q].alone =
                   IF q \in Counting(request[r].post) THEN FALSE ELSE request[q].alone
         /\ overlapped' = IF Counting(request[r].post) # {} /\ Exists(request[r].post)
                          THEN overlapped \cup {request[r].post} ELSE overlapped
<1> DEFINE p == request[r].post
           b == Counting(p) = {}
           k(q) == IF q = r THEN [request[r] EXCEPT !.op = "counting", !.alone = b]
                   ELSE IF q \in Counting(p) THEN [request[q] EXCEPT !.alone = FALSE]
                   ELSE request[q]
<1>1. request' = [q \in Requests |-> k(q)]
  BY DEF StartCount
<1>2. request[r] \in Call /\ p # NoPost /\ b \in BOOLEAN
  BY PostOf
<1>3. /\ k(r) \in Call /\ k(r).op = "counting" /\ k(r).post = p /\ k(r).alone = b
  BY <1>2, CountingCall
<1>4. ASSUME NEW q \in Requests \ {r}
      PROVE  /\ k(q) \in Call /\ k(q).op = request[q].op /\ k(q).post = request[q].post
             /\ k(q).old = request[q].old /\ k(q).item = request[q].item
             /\ k(q).dated = request[q].dated
             /\ k(q).alone = IF q \in Counting(p) THEN FALSE ELSE request[q].alone
             /\ q \notin Counting(p) => k(q) = request[q]
  <2>1. request[q] \in Call
    BY DEF Asks
  <2> QED
    BY <2>1, AloneChanges
<1>5. \A q \in Counting(p) : request[q].op # "idle"
  BY DEF Counting
<1>6. request' \in [Requests -> Call]
  BY <1>1, <1>3, <1>4
<1>7. ASSUME NEW q \in Requests, request'[q].post = NoPost PROVE request'[q] = Idle
  <2>1. q # r /\ request[q].post = NoPost
    BY <1>1, <1>2, <1>3, <1>4, <1>7
  <2>2. request[q] = Idle
    BY <2>1 DEF Asks
  <2>3. q \notin Counting(p)
    BY <1>5, <2>2, IdleCall
  <2> QED
    BY <1>1, <1>4, <2>1, <2>2, <2>3
<1>8. ASSUME NEW q \in Requests, request'[q].op = "deciding" PROVE request'[q].post \in Complaints
  <2>1. q # r /\ request[q].op = "deciding" /\ request'[q].post = request[q].post
    BY <1>1, <1>3, <1>4, <1>8
  <2> QED
    BY <2>1 DEF Asks
<1>9. overlapped' = IF Counting(p) # {} /\ Exists(p) THEN overlapped \cup {p} ELSE overlapped
  BY DEF StartCount
<1> QED
  BY <1>1, <1>3, <1>4, <1>6, <1>7, <1>8, <1>9 DEF Asks

-----------------------------------------------------------------------------
(* The tables keep to their types, and comments are finitely many. *)
RowTypes ==
  /\ board \in BOOLEAN
  /\ \A c \in Complaints : status[c] \in ComplaintStatus \cup {"NONE", "DELETED"}
  /\ \A n \in Notices : status[n] \in {"NONE", "POSTED", "DELETED"}
  /\ status \in [Posts -> ComplaintStatus \cup {"NONE", "POSTED", "DELETED"}]
  /\ comments \subseteq Comment /\ IsFiniteSet(comments) /\ written \in 0 .. MaxComments
  /\ count \in [Posts -> Nat]
  /\ events \subseteq Event /\ planned \in 0 .. MaxEvents
  /\ notified \subseteq Posts
  /\ overlapped \subseteq Posts /\ doubled \subseteq Posts /\ untold \subseteq Posts
  /\ ~board => events = {} /\ \A p \in Posts : ~Exists(p)

(* The two together are the type invariant, with finitely many comments. *)
Types == RowTypes /\ Asks

(* A post counts a number of comments. *)
LEMMA CountsAreNumbers == ASSUME RowTypes, NEW p PROVE Cardinality(CommentsOf(p)) \in Nat
BY FS_Subset, FS_CardinalityType DEF RowTypes, CommentsOf

(* Requests that only look, or end, keep the types. *)
LEMMA LookingKeepsTypes ==
  ASSUME RowTypes, UNCHANGED rows, UNCHANGED history
  PROVE  RowTypes'
BY DEF RowTypes, rows, history, Exists

(* So does deleting posts of the boards. *)
LEMMA DeletingKeepsTypes ==
  ASSUME RowTypes, board, NEW gone, Delete(gone),
         UNCHANGED <<board, comments, written, events, planned, notified, doubled, untold>>
  PROVE  RowTypes'
<1>1. /\ status' = [p \in Posts |-> IF p \in gone THEN "DELETED" ELSE status[p]]
      /\ count' = [p \in Posts |-> IF p \in gone THEN 0 ELSE count[p]]
      /\ overlapped' = overlapped \ gone
  BY DEF Delete
<1>2. count' \in [Posts -> Nat]
  BY <1>1 DEF RowTypes
<1>3. \A p \in Posts : status'[p] = IF p \in gone THEN "DELETED" ELSE status[p]
  BY <1>1
<1>4. status' \in [Posts -> ComplaintStatus \cup {"NONE", "POSTED", "DELETED"}]
  BY <1>1 DEF RowTypes
<1>5. /\ \A c \in Complaints : status'[c] \in ComplaintStatus \cup {"NONE", "DELETED"}
      /\ \A n \in Notices : status'[n] \in {"NONE", "POSTED", "DELETED"}
  BY <1>3 DEF RowTypes, Posts
<1> QED
  BY <1>1, <1>2, <1>4, <1>5 DEF RowTypes

(* The handlers of complaints and notices keep the types. *)
LEMMA PostTypesKept ==
  ASSUME Types, NEW r \in Requests,
         \/ \E c \in Complaints :
              \/ CreateComplaint(r, c) \/ FindToEdit(r, c)
              \/ \E isAdmin \in BOOLEAN : FindToDelete(r, c, isAdmin)
              \/ \E new \in ComplaintStatus : FindToDecide(r, c, new)
         \/ \E n \in Notices :
              \/ \E dated \in BOOLEAN : CreateNotice(r, n, dated)
              \/ \E op \in {"editing", "deleting", "looking"} : FindNotice(r, n, op)
         \/ \E p \in Posts : FindPost(r, p)
         \/ \E x \in comments : FindComment(r, x)
         \/ NotifyCreated(r) \/ UpdateComplaintStatus(r) \/ NotifyResolved(r)
         \/ NotifyPosted(r) \/ UpdatePost(r) \/ DeletePost(r)
  PROVE  Types'
<1> USE DEF Types
<1>0. \A p \in Posts : p # NoPost
  BY ConstantsAssumption
<1>1. ASSUME NEW c \in Complaints, CreateComplaint(r, c) PROVE Types'
  <2>1. c \in Posts /\ board /\ status' = [status EXCEPT ![c] = "PENDING"] /\ c \notin Notices
    BY <1>1, ConstantsAssumption DEF CreateComplaint, Posts
  <2>2. RowTypes'
    BY <1>1, <2>1 DEF CreateComplaint, RowTypes, ComplaintStatus, history, Exists, Posts
  <2>3. Asks'
    <3>1. Becomes(r, CallTo("reporting", c)) /\ "reporting" \in Ops
      BY <1>1, KnownOps DEF CreateComplaint
    <3>2. CallTo("reporting", c) \in Call /\ Asked(CallTo("reporting", c))
      BY <1>0, <2>1, <3>1, FreshCall DEF Asked
    <3> QED
      BY <3>1, <3>2, BecomesEffect
  <2> QED
    BY <2>2, <2>3
<1>2. ASSUME NEW p \in Posts, NEW op \in Ops \ {"deciding"}, Becomes(r, CallTo(op, p)),
             UNCHANGED <<rows, history>>
      PROVE  Types'
  <2>1. CallTo(op, p) \in Call /\ Asked(CallTo(op, p))
    BY <1>0, FreshCall DEF Asked
  <2>2. Asks'
    BY <1>2, <2>1, BecomesEffect
  <2> QED
    BY <1>2, <2>2, LookingKeepsTypes
<1>3. ASSUME NEW c \in Complaints, NEW new \in ComplaintStatus, FindToDecide(r, c, new) PROVE Types'
  <2>1. c \in Posts /\ status[c] \in ComplaintStatus /\ UNCHANGED <<rows, history>>
    BY <1>3 DEF FindToDecide, RowTypes, Exists, Posts
  <2>2. Asks'
    <3> PICK old \in ComplaintStatus : old = status[c]
      BY <2>1
    <3> DEFINE k == [CallTo("deciding", c) EXCEPT !.old = old, !.new = new]
    <3>0. k \in Call /\ k.post = c
      BY <2>1 DEF CallTo, Call, Ops
    <3>1. k \in Call /\ Asked(k)
      <4> HIDE DEF k
      <4> QED
        BY <1>0, <2>1, <3>0 DEF Asked
    <3>2. Becomes(r, k)
      BY <1>3 DEF FindToDecide
    <3> QED
      BY <3>1, <3>2, BecomesEffect
  <2> QED
    BY <2>1, <2>2, LookingKeepsTypes
<1>4. ASSUME NEW n \in Notices, NEW dated \in BOOLEAN, CreateNotice(r, n, dated) PROVE Types'
  <2>1. n \in Posts /\ board /\ status' = [status EXCEPT ![n] = "POSTED"] /\ n \notin Complaints
    BY <1>4, ConstantsAssumption DEF CreateNotice, Posts
  <2>2. RowTypes'
    BY <1>4, <2>1 DEF CreateNotice, RowTypes, history, Exists, Posts
  <2>3. Asks'
    <3> DEFINE k == [CallTo("spreading", n) EXCEPT !.dated = dated]
    <3>1. k \in Call /\ Asked(k)
      BY <1>0, <2>1, SpreadingCall DEF Asked
    <3>2. Becomes(r, k)
      BY <1>4 DEF CreateNotice
    <3> QED
      BY <3>1, <3>2, BecomesEffect
  <2> QED
    BY <2>2, <2>3
<1>5. ASSUME NEW x \in comments, FindComment(r, x) PROVE Types'
  <2>1. x.post \in Posts /\ x.id \in Nat /\ UNCHANGED <<rows, history>>
    BY <1>5 DEF FindComment, RowTypes, Comment
  <2>2. Asks'
    <3> DEFINE k == [CallTo("removing", x.post) EXCEPT !.item = x.id]
    <3>1. k \in Call /\ Asked(k)
      BY <1>0, <2>1, RemovingCall DEF Asked
    <3>2. Becomes(r, k)
      BY <1>5 DEF FindComment
    <3> QED
      BY <3>1, <3>2, BecomesEffect
  <2> QED
    BY <2>1, <2>2, LookingKeepsTypes
<1>6. ASSUME Finish(r), UNCHANGED <<rows, history>> PROVE Types'
  BY <1>6, FinishEffect, LookingKeepsTypes
<1>7. CASE UpdateComplaintStatus(r)
  <2>1. /\ ~At(r, "idle") /\ Exists(request[r].post) /\ request[r].new \in ComplaintStatus
        /\ status' = [status EXCEPT ![request[r].post] = request[r].new]
        /\ Goes(r, "telling") \/ Finish(r)
        /\ UNCHANGED <<board, comments, written, count, events, planned, notified, history>>
    BY <1>7 DEF UpdateComplaintStatus, At, Asks, Call
  <2>2. request[r].post \in Posts /\ board
    BY <2>1, PostOf DEF RowTypes
  <2>3. Asks'
    BY <2>1, GoesEffect, FinishEffect, KnownOps
  <2>4. request[r].post \in Complaints /\ request[r].post \notin Notices
    BY <1>7, ConstantsAssumption DEF UpdateComplaintStatus, At, Asks
  <2>5. RowTypes'
    BY <2>1, <2>2, <2>4 DEF RowTypes, history, Exists, ComplaintStatus
  <2> QED
    BY <2>3, <2>5
<1>8. CASE NotifyResolved(r)
  <2>1. request[r].post \in Posts
    BY <1>8, PostOf DEF NotifyResolved, At
  <2>2. RowTypes'
    BY <1>8, <2>1 DEF NotifyResolved, RowTypes, history, Exists
  <2> QED
    BY <1>8, <2>2, FinishEffect DEF NotifyResolved
<1>9. CASE NotifyPosted(r)
  <2>1. ~At(r, "idle") /\ (Goes(r, "planning") \/ Finish(r)) /\ UNCHANGED <<rows, history>>
    BY <1>9 DEF NotifyPosted, At
  <2> QED
    BY <2>1, GoesEffect, FinishEffect, LookingKeepsTypes, KnownOps
<1>10. CASE DeletePost(r)
  <2>1. request[r].post \in Posts /\ ~At(r, "idle")
    BY <1>10, PostOf DEF DeletePost, At
  <2>2. board
    BY <1>10, <2>1 DEF DeletePost, RowTypes
  <2>3. Delete({request[r].post}) /\ Finish(r)
        /\ UNCHANGED <<board, comments, written, events, planned, notified, doubled, untold>>
    BY <1>10 DEF DeletePost
  <2>4. RowTypes'
    BY <2>2, <2>3, DeletingKeepsTypes
  <2> QED
    BY <2>3, <2>4, FinishEffect
<1> QED
  BY <1>1, <1>2, <1>3, <1>4, <1>5, <1>6, <1>7, <1>8, <1>9, <1>10
     DEF FindToEdit, FindToDelete, FindNotice, FindPost, NotifyCreated, UpdatePost, Posts, Ops

(* The handlers of comments keep the types. *)
LEMMA CommentTypesKept ==
  ASSUME Types, NEW r \in Requests,
         CreateComment(r) \/ DeleteComment(r) \/ CountComments(r) \/ StoreCount(r)
  PROVE  Types'
<1> USE DEF Types
<1>0. ~At(r, "idle") /\ request[r] \in Call /\ request[r].post \in Posts /\ request[r].post # NoPost
  BY PostOf DEF CreateComment, DeleteComment, CountComments, StoreCount, At
<1>1. CASE CreateComment(r)
  <2>1. StartCount(r) /\ request[r].op = "commenting"
    BY <1>1 DEF CreateComment, At
  <2>2. Asks' /\ overlapped' \subseteq overlapped \cup {request[r].post}
    BY <1>0, <2>1, StartCountEffect
  <2>3. [id |-> written + 1, post |-> request[r].post] \in Comment /\ written' \in 0 .. MaxComments
    BY <1>0, <1>1, ConstantsAssumption DEF CreateComment, RowTypes, Comment
  <2>4. comments' \subseteq Comment /\ IsFiniteSet(comments')
    BY <1>1, <2>3, FS_AddElement DEF CreateComment, RowTypes
  <2>5. RowTypes'
    BY <1>0, <1>1, <2>2, <2>3, <2>4 DEF CreateComment, RowTypes, Exists
  <2> QED
    BY <2>2, <2>5
<1>2. CASE DeleteComment(r)
  <2>1. StartCount(r) /\ request[r].op = "removing"
    BY <1>2 DEF DeleteComment, At
  <2>2. Asks' /\ overlapped' \subseteq overlapped \cup {request[r].post}
    BY <1>0, <2>1, StartCountEffect
  <2>3. comments' \subseteq comments
    BY <1>2 DEF DeleteComment
  <2>4. comments' \subseteq Comment /\ IsFiniteSet(comments')
    BY <2>3, FS_Subset DEF RowTypes
  <2>5. RowTypes'
    BY <1>0, <1>2, <2>2, <2>4 DEF DeleteComment, RowTypes, Exists
  <2> QED
    BY <2>2, <2>5
<1>3. CASE CountComments(r)
  <2>1. PICK i \in Nat : i = Cardinality(CommentsOf(request[r].post))
    BY CountsAreNumbers
  <2>2. request[r].op = "counting" /\ Becomes(r, [request[r] EXCEPT !.op = "storing", !.item = i])
    BY <1>3, <2>1 DEF CountComments, At
  <2>4. Asks'
    BY <1>0, <2>2, NumberEffect
  <2>5. RowTypes'
    BY <1>3, LookingKeepsTypes DEF CountComments
  <2> QED
    BY <2>4, <2>5
<1>4. CASE StoreCount(r)
  <2>0. request[r].item \in Nat
    BY <1>0 DEF Call
  <2>1. count' \in [Posts -> Nat]
    BY <1>4, <2>0 DEF StoreCount, RowTypes
  <2>2. overlapped' \subseteq Posts
    BY <1>4 DEF StoreCount, RowTypes
  <2>3. RowTypes'
    BY <1>4, <2>1, <2>2 DEF StoreCount, RowTypes, Exists
  <2> QED
    BY <1>4, <2>3, FinishEffect DEF StoreCount
<1> QED
  BY <1>1, <1>2, <1>3, <1>4

(* Adding an event keeps the types. *)
LEMMA AddingKeepsTypes ==
  ASSUME Types, board, NEW r \in Requests, request[r].post \in Posts, AddEvent(r),
         UNCHANGED <<board, status, comments, written, count, notified, overlapped, untold>>
  PROVE  RowTypes'
<1>1. [id |-> planned + 1, post |-> request[r].post] \in Event /\ planned' \in 0 .. MaxEvents
  BY ConstantsAssumption DEF AddEvent, Types, RowTypes, Event
<1>2. events' \subseteq Event /\ doubled' \subseteq Posts
  BY <1>1 DEF AddEvent, Types, RowTypes
<1> QED
  BY <1>1, <1>2 DEF Types, RowTypes, Exists

(* The handlers of events, deletions and failures keep the types. *)
LEMMA EventTypesKept ==
  ASSUME Types,
         \/ \E r \in Requests : PlanEvent(r) \/ FindEvent(r) \/ UpdateEvent(r)
                               \/ CreateEvent(r) \/ Fail(r)
         \/ \E e \in events : DeleteEvent(e)
         \/ DeleteApartment
  PROVE  Types'
<1> USE DEF Types
<1>1. ASSUME NEW r \in Requests, PlanEvent(r) PROVE Types'
  <2>1. request[r].post \in Posts
    BY <1>1, PostOf DEF PlanEvent, At
  <2>2. CASE board /\ AddEvent(r)
    BY <1>1, <2>1, <2>2, AddingKeepsTypes, FinishEffect DEF PlanEvent
  <2>3. CASE UNCHANGED <<events, planned, doubled>>
    <3>1. RowTypes'
      BY <1>1, <2>3 DEF PlanEvent, RowTypes, Exists
    <3> QED
      BY <1>1, <3>1, FinishEffect DEF PlanEvent
  <2> QED
    BY <1>1, <2>2, <2>3 DEF PlanEvent
<1>2. ASSUME NEW r \in Requests, FindEvent(r) PROVE Types'
  <2>1. ~At(r, "idle") /\ UNCHANGED <<rows, history>>
    BY <1>2 DEF FindEvent, At
  <2>2. request[r] \in Call /\ request[r].post # NoPost
    BY <2>1, PostOf
  <2>3. ASSUME NEW e \in EventsOf(request[r].post),
               Becomes(r, [request[r] EXCEPT !.op = "moving", !.item = e.id])
        PROVE  Asks'
    <3>1. PICK i \in Nat : i = e.id
      BY <2>3 DEF EventsOf, RowTypes, Event
    <3> QED
      BY <2>1, <2>3, <3>1, NumberEffect
  <2>4. ASSUME Goes(r, "adding") PROVE Asks'
    <3>1. "adding" \in Ops \ {"deciding"}
      BY DEF Ops
    <3>2. ~At(r, "idle") /\ Asks
      BY <2>1
    <3> QED
      BY <2>4, <3>1, <3>2, GoesEffect
  <2>5. Asks'
    BY <1>2, <2>3, <2>4 DEF FindEvent
  <2> QED
    BY <2>1, <2>5, LookingKeepsTypes
<1>3. ASSUME NEW r \in Requests, UpdateEvent(r) PROVE Types'
  BY <1>3, FinishEffect, LookingKeepsTypes DEF UpdateEvent
<1>4. ASSUME NEW r \in Requests, CreateEvent(r) PROVE Types'
  <2>1. request[r].post \in Posts
    BY <1>4, PostOf DEF CreateEvent, At
  <2> QED
    BY <1>4, <2>1, AddingKeepsTypes, FinishEffect DEF CreateEvent
<1>5. ASSUME NEW r \in Requests, Fail(r) PROVE Types'
  <2>1. request[r].post \in Posts
    BY <1>5, PostOf DEF Fail
  <2>2. RowTypes'
    BY <1>5, <2>1 DEF Fail, rows, RowTypes, Exists
  <2> QED
    BY <1>5, <2>2, FinishEffect DEF Fail
<1>6. ASSUME NEW e \in events, DeleteEvent(e) PROVE Types'
  <2>1. RowTypes'
    BY <1>6 DEF DeleteEvent, history, RowTypes, Exists
  <2>2. Asks'
    BY <1>6 DEF DeleteEvent, Asks
  <2> QED
    BY <2>1, <2>2
<1>7. CASE DeleteApartment
  <2> DEFINE gone == {p \in Posts : Exists(p)}
  <2>1. /\ status' = [p \in Posts |-> IF p \in gone THEN "DELETED" ELSE status[p]]
        /\ count' = [p \in Posts |-> IF p \in gone THEN 0 ELSE count[p]]
        /\ overlapped' = overlapped \ gone
    BY <1>7 DEF DeleteApartment, Delete
  <2>2. count' \in [Posts -> Nat]
        /\ \A p \in Posts : status'[p] = IF p \in gone THEN "DELETED" ELSE status[p]
    BY <2>1 DEF RowTypes
  <2>3. status' \in [Posts -> ComplaintStatus \cup {"NONE", "POSTED", "DELETED"}]
    BY <2>1 DEF RowTypes
  <2>4. /\ \A c \in Complaints : status'[c] \in ComplaintStatus \cup {"NONE", "DELETED"}
        /\ \A n \in Notices : status'[n] \in {"NONE", "POSTED", "DELETED"}
    BY <2>2 DEF RowTypes, Posts
  <2>5. \A p \in Posts : ~Exists(p)'
    BY <2>2 DEF Exists
  <2>6. RowTypes'
    BY <1>7, <2>1, <2>2, <2>3, <2>4, <2>5 DEF DeleteApartment, RowTypes
  <2>7. Asks'
    BY <1>7 DEF DeleteApartment, Asks
  <2> QED
    BY <2>6, <2>7
<1> QED
  BY <1>1, <1>2, <1>3, <1>4, <1>5, <1>6, <1>7

(* Every step keeps the types. *)
LEMMA TypesKept == Types /\ [Next]_vars => Types'
<1> SUFFICES ASSUME Types, [Next]_vars PROVE Types'
  OBVIOUS
<1>1. ASSUME NEW r \in Requests, Start(r) PROVE Types'
  BY <1>1, PostTypesKept DEF Start
<1>2. ASSUME NEW r \in Requests, Continue(r) PROVE Types'
  BY <1>2, PostTypesKept, CommentTypesKept, EventTypesKept DEF Continue
<1>3. CASE UNCHANGED vars
  BY <1>3 DEF vars, Types, RowTypes, Asks, Exists
<1> QED
  BY <1>1, <1>2, <1>3, EventTypesKept DEF Next

(* The boards are empty at first. *)
LEMMA TypesFirst == Init => Types
BY IdleCall, FS_EmptySet, ConstantsAssumption DEF Init, Types, RowTypes, Asks, Exists, Posts

(* The tables, the requests and the history keep to their types, and an
   apartment without boards has no post and no event (TypeOK). *)
THEOREM TypeCorrect == Spec => []TypeOK
<1>1. Types => TypeOK
  BY DEF Types, RowTypes, Asks, TypeOK
<1> QED
  BY <1>1, TypesFirst, TypesKept, PTL DEF Spec

-----------------------------------------------------------------------------
(* What a step does to the other requests, and who starts what. *)

(* Only whether it is alone may change of a request another one passes. *)
Passed(q) ==
  /\ request'[q].op = request[q].op /\ request'[q].post = request[q].post
  /\ request'[q].old = request[q].old /\ request'[q].item = request[q].item
  /\ request'[q].dated = request[q].dated

(* A handler that writes no comment moves its own request only. *)
LEMMA OthersStay ==
  ASSUME Types, NEW r \in Requests, Start(r) \/ Continue(r),
         ~CreateComment(r), ~DeleteComment(r)
  PROVE  \A q \in Requests \ {r} : request'[q] = request[q]
<1>1. ASSUME NEW k, Becomes(r, k) PROVE \A q \in Requests \ {r} : request'[q] = request[q]
  BY <1>1 DEF Becomes, Types, Asks
<1>2. CASE Start(r)
  BY <1>1, <1>2 DEF Start, CreateComplaint, FindToEdit, FindToDelete, FindToDecide,
     CreateNotice, FindNotice, FindPost, FindComment
<1>3. CASE NotifyCreated(r) \/ UpdateComplaintStatus(r) \/ NotifyResolved(r)
           \/ NotifyPosted(r) \/ UpdatePost(r) \/ DeletePost(r)
  BY <1>1, <1>3 DEF NotifyCreated, UpdateComplaintStatus, NotifyResolved, NotifyPosted,
     UpdatePost, DeletePost, Goes, Finish
<1>4. CASE CountComments(r) \/ StoreCount(r) \/ PlanEvent(r) \/ FindEvent(r)
           \/ UpdateEvent(r) \/ CreateEvent(r) \/ Fail(r)
  BY <1>1, <1>4 DEF CountComments, StoreCount, PlanEvent, FindEvent, UpdateEvent,
     CreateEvent, Fail, Goes, Finish
<1> QED
  BY <1>2, <1>3, <1>4 DEF Continue

(* Any handler moves its own request only, or tells others they are not alone. *)
LEMMA OthersPassed ==
  ASSUME Types, NEW r \in Requests, Start(r) \/ Continue(r)
  PROVE  \A q \in Requests \ {r} : Passed(q)
<1>1. CASE CreateComment(r) \/ DeleteComment(r)
  <2>1. /\ ~At(r, "idle") /\ request[r].op \notin {"counting", "storing"}
        /\ StartCount(r)
    BY <1>1 DEF CreateComment, DeleteComment, At
  <2> QED
    BY <2>1, StartCountEffect DEF Types, Passed
<1> QED
  BY <1>1, OthersStay DEF Passed

(* The other steps move no request. *)
LEMMA NobodyMoves ==
  ASSUME (\E e \in events : DeleteEvent(e)) \/ DeleteApartment \/ UNCHANGED vars
  PROVE  request' = request
BY DEF DeleteEvent, DeleteApartment, vars

(* A request that is about to tell an author tells him or fails. *)
LEMMA TellingStep ==
  ASSUME NEW r \in Requests, At(r, "telling"), Start(r) \/ Continue(r)
  PROVE  NotifyResolved(r) \/ Fail(r)
BY DEF Start, Continue, At, CreateComplaint, FindToEdit, FindToDelete, FindToDecide,
   CreateNotice, FindNotice, FindPost, FindComment, NotifyCreated, UpdateComplaintStatus,
   NotifyPosted, UpdatePost, DeletePost, CreateComment, DeleteComment, CountComments,
   StoreCount, PlanEvent, FindEvent, UpdateEvent, CreateEvent

(* A request that is about to decide has just looked at its complaint. *)
LEMMA DecidingStep ==
  ASSUME Types, NEW r \in Requests, Start(r) \/ Continue(r), request'[r].op = "deciding"
  PROVE  \E c \in Complaints, new \in ComplaintStatus : FindToDecide(r, c, new)
<1>1. ASSUME NEW op \in Ops \ {"deciding"}, NEW p \in Posts, Becomes(r, CallTo(op, p)) PROVE FALSE
  <2>1. request'[r] = CallTo(op, p)
    BY <1>1 DEF Becomes, Types, Asks
  <2> QED
    BY <2>1 DEF CallTo
<1>2. ASSUME Finish(r) PROVE FALSE
  BY <1>2, FinishEffect, IdleCall DEF Types
<1>3. ASSUME NEW op \in Ops \ {"deciding"}, ~At(r, "idle"), Goes(r, op) PROVE FALSE
  BY <1>3, GoesEffect DEF Types
<1>4. ASSUME Start(r) PROVE \E c \in Complaints, new \in ComplaintStatus : FindToDecide(r, c, new)
  <2>1. ASSUME NEW n \in Notices, NEW dated \in BOOLEAN, CreateNotice(r, n, dated) PROVE FALSE
    <3>1. request'[r] = [CallTo("spreading", n) EXCEPT !.dated = dated]
      BY <2>1 DEF CreateNotice, Becomes, Types, Asks
    <3> QED
      BY <3>1 DEF CallTo
  <2>2. ASSUME NEW x \in comments, FindComment(r, x) PROVE FALSE
    <3>1. request'[r] = [CallTo("removing", x.post) EXCEPT !.item = x.id]
      BY <2>2 DEF FindComment, Becomes, Types, Asks
    <3> QED
      BY <3>1 DEF CallTo
  <2>3. {"reporting", "editing", "deleting", "looking", "commenting"} \subseteq Ops \ {"deciding"}
    BY DEF Ops
  <2>4. ASSUME NEW c \in Complaints, CreateComplaint(r, c) PROVE FALSE
    BY <1>1, <2>3, <2>4 DEF CreateComplaint, Posts
  <2>5. ASSUME NEW c \in Complaints, FindToEdit(r, c) PROVE FALSE
    BY <1>1, <2>3, <2>5 DEF FindToEdit, Posts
  <2>6. ASSUME NEW c \in Complaints, NEW isAdmin, FindToDelete(r, c, isAdmin) PROVE FALSE
    BY <1>1, <2>3, <2>6 DEF FindToDelete, Posts
  <2>7. ASSUME NEW n \in Notices, NEW op \in {"editing", "deleting", "looking"}, FindNotice(r, n, op)
        PROVE FALSE
    BY <1>1, <2>3, <2>7 DEF FindNotice, Posts
  <2>8. ASSUME NEW p \in Posts, FindPost(r, p) PROVE FALSE
    BY <1>1, <2>3, <2>8 DEF FindPost
  <2> QED
    BY <1>4, <2>1, <2>2, <2>4, <2>5, <2>6, <2>7, <2>8 DEF Start
<1>5. ASSUME Continue(r) PROVE FALSE
  <2>1. {"telling", "planning", "adding"} \subseteq Ops \ {"deciding"}
    BY DEF Ops
  <2>2. CASE CreateComment(r) \/ DeleteComment(r)
    <3>1. /\ ~At(r, "idle") /\ request[r].op \notin {"counting", "storing"}
          /\ StartCount(r)
      BY <2>2 DEF CreateComment, DeleteComment, At
    <3> QED
      BY <3>1, StartCountEffect DEF Types
  <2>3. ASSUME NEW op \in {"storing", "moving"}, NEW i \in Nat, ~At(r, "idle"),
               Becomes(r, [request[r] EXCEPT !.op = op, !.item = i])
        PROVE  FALSE
    BY <2>3, NumberEffect DEF Types
  <2>4. CASE CountComments(r)
    <3>1. PICK i \in Nat : i = Cardinality(CommentsOf(request[r].post))
      BY CountsAreNumbers DEF Types
    <3> QED
      BY <2>3, <2>4, <3>1 DEF CountComments, At
  <2>5. CASE FindEvent(r)
    <3>1. ASSUME NEW e \in EventsOf(request[r].post),
                 Becomes(r, [request[r] EXCEPT !.op = "moving", !.item = e.id])
          PROVE  FALSE
      <4>1. PICK i \in Nat : i = e.id
        BY <3>1 DEF EventsOf, Types, RowTypes, Event
      <4> QED
        BY <2>3, <2>5, <3>1, <4>1 DEF FindEvent, At
    <3> QED
      BY <1>3, <2>1, <2>5, <3>1 DEF FindEvent, At
  <2>6. CASE UpdateComplaintStatus(r) \/ NotifyPosted(r)
    BY <1>2, <1>3, <2>1, <2>6 DEF UpdateComplaintStatus, NotifyPosted, At
  <2> QED
    BY <1>2, <1>5, <2>2, <2>4, <2>5, <2>6 DEF Continue, NotifyCreated, NotifyResolved, UpdatePost,
       DeletePost, StoreCount, PlanEvent, UpdateEvent, CreateEvent, Fail
<1> QED
  BY <1>4, <1>5

-----------------------------------------------------------------------------
(* Whom a resolution reaches. *)

(* The author of c is notified, will be, or the request that had to failed. *)
Told(c) == \/ c \in notified \cup untold
           \/ \E r \in Requests : At(r, "telling") /\ request[r].post = c

(* That cannot be lost. *)
LEMMA ToldKept == ASSUME Types, [Next]_vars, NEW c \in Posts, Told(c) PROVE Told(c)'
<1>1. notified \subseteq notified' /\ untold \subseteq untold'
  <2>1. ASSUME NEW r \in Requests, Start(r) PROVE UNCHANGED <<notified, untold>>
    BY <2>1 DEF Start, CreateComplaint, FindToEdit, FindToDelete, FindToDecide,
       CreateNotice, FindNotice, FindPost, FindComment, rows, history
  <2>2. ASSUME NEW r \in Requests, Continue(r) PROVE notified \subseteq notified' /\ untold \subseteq untold'
    BY <2>2 DEF Continue, NotifyCreated, UpdateComplaintStatus, NotifyResolved,
       NotifyPosted, UpdatePost, DeletePost, CreateComment, DeleteComment, CountComments,
       StoreCount, PlanEvent, FindEvent, UpdateEvent, CreateEvent, Fail, rows, history
  <2> QED
    BY <2>1, <2>2 DEF Next, vars, DeleteEvent, DeleteApartment, history
<1>2. CASE c \in notified \cup untold
  BY <1>1, <1>2 DEF Told
<1>3. ASSUME NEW q \in Requests, At(q, "telling"), request[q].post = c PROVE Told(c)'
  <2>1. CASE At(q, "telling")' /\ request'[q].post = c
    BY <2>1 DEF Told
  <2>2. ASSUME Start(q) \/ Continue(q) PROVE Told(c)'
    BY <1>3, <2>2, TellingStep DEF NotifyResolved, Fail, Told
  <2>3. ASSUME NEW r \in Requests \ {q}, Start(r) \/ Continue(r) PROVE Told(c)'
    BY <1>3, <2>1, <2>3, OthersPassed DEF Passed, At
  <2>4. CASE (\E e \in events : DeleteEvent(e)) \/ DeleteApartment \/ UNCHANGED vars
    BY <1>3, <2>1, <2>4, NobodyMoves DEF At
  <2> QED
    BY <2>2, <2>3, <2>4 DEF Next
<1> QED
  BY <1>2, <1>3 DEF Told

(* Resolved complaints are told of, also those that a manager found resolved. *)
ToldOnce ==
  /\ \A c \in Complaints : status[c] = "RESOLVED" => Told(c)
  /\ \A r \in Requests : At(r, "deciding") /\ request[r].old = "RESOLVED" => Told(request[r].post)

(* Only a manager's decision resolves a complaint. *)
LEMMA ResolvingStep ==
  ASSUME Types, [Next]_vars, NEW c \in Complaints, status'[c] = "RESOLVED", status[c] # "RESOLVED"
  PROVE  \E r \in Requests : /\ UpdateComplaintStatus(r)
                             /\ request[r].post = c /\ request[r].new = "RESOLVED"
<1>0. c \in Posts /\ status \in [Posts -> ComplaintStatus \cup {"NONE", "POSTED", "DELETED"}]
  BY DEF Posts, Types, RowTypes
<1>1. ASSUME NEW r \in Requests, Start(r) PROVE FALSE
  <2>1. CASE \E d \in Complaints : CreateComplaint(r, d)
    BY <1>0, <2>1 DEF CreateComplaint
  <2>2. CASE \E n \in Notices, dated \in BOOLEAN : CreateNotice(r, n, dated)
    BY <1>0, <2>2 DEF CreateNotice
  <2>3. CASE UNCHANGED status
    BY <2>3
  <2> QED
    BY <1>1, <2>1, <2>2, <2>3 DEF Start, FindToEdit, FindToDelete, FindToDecide,
       FindNotice, FindPost, FindComment, rows
<1>2. ASSUME NEW gone, Delete(gone) PROVE FALSE
  BY <1>0, <1>2 DEF Delete
<1>3. ASSUME NEW r \in Requests, UpdateComplaintStatus(r)
      PROVE  request[r].post = c /\ request[r].new = "RESOLVED"
  BY <1>0, <1>3 DEF UpdateComplaintStatus
<1>4. ASSUME NEW r \in Requests, Continue(r) PROVE UpdateComplaintStatus(r)
  BY <1>2, <1>4 DEF Continue, NotifyCreated, NotifyResolved,
     NotifyPosted, UpdatePost, DeletePost, CreateComment, DeleteComment, CountComments,
     StoreCount, PlanEvent, FindEvent, UpdateEvent, CreateEvent, Fail, rows
<1>5. CASE (\E e \in events : DeleteEvent(e)) \/ DeleteApartment \/ UNCHANGED vars
  BY <1>2, <1>5 DEF DeleteEvent, DeleteApartment, vars
<1> QED
  BY <1>1, <1>3, <1>4, <1>5 DEF Next

(* Every step keeps ToldOnce. *)
LEMMA ToldOnceKept == Types /\ ToldOnce /\ [Next]_vars => ToldOnce'
<1> SUFFICES ASSUME Types, ToldOnce, [Next]_vars PROVE ToldOnce'
  OBVIOUS
<1>1. ASSUME NEW c \in Complaints, status'[c] = "RESOLVED" PROVE Told(c)'
  <2>0. c \in Posts
    BY DEF Posts
  <2>1. CASE status[c] = "RESOLVED"
    BY <2>0, <2>1, ToldKept DEF ToldOnce
  <2>2. CASE status[c] # "RESOLVED"
    <3>1. PICK r \in Requests : /\ UpdateComplaintStatus(r)
                               /\ request[r].post = c /\ request[r].new = "RESOLVED"
      BY <1>1, <2>2, ResolvingStep
    <3>2. CASE Resolves(request[r])
      <4>1. Goes(r, "telling") /\ ~At(r, "idle")
        BY <3>1, <3>2 DEF UpdateComplaintStatus, At
      <4>2. "telling" \in Ops \ {"deciding"} /\ Asks
        BY DEF Ops, Types
      <4>3. request'[r].op = "telling" /\ request'[r].post = c
        BY <3>1, <4>1, <4>2, GoesEffect
      <4> QED
        BY <4>3 DEF Told, At
    <3>3. CASE ~Resolves(request[r])
      BY <2>0, <3>1, <3>3, ToldKept DEF Resolves, UpdateComplaintStatus, ToldOnce
    <3> QED
      BY <3>2, <3>3
  <2> QED
    BY <2>1, <2>2
<1>2. ASSUME NEW q \in Requests, request'[q].op = "deciding", request'[q].old = "RESOLVED"
      PROVE  Told(request[q].post)'
  <2>1. CASE request[q].op = "deciding" /\ request[q].old = "RESOLVED"
             /\ request'[q].post = request[q].post
    <3>1. request[q].post \in Posts
      BY <2>1, PostOf DEF At, Types
    <3>2. PICK p \in Posts : p = request[q].post /\ Told(p)
      BY <2>1, <3>1 DEF ToldOnce, At
    <3>3. Told(p)'
      BY <3>2, ToldKept
    <3> QED
      BY <2>1, <3>2, <3>3
  <2>2. ASSUME Start(q) \/ Continue(q) PROVE Told(request[q].post)'
    <3>1. PICK c \in Complaints, new \in ComplaintStatus : FindToDecide(q, c, new)
      BY <1>2, <2>2, DecidingStep
    <3>2. PICK old \in ComplaintStatus : old = status[c]
      BY <3>1 DEF FindToDecide, Exists, Types, RowTypes
    <3>3. request'[q] = [CallTo("deciding", c) EXCEPT !.old = old, !.new = new]
      BY <3>1, <3>2 DEF FindToDecide, Becomes, Types, Asks
    <3>4. request'[q].post = c /\ request'[q].old = old
      BY <3>3 DEF CallTo
    <3>5. Told(c) /\ c \in Posts
      BY <1>2, <3>2, <3>4 DEF ToldOnce, Posts
    <3> QED
      BY <3>4, <3>5, ToldKept
  <2>3. ASSUME NEW r \in Requests \ {q}, Start(r) \/ Continue(r) PROVE Told(request[q].post)'
    BY <1>2, <2>1, <2>3, OthersPassed DEF Passed
  <2>4. CASE (\E e \in events : DeleteEvent(e)) \/ DeleteApartment \/ UNCHANGED vars
    BY <1>2, <2>1, <2>4, NobodyMoves
  <2> QED
    BY <2>2, <2>3, <2>4 DEF Next
<1> QED
  BY <1>1, <1>2 DEF ToldOnce, At

(* The author of a resolved complaint is notified unless the request that
   resolved it failed, whatever the managers had read (ResolvedIsNotified). *)
THEOREM ResolutionsAreTold == Spec => []ResolvedIsNotified
<1>1. Init => ToldOnce
  BY IdleCall DEF Init, ToldOnce, At, Posts
<1>2. ToldOnce => ResolvedIsNotified
  BY DEF ToldOnce, Told, ResolvedIsNotified
<1> QED
  BY <1>1, <1>2, TypesFirst, TypesKept, ToldOnceKept, PTL DEF Spec

-----------------------------------------------------------------------------
(* Where a handler's request is after a step. *)

(* A request that starts knows a post that exists now, or has a comment. *)
LEMMA StartOutcome ==
  ASSUME Types, NEW r \in Requests, Start(r)
  PROVE  \/ \E c \in Complaints : /\ CreateComplaint(r, c)
                                 /\ request'[r].op = "reporting" /\ request'[r].post = c
         \/ \E n \in Notices, dated \in BOOLEAN :
              /\ CreateNotice(r, n, dated) /\ request'[r].op = "spreading"
              /\ request'[r].post = n /\ request'[r].dated = dated
         \/ \E x \in comments : /\ UNCHANGED <<rows, history>>
                               /\ request'[r].op = "removing" /\ request'[r].post = x.post
                               /\ request'[r].item = x.id
         \/ /\ request'[r].op \in {"editing", "deleting", "deciding", "looking", "commenting"}
            /\ request'[r].post \in Posts /\ Exists(request'[r].post)
            /\ UNCHANGED <<rows, history>>
<1>1. ASSUME NEW op \in Ops, NEW p \in Posts, Becomes(r, CallTo(op, p))
      PROVE  request'[r].op = op /\ request'[r].post = p
  <2>1. request'[r] = CallTo(op, p)
    BY <1>1 DEF Becomes, Types, Asks
  <2> QED
    BY <2>1 DEF CallTo
<1>2. {"reporting", "editing", "deleting", "looking", "commenting"} \subseteq Ops
  BY DEF Ops
<1>3. ASSUME NEW c \in Complaints, CreateComplaint(r, c)
      PROVE  request'[r].op = "reporting" /\ request'[r].post = c
  BY <1>1, <1>2, <1>3 DEF CreateComplaint, Posts
<1>4. ASSUME NEW n \in Notices, NEW dated \in BOOLEAN, CreateNotice(r, n, dated)
      PROVE  request'[r].op = "spreading" /\ request'[r].post = n /\ request'[r].dated = dated
  <2>1. request'[r] = [CallTo("spreading", n) EXCEPT !.dated = dated]
    BY <1>4 DEF CreateNotice, Becomes, Types, Asks
  <2> QED
    BY <2>1 DEF CallTo
<1>5. ASSUME NEW x \in comments, FindComment(r, x)
      PROVE  /\ request'[r].op = "removing" /\ request'[r].post = x.post
             /\ request'[r].item = x.id
  <2>1. request'[r] = [CallTo("removing", x.post) EXCEPT !.item = x.id]
    BY <1>5 DEF FindComment, Becomes, Types, Asks
  <2> QED
    BY <2>1 DEF CallTo
<1>6. ASSUME NEW c \in Complaints, NEW new \in ComplaintStatus, FindToDecide(r, c, new)
      PROVE  request'[r].op = "deciding" /\ request'[r].post = c
  <2>1. request'[r] = [CallTo("deciding", c) EXCEPT !.old = status[c], !.new = new]
    BY <1>6 DEF FindToDecide, Becomes, Types, Asks
  <2> QED
    BY <2>1 DEF CallTo
<1>7. ASSUME NEW p \in Posts, NEW op \in {"editing", "deleting", "looking", "commenting"},
             Becomes(r, CallTo(op, p)), Exists(p), UNCHANGED <<rows, history>>
      PROVE  /\ request'[r].op \in {"editing", "deleting", "deciding", "looking", "commenting"}
             /\ request'[r].post \in Posts /\ Exists(request'[r].post)
  BY <1>1, <1>2, <1>7
<1>8. ASSUME NEW c \in Complaints, FindToEdit(r, c)
      PROVE  /\ request'[r].op = "editing" /\ request'[r].post = c
             /\ c \in Posts /\ Exists(c) /\ UNCHANGED <<rows, history>>
  BY <1>1, <1>2, <1>8 DEF FindToEdit, Posts, Exists
<1>9. ASSUME NEW c \in Complaints, NEW isAdmin, FindToDelete(r, c, isAdmin)
      PROVE  /\ request'[r].op = "deleting" /\ request'[r].post = c
             /\ c \in Posts /\ Exists(c) /\ UNCHANGED <<rows, history>>
  BY <1>1, <1>2, <1>9 DEF FindToDelete, Posts
<1>10. ASSUME NEW n \in Notices, NEW op \in {"editing", "deleting", "looking"}, FindNotice(r, n, op)
       PROVE  /\ request'[r].op = op /\ request'[r].post = n
              /\ n \in Posts /\ Exists(n) /\ UNCHANGED <<rows, history>>
  BY <1>1, <1>2, <1>10 DEF FindNotice, Posts
<1>11. ASSUME NEW p \in Posts, FindPost(r, p)
       PROVE  /\ request'[r].op = "commenting" /\ request'[r].post = p
              /\ Exists(p) /\ UNCHANGED <<rows, history>>
  BY <1>1, <1>2, <1>11 DEF FindPost
<1>12. ASSUME NEW c \in Complaints, NEW new \in ComplaintStatus, FindToDecide(r, c, new)
       PROVE  c \in Posts /\ Exists(c) /\ UNCHANGED <<rows, history>>
  BY <1>12 DEF FindToDecide, Posts
<1>13. ASSUME NEW x \in comments, FindComment(r, x) PROVE UNCHANGED <<rows, history>>
  BY <1>13 DEF FindComment
<1>14. CASE \E c \in Complaints :
              \/ CreateComplaint(r, c) \/ FindToEdit(r, c)
              \/ \E isAdmin \in BOOLEAN : FindToDelete(r, c, isAdmin)
              \/ \E new \in ComplaintStatus : FindToDecide(r, c, new)
  BY <1>3, <1>6, <1>8, <1>9, <1>12, <1>14
<1>15. CASE \E n \in Notices :
              \/ \E dated \in BOOLEAN : CreateNotice(r, n, dated)
              \/ \E op \in {"editing", "deleting", "looking"} : FindNotice(r, n, op)
  BY <1>4, <1>10, <1>15
<1>16. CASE (\E p \in Posts : FindPost(r, p)) \/ \E x \in comments : FindComment(r, x)
  BY <1>5, <1>11, <1>13, <1>16
<1> QED
  BY <1>14, <1>15, <1>16 DEF Start

(* One that goes on keeps its post, or ends. *)
LEMMA ContinueOutcome ==
  ASSUME Types, NEW r \in Requests, Continue(r)
  PROVE  /\ ~At(r, "idle")
         /\ \/ /\ CreateComment(r) \/ DeleteComment(r)
               /\ request[r].op \notin {"counting", "storing"} /\ StartCount(r)
            \/ /\ CountComments(r) /\ request'[r].op = "storing"
               /\ request'[r].item = Cardinality(CommentsOf(request[r].post))
               /\ request'[r].post = request[r].post /\ request'[r].alone = request[r].alone
            \/ /\ NotifyPosted(r) /\ request[r].dated /\ request'[r].op = "planning"
               /\ request'[r].post = request[r].post
            \/ /\ FindEvent(r) /\ request'[r].op = "moving"
               /\ request'[r].post = request[r].post
            \/ /\ FindEvent(r) /\ EventsOf(request[r].post) = {} /\ request'[r].op = "adding"
               /\ request'[r].post = request[r].post
            \/ /\ UpdateComplaintStatus(r) /\ request'[r].op = "telling"
               /\ request'[r].post = request[r].post
            \/ /\ request'[r] = Idle
               /\ \/ NotifyCreated(r) \/ UpdateComplaintStatus(r) \/ NotifyResolved(r)
                  \/ NotifyPosted(r) \/ UpdatePost(r) \/ DeletePost(r) \/ StoreCount(r)
                  \/ PlanEvent(r) \/ UpdateEvent(r) \/ CreateEvent(r) \/ Fail(r)
<1> USE DEF Types
<1>1. ~At(r, "idle")
  BY DEF Continue, At, NotifyCreated, UpdateComplaintStatus, NotifyResolved,
     NotifyPosted, UpdatePost, DeletePost, CreateComment, DeleteComment, CountComments,
     StoreCount, PlanEvent, FindEvent, UpdateEvent, CreateEvent, Fail
<1>2. CASE CreateComment(r) \/ DeleteComment(r)
  BY <1>1, <1>2 DEF CreateComment, DeleteComment, At
<1>3. CASE CountComments(r)
  <2>1. PICK i \in Nat : i = Cardinality(CommentsOf(request[r].post))
    BY CountsAreNumbers
  <2>2. Becomes(r, [request[r] EXCEPT !.op = "storing", !.item = i])
    BY <1>3, <2>1 DEF CountComments
  <2> QED
    BY <1>1, <1>3, <2>1, <2>2, NumberEffect
<1>4. ASSUME NEW op \in {"telling", "planning", "adding"}, Goes(r, op)
      PROVE  request'[r].op = op /\ request'[r].post = request[r].post
  <2>1. op \in Ops \ {"deciding"}
    BY DEF Ops
  <2> QED
    BY <1>1, <1>4, <2>1, GoesEffect
<1>5. ASSUME Finish(r) PROVE request'[r] = Idle
  BY <1>5, FinishEffect
<1>6. CASE UpdateComplaintStatus(r) \/ NotifyPosted(r)
  BY <1>1, <1>4, <1>5, <1>6 DEF UpdateComplaintStatus, NotifyPosted
<1>7. CASE FindEvent(r)
  <2>1. ASSUME NEW e \in EventsOf(request[r].post),
               Becomes(r, [request[r] EXCEPT !.op = "moving", !.item = e.id])
        PROVE  request'[r].op = "moving" /\ request'[r].post = request[r].post
    <3>1. PICK i \in Nat : i = e.id
      BY <2>1 DEF EventsOf, RowTypes, Event
    <3> QED
      BY <1>1, <2>1, <3>1, NumberEffect
  <2> QED
    BY <1>1, <1>4, <1>7, <2>1 DEF FindEvent
<1>8. CASE \/ NotifyCreated(r) \/ NotifyResolved(r) \/ UpdatePost(r) \/ DeletePost(r)
           \/ StoreCount(r) \/ PlanEvent(r) \/ UpdateEvent(r) \/ CreateEvent(r) \/ Fail(r)
  <2>1. Finish(r)
    BY <1>8 DEF NotifyCreated, NotifyResolved, UpdatePost, DeletePost, StoreCount,
       PlanEvent, UpdateEvent, CreateEvent, Fail
  <2> QED
    BY <1>1, <1>5, <1>8, <2>1
<1> QED
  BY <1>2, <1>3, <1>6, <1>7, <1>8 DEF Continue

-----------------------------------------------------------------------------
(* Whatever refers to a post refers to one that has existed. *)
Born(p) == status[p] # "NONE"

(* A post that has existed cannot be made again, ... *)
LEMMA BornStays ==
  ASSUME Types, [Next]_vars, NEW p \in Posts, Born(p) PROVE Born(p)'
<1>1. status \in [Posts -> ComplaintStatus \cup {"NONE", "POSTED", "DELETED"}]
  BY DEF Types, RowTypes
<1>2. ASSUME NEW r \in Requests, Start(r) PROVE Born(p)'
  BY <1>1, <1>2, StartOutcome DEF Born, CreateComplaint, CreateNotice, rows, Posts
<1>3. ASSUME NEW gone, Delete(gone) PROVE Born(p)'
  BY <1>3 DEF Delete, Born
<1>4. ASSUME NEW r \in Requests, UpdateComplaintStatus(r) PROVE Born(p)'
  <2>1. request[r].new \in ComplaintStatus
    BY <1>4 DEF Types, Asks, Call
  <2> QED
    BY <1>1, <1>4, <2>1 DEF UpdateComplaintStatus, Born, ComplaintStatus
<1>5. ASSUME NEW r \in Requests, Continue(r), ~UpdateComplaintStatus(r) PROVE Born(p)'
  BY <1>3, <1>5 DEF Born, Continue, NotifyCreated, NotifyResolved,
     NotifyPosted, UpdatePost, DeletePost, CreateComment, DeleteComment, CountComments,
     StoreCount, PlanEvent, FindEvent, UpdateEvent, CreateEvent, Fail, rows
<1>6. CASE (\E e \in events : DeleteEvent(e)) \/ DeleteApartment \/ UNCHANGED vars
  BY <1>3, <1>6 DEF DeleteEvent, DeleteApartment, Born, vars
<1> QED
  BY <1>2, <1>4, <1>5, <1>6 DEF Next

(* ... and one that was deleted stays deleted. *)
LEMMA ExistedBefore ==
  ASSUME Types, [Next]_vars, NEW p \in Posts, Born(p), Exists(p)' PROVE Exists(p)
<1>1. status \in [Posts -> ComplaintStatus \cup {"NONE", "POSTED", "DELETED"}]
  BY DEF Types, RowTypes
<1>2. ASSUME NEW r \in Requests, Start(r) PROVE Exists(p)
  BY <1>1, <1>2, StartOutcome DEF Born, Exists, CreateComplaint, CreateNotice, rows, Posts
<1>3. ASSUME NEW gone, Delete(gone) PROVE Exists(p)
  BY <1>3 DEF Delete, Exists
<1>4. ASSUME NEW r \in Requests, UpdateComplaintStatus(r) PROVE Exists(p)
  BY <1>1, <1>4 DEF UpdateComplaintStatus, Exists
<1>5. ASSUME NEW r \in Requests, Continue(r), ~UpdateComplaintStatus(r) PROVE Exists(p)
  BY <1>3, <1>5 DEF Exists, Continue, NotifyCreated, NotifyResolved,
     NotifyPosted, UpdatePost, DeletePost, CreateComment, DeleteComment, CountComments,
     StoreCount, PlanEvent, FindEvent, UpdateEvent, CreateEvent, Fail, rows
<1>6. CASE (\E e \in events : DeleteEvent(e)) \/ DeleteApartment \/ UNCHANGED vars
  BY <1>3, <1>6 DEF DeleteEvent, DeleteApartment, Exists, vars
<1> QED
  BY <1>2, <1>4, <1>5, <1>6 DEF Next

(* Requests, comments, events and counts belong to posts that have existed. *)
Rooted ==
  /\ \A r \in Requests : request[r].post # NoPost => Born(request[r].post)
  /\ \A x \in comments : Born(x.post)
  /\ \A e \in events : Born(e.post)
  /\ \A p \in Posts : ~Born(p) => count[p] = 0

(* No step makes the requests belong to something else. *)
LEMMA RequestsRooted ==
  ASSUME Types, Rooted, [Next]_vars, NEW q \in Requests, request'[q].post # NoPost
  PROVE  status'[request'[q].post] # "NONE"
<1>1. CASE request'[q].post = request[q].post
  <2>1. PICK p \in Posts : p = request[q].post /\ Born(p)
    BY <1>1 DEF Rooted, Types, Asks, Call
  <2> QED
    BY <1>1, <2>1, BornStays DEF Born
<1>2. ASSUME Start(q) PROVE status'[request'[q].post] # "NONE"
  <2>1. CASE \E c \in Complaints : CreateComplaint(q, c) /\ request'[q].post = c
    BY <2>1 DEF CreateComplaint, Types, RowTypes, Posts
  <2>2. CASE \E n \in Notices, dated \in BOOLEAN : CreateNotice(q, n, dated) /\ request'[q].post = n
    BY <2>2 DEF CreateNotice, Types, RowTypes, Posts
  <2>3. CASE \E x \in comments : UNCHANGED <<rows, history>> /\ request'[q].post = x.post
    BY <2>3 DEF rows, Rooted, Born
  <2>4. CASE Exists(request'[q].post) /\ UNCHANGED <<rows, history>>
    BY <2>4 DEF rows, Exists
  <2> QED
    BY <1>2, <2>1, <2>2, <2>3, <2>4, StartOutcome
<1>3. ASSUME Continue(q) PROVE status'[request'[q].post] # "NONE"
  <2>1. ASSUME StartCount(q), ~At(q, "idle"), request[q].op \notin {"counting", "storing"}
        PROVE  request'[q].post = request[q].post
    BY <2>1, StartCountEffect DEF Types
  <2> QED
    BY <1>1, <1>3, <2>1, ContinueOutcome, IdleCall
<1>4. ASSUME NEW r \in Requests \ {q}, Start(r) \/ Continue(r) PROVE status'[request'[q].post] # "NONE"
  BY <1>1, <1>4, OthersPassed DEF Passed
<1>5. CASE (\E e \in events : DeleteEvent(e)) \/ DeleteApartment \/ UNCHANGED vars
  BY <1>1, <1>5, NobodyMoves
<1> QED
  BY <1>2, <1>3, <1>4, <1>5 DEF Next

(* Comments are written for the post of a request, or not at all. *)
LEMMA CommentsChange ==
  ASSUME Types, [Next]_vars, NEW x \in comments', x \notin comments
  PROVE  \E r \in Requests : CreateComment(r) /\ x.post = request[r].post
<1>1. ASSUME NEW r \in Requests, Start(r) PROVE FALSE
  BY <1>1, StartOutcome DEF CreateComplaint, CreateNotice, rows
<1>2. ASSUME NEW r \in Requests, CreateComment(r) PROVE x.post = request[r].post
  BY <1>2 DEF CreateComment
<1>3. ASSUME NEW r \in Requests, Continue(r), ~CreateComment(r) PROVE FALSE
  BY <1>3 DEF Continue, NotifyCreated, UpdateComplaintStatus, NotifyResolved,
     NotifyPosted, UpdatePost, DeletePost, DeleteComment, CountComments,
     StoreCount, PlanEvent, FindEvent, UpdateEvent, CreateEvent, Fail, rows
<1>4. CASE (\E e \in events : DeleteEvent(e)) \/ DeleteApartment \/ UNCHANGED vars
  BY <1>4 DEF DeleteEvent, DeleteApartment, vars
<1> QED
  BY <1>1, <1>2, <1>3, <1>4 DEF Next

(* Events are added for the post of a request, or not at all. *)
LEMMA EventsChange ==
  ASSUME Types, [Next]_vars, NEW e \in events', e \notin events
  PROVE  \E r \in Requests : /\ PlanEvent(r) \/ CreateEvent(r)
                             /\ AddEvent(r) /\ e.post = request[r].post
<1>1. ASSUME NEW r \in Requests, Start(r) PROVE FALSE
  BY <1>1, StartOutcome DEF CreateComplaint, CreateNotice, rows
<1>2. ASSUME NEW r \in Requests, PlanEvent(r) \/ CreateEvent(r)
      PROVE  AddEvent(r) /\ e.post = request[r].post
  <2>1. AddEvent(r)
    BY <1>2 DEF PlanEvent, CreateEvent
  <2> QED
    BY <2>1 DEF AddEvent
<1>3. ASSUME NEW r \in Requests, Continue(r), ~PlanEvent(r), ~CreateEvent(r) PROVE FALSE
  BY <1>3 DEF Continue, NotifyCreated, UpdateComplaintStatus, NotifyResolved,
     NotifyPosted, UpdatePost, DeletePost, CreateComment, DeleteComment, CountComments,
     StoreCount, FindEvent, UpdateEvent, Fail, rows
<1>4. CASE (\E d \in events : DeleteEvent(d)) \/ DeleteApartment \/ UNCHANGED vars
  BY <1>4 DEF DeleteEvent, DeleteApartment, vars
<1> QED
  BY <1>1, <1>2, <1>3, <1>4 DEF Next

(* Every step keeps Rooted. *)
LEMMA RootedKept == Types /\ Rooted /\ [Next]_vars => Rooted'
<1> SUFFICES ASSUME Types, Rooted, [Next]_vars PROVE Rooted'
  OBVIOUS
<1>1. \A r \in Requests : request'[r].post # NoPost => status'[request'[r].post] # "NONE"
  BY RequestsRooted
<1>2. ASSUME NEW r \in Requests, ~At(r, "idle")
      PROVE  request[r].post \in Posts /\ Born(request[r].post)
  BY <1>2, PostOf DEF Types, Rooted
<1>3. ASSUME NEW x \in comments' PROVE status'[x.post] # "NONE"
  <2>1. CASE x \in comments
    BY <2>1, BornStays DEF Rooted, Born, Types, RowTypes, Comment
  <2>2. CASE x \notin comments
    <3>1. PICK r \in Requests : CreateComment(r) /\ x.post = request[r].post
      BY <1>3, <2>2, CommentsChange
    <3>2. x.post \in Posts /\ Born(x.post)
      BY <1>2, <3>1 DEF CreateComment, At
    <3> QED
      BY <3>2, BornStays DEF Born
  <2> QED
    BY <2>1, <2>2
<1>4. ASSUME NEW e \in events' PROVE status'[e.post] # "NONE"
  <2>1. CASE e \in events
    BY <2>1, BornStays DEF Rooted, Born, Types, RowTypes, Event
  <2>2. CASE e \notin events
    <3>1. PICK r \in Requests : (PlanEvent(r) \/ CreateEvent(r)) /\ e.post = request[r].post
      BY <1>4, <2>2, EventsChange
    <3>2. e.post \in Posts /\ Born(e.post)
      BY <1>2, <3>1 DEF PlanEvent, CreateEvent, At
    <3> QED
      BY <3>2, BornStays DEF Born
  <2> QED
    BY <2>1, <2>2
<1>5. ASSUME NEW p \in Posts, status'[p] = "NONE" PROVE count'[p] = 0
  <2>1. status[p] = "NONE" /\ count[p] = 0
    BY <1>5, BornStays DEF Born, Rooted
  <2>2. ASSUME NEW gone, Delete(gone) PROVE count'[p] = 0
    BY <2>1, <2>2 DEF Delete
  <2>3. ASSUME NEW r \in Requests, StoreCount(r) PROVE count'[p] = 0
    BY <2>1, <2>3 DEF StoreCount, Exists, Types, RowTypes
  <2>4. ASSUME NEW r \in Requests, Start(r) PROVE count'[p] = 0
    BY <2>1, <2>4, StartOutcome DEF CreateComplaint, CreateNotice, rows
  <2>5. ASSUME NEW r \in Requests, Continue(r), ~StoreCount(r) PROVE count'[p] = 0
    BY <2>1, <2>2, <2>5 DEF Continue, NotifyCreated, UpdateComplaintStatus, NotifyResolved,
       NotifyPosted, UpdatePost, DeletePost, CreateComment, DeleteComment, CountComments,
       PlanEvent, FindEvent, UpdateEvent, CreateEvent, Fail, rows
  <2>6. CASE (\E e \in events : DeleteEvent(e)) \/ DeleteApartment \/ UNCHANGED vars
    BY <2>1, <2>2, <2>6 DEF DeleteEvent, DeleteApartment, vars
  <2> QED
    BY <2>3, <2>4, <2>5, <2>6 DEF Next
<1> QED
  BY <1>1, <1>3, <1>4, <1>5 DEF Rooted, Born

(* At first nothing refers to a post. *)
LEMMA RootedFirst == Init => Rooted
BY IdleCall DEF Init, Rooted

-----------------------------------------------------------------------------
(* One event for a post. *)

(* A request adds an event of p without looking again. *)
Adds(k) == k.op \in {"adding", "planning"} \/ (k.op = "spreading" /\ k.dated)

(* Who is about to add an event without looking again found none, unless
   another one is, too. *)
FoundNone ==
  \A r \in Requests : Adds(request[r]) =>
    request[r].post \in doubled \/ \A e \in events : e.post # request[r].post

(* A request that begins to be so has found none. *)
LEMMA AddsStep ==
  ASSUME Types, Rooted, NEW r \in Requests, Start(r) \/ Continue(r), Adds(request'[r])
  PROVE  /\ request'[r] # Idle
         /\ \/ Adds(request[r]) /\ request'[r].post = request[r].post
            \/ \A e \in events : e.post # request'[r].post
<1>1. CASE Start(r)
  <2>1. PICK n \in Notices, dated \in BOOLEAN : CreateNotice(r, n, dated) /\ request'[r].post = n
    BY <1>1, StartOutcome DEF Adds
  <2>2. \A e \in events : e.post # n
    BY <2>1 DEF CreateNotice, Rooted, Born
  <2> QED
    BY <2>1, <2>2, IdleCall DEF Adds
<1>2. CASE Continue(r)
  <2>1. ~StartCount(r) \/ request[r].op \in {"counting", "storing"} \/ At(r, "idle")
    BY StartCountEffect DEF Adds, Types
  <2>2. CASE NotifyPosted(r) /\ request[r].dated /\ request'[r].post = request[r].post
    BY <2>2, IdleCall DEF NotifyPosted, At, Adds
  <2>3. CASE EventsOf(request[r].post) = {} /\ request'[r].post = request[r].post
    BY <2>3, IdleCall DEF EventsOf, Adds
  <2> QED
    BY <1>2, <2>1, <2>2, <2>3, ContinueOutcome, IdleCall DEF Adds
<1> QED
  BY <1>1, <1>2

(* Nobody forgets that two requests met. *)
LEMMA DoubledStays == ASSUME [Next]_vars PROVE doubled \subseteq doubled'
<1>1. ASSUME NEW r \in Requests, Start(r) PROVE doubled' = doubled
  BY <1>1 DEF Start, CreateComplaint, FindToEdit, FindToDelete, FindToDecide,
     CreateNotice, FindNotice, FindPost, FindComment, history
<1>2. ASSUME NEW r \in Requests, Continue(r) PROVE doubled \subseteq doubled'
  BY <1>2 DEF Continue, NotifyCreated, UpdateComplaintStatus, NotifyResolved,
     NotifyPosted, UpdatePost, DeletePost, CreateComment, DeleteComment, CountComments,
     StoreCount, PlanEvent, FindEvent, UpdateEvent, CreateEvent, Fail, AddEvent, history
<1> QED
  BY <1>1, <1>2 DEF Next, DeleteEvent, DeleteApartment, history, vars

(* Every step keeps FoundNone and OneEventPerPost. *)
LEMMA EventsKept == Types /\ Rooted /\ FoundNone /\ OneEventPerPost /\ [Next]_vars
                    => FoundNone' /\ OneEventPerPost'
<1> SUFFICES ASSUME Types, Rooted, FoundNone, OneEventPerPost, [Next]_vars
             PROVE  FoundNone' /\ OneEventPerPost'
  OBVIOUS
<1>1. doubled \subseteq doubled'
  BY DoubledStays
<1>2. ASSUME NEW r \in Requests, PlanEvent(r) \/ CreateEvent(r), AddEvent(r)
      PROVE  FoundNone' /\ OneEventPerPost'
  <2> DEFINE p == request[r].post
             new == [id |-> planned + 1, post |-> p]
  <2>1. /\ Adds(request[r]) /\ Continue(r) /\ request'[r] = Idle
    <3>1. Adds(request[r]) /\ Finish(r)
      <4>1. CASE PlanEvent(r)
        BY <4>1 DEF PlanEvent, Adds, At
      <4>2. CASE CreateEvent(r)
        BY <4>2 DEF CreateEvent, Adds, At
      <4> QED
        BY <1>2, <4>1, <4>2
    <3>2. Continue(r)
      BY <1>2 DEF Continue
    <3>3. Asks
      BY DEF Types
    <3>4. request'[r] = Idle
      BY <3>1, <3>3, FinishEffect
    <3> QED
      BY <3>1, <3>2, <3>4
  <2>2. events' = events \cup {new} /\ new.post = p
    BY <1>2 DEF AddEvent
  <2>3. \A q \in Requests \ {r} : Passed(q)
    BY <2>1, OthersPassed
  <2>4. ASSUME NEW q \in Requests, Adds(request'[q])
        PROVE  request'[q].post \in doubled' \/ \A e \in events' : e.post # request'[q].post
    <3>1. q # r /\ Adds(request[q]) /\ request'[q].post = request[q].post
      BY <2>1, <2>3, <2>4, IdleCall DEF Passed, Adds
    <3>2. CASE request[q].post = p
      <4>1. q \in Adding(p)
        BY <3>1, <3>2 DEF Adding, Adds
      <4>2. p \in doubled'
        BY <1>2, <3>1, <4>1 DEF AddEvent
      <4> QED
        BY <3>1, <3>2, <4>2
    <3>3. CASE request[q].post # p
      BY <1>1, <2>2, <3>1, <3>3 DEF FoundNone
    <3> QED
      BY <3>2, <3>3
  <2>5. ASSUME NEW e \in events', NEW f \in events', e.post = f.post
        PROVE  e = f \/ e.post \in doubled'
    <3>1. CASE e \in events /\ f \in events
      BY <1>1, <2>5, <3>1 DEF OneEventPerPost
    <3>2. CASE e = new /\ f = new
      BY <3>2
    <3>3. ASSUME NEW g \in events, g.post = p PROVE p \in doubled'
      BY <1>1, <2>1, <3>3 DEF FoundNone
    <3> HIDE DEF new, p
    <3> QED
      BY <2>2, <2>5, <3>1, <3>2, <3>3
  <2> QED
    BY <2>4, <2>5 DEF FoundNone, OneEventPerPost
<1>3. ASSUME events' \subseteq events PROVE FoundNone' /\ OneEventPerPost'
  <2>1. OneEventPerPost'
    BY <1>1, <1>3 DEF OneEventPerPost
  <2>2. ASSUME NEW q \in Requests, Adds(request'[q])
        PROVE  request'[q].post \in doubled' \/ \A e \in events' : e.post # request'[q].post
    <3>1. CASE Adds(request[q]) /\ request'[q].post = request[q].post
      BY <1>1, <1>3, <3>1 DEF FoundNone
    <3>2. ASSUME Start(q) \/ Continue(q)
          PROVE  request'[q].post \in doubled' \/ \A e \in events' : e.post # request'[q].post
      BY <1>3, <2>2, <3>1, <3>2, AddsStep
    <3>3. ASSUME NEW r \in Requests \ {q}, Start(r) \/ Continue(r)
          PROVE  request'[q].post \in doubled' \/ \A e \in events' : e.post # request'[q].post
      BY <2>2, <3>1, <3>3, OthersPassed DEF Passed, Adds
    <3>4. CASE (\E e \in events : DeleteEvent(e)) \/ DeleteApartment \/ UNCHANGED vars
      BY <2>2, <3>1, <3>4, NobodyMoves
    <3> QED
      BY <3>2, <3>3, <3>4 DEF Next
  <2> QED
    BY <2>1, <2>2 DEF FoundNone
<1> QED
  BY <1>2, <1>3, EventsChange

(* A notice has one event, unless two requests were about to make one at the
   same time (OneEventPerPost). *)
THEOREM OneEventUnlessTwoAdd == Spec => []OneEventPerPost
<1>1. Init => FoundNone /\ OneEventPerPost
  BY IdleCall DEF Init, FoundNone, OneEventPerPost, Adds
<1> QED
  BY <1>1, TypesFirst, TypesKept, RootedFirst, RootedKept, EventsKept, PTL DEF Spec

-----------------------------------------------------------------------------
(* Counts. *)

(* A request has written a comment, or deleted one, and not stored the count. *)
Counts(k) == k.op \in {"counting", "storing"}

(* A request that is alone is the only one that counts for its post; if it is
   not, the post is known for it, while it exists.  What one that is alone is
   about to store is the number of comments. *)
CountedAlone ==
  \A p \in Posts, r \in Requests : Counts(request[r]) /\ request[r].post = p =>
    /\ request[r].alone =>
         /\ \A q \in Requests : Counts(request[q]) /\ request[q].post = p => q = r
         /\ At(r, "storing") => request[r].item = Cardinality(CommentsOf(p))
    /\ ~request[r].alone /\ Exists(p) => p \in overlapped

(* A post for which nobody counts has the right count, or is known to have been
   left by requests that met, or failed. *)
CountRight ==
  \A p \in Posts :
    Exists(p) /\ p \notin overlapped /\ (\A q \in Requests : Counts(request[q]) => request[q].post # p)
      => count[p] = Cardinality(CommentsOf(p))

(* This is CommentsCounted. *)
LEMMA CountRightSuffices == CountRight => CommentsCounted
BY DEF CountRight, CommentsCounted, Counting, Counts

(* A post without comments counts none. *)
LEMMA NoComments == ASSUME NEW p, \A x \in comments : x.post # p PROVE Cardinality(CommentsOf(p)) = 0
<1>1. CommentsOf(p) = {}
  BY DEF CommentsOf
<1> QED
  BY <1>1, FS_EmptySet

(* Comment ids are not used twice, and deleteComment deletes the comment it
   found, of the post it will count. *)
Named ==
  /\ \A x \in comments : x.id <= written
  /\ \A x, y \in comments : x.id = y.id => x = y
  /\ \A r \in Requests : At(r, "removing") =>
       /\ request[r].item <= written
       /\ \A x \in comments : x.id = request[r].item => x.post = request[r].post

(* A request that is about to delete a comment has just found it. *)
LEMMA RemovingStep ==
  ASSUME Types, NEW r \in Requests, Start(r) \/ Continue(r), request'[r].op = "removing"
  PROVE  \E x \in comments : /\ UNCHANGED rows
                            /\ request'[r].post = x.post /\ request'[r].item = x.id
<1>1. ASSUME Continue(r) PROVE FALSE
  <2>1. ~StartCount(r) \/ request[r].op \in {"counting", "storing"} \/ At(r, "idle")
    BY StartCountEffect DEF Types
  <2> QED
    BY <1>1, <2>1, ContinueOutcome, IdleCall
<1> QED
  BY <1>1, StartOutcome

(* Comments change by one. *)
LEMMA OneCommentChanges ==
  ASSUME Types, [Next]_vars
  PROVE  \/ comments' \subseteq comments /\ written' = written
         \/ \E r \in Requests : /\ CreateComment(r) /\ written' = written + 1
                               /\ comments' = comments \cup {[id |-> written + 1, post |-> request[r].post]}
<1>1. ASSUME NEW r \in Requests, Start(r) PROVE UNCHANGED <<comments, written>>
  BY <1>1, StartOutcome DEF CreateComplaint, CreateNotice, rows
<1>2. ASSUME NEW r \in Requests, Continue(r), ~CreateComment(r)
      PROVE  comments' \subseteq comments /\ written' = written
  BY <1>2 DEF Continue, NotifyCreated, UpdateComplaintStatus, NotifyResolved,
     NotifyPosted, UpdatePost, DeletePost, DeleteComment, CountComments,
     StoreCount, PlanEvent, FindEvent, UpdateEvent, CreateEvent, Fail, rows
<1> QED
  BY <1>1, <1>2 DEF Next, CreateComment, DeleteEvent, DeleteApartment, vars

(* Every step keeps Named. *)
LEMMA NamedKept == Types /\ Named /\ [Next]_vars => Named'
<1> SUFFICES ASSUME Types, Named, [Next]_vars PROVE Named'
  OBVIOUS
<1>1. written \in Nat /\ \A x \in comments : x.id \in Nat
  BY ConstantsAssumption DEF Types, RowTypes, Comment
<1>2. (\A x \in comments : x.id <= written)' /\ (\A x, y \in comments : x.id = y.id => x = y)'
      /\ written <= written' /\ \A x \in comments' : x \in comments \/ x.id = written + 1
  BY <1>1, OneCommentChanges DEF Named
<1>3. ASSUME NEW q \in Requests, request'[q].op = "removing"
      PROVE  /\ request'[q].item <= written'
             /\ \A x \in comments' : x.id = request'[q].item => x.post = request'[q].post
  <2>1. ASSUME At(q, "removing"), Passed(q) \/ request' = request
        PROVE  /\ request'[q].item <= written'
               /\ \A x \in comments' : x.id = request'[q].item => x.post = request'[q].post
    <3>1. /\ request'[q].item = request[q].item /\ request'[q].post = request[q].post
          /\ request[q].item <= written /\ request[q].item \in Nat
          /\ \A x \in comments : x.id = request[q].item => x.post = request[q].post
      BY <2>1 DEF Passed, Named, Types, Asks, Call
    <3>2. written' \in Nat
      BY TypesKept, ConstantsAssumption DEF Types, RowTypes
    <3> QED
      BY <1>1, <1>2, <3>1, <3>2
  <2>2. ASSUME Start(q) \/ Continue(q)
        PROVE  /\ request'[q].item <= written'
               /\ \A x \in comments' : x.id = request'[q].item => x.post = request'[q].post
    BY <1>3, <2>2, RemovingStep DEF rows, Named
  <2>3. ASSUME NEW r \in Requests \ {q}, Start(r) \/ Continue(r)
        PROVE  At(q, "removing") /\ Passed(q)
    BY <1>3, <2>3, OthersPassed DEF Passed, At
  <2>4. CASE (\E e \in events : DeleteEvent(e)) \/ DeleteApartment \/ UNCHANGED vars
    BY <1>3, <2>1, <2>4, NobodyMoves DEF At
  <2> QED
    BY <2>1, <2>2, <2>3, <2>4 DEF Next
<1> QED
  BY <1>2, <1>3 DEF Named, At

(* The request that meets nobody is alone; those it meets are not. *)
LEMMA WritingKeepsCounts ==
  ASSUME Types, Named, CountedAlone, CountRight, NEW r \in Requests,
         CreateComment(r) \/ DeleteComment(r)
  PROVE  CountedAlone' /\ CountRight'
<1> DEFINE p == request[r].post
<1>1. /\ ~At(r, "idle") /\ request[r].op \notin {"counting", "storing"} /\ StartCount(r)
      /\ UNCHANGED <<status, count>>
  BY DEF CreateComment, DeleteComment, At
<1>2. /\ request'[r].op = "counting" /\ request'[r].post = p
      /\ request'[r].alone = (Counting(p) = {})
      /\ \A q \in Requests \ {r} :
              /\ request'[q].op = request[q].op /\ request'[q].post = request[q].post
              /\ request'[q].item = request[q].item
              /\ request'[q].alone = IF q \in Counting(p) THEN FALSE ELSE request[q].alone
      /\ overlapped' = IF Counting(p) # {} /\ Exists(p) THEN overlapped \cup {p} ELSE overlapped
  BY <1>1, StartCountEffect DEF Types
<1>3. \A o : o # p => CommentsOf(o)' = CommentsOf(o)
  <2>1. CASE CreateComment(r)
    BY <2>1 DEF CreateComment, CommentsOf
  <2>2. CASE DeleteComment(r)
    <3>1. PICK x \in comments : x.id = request[r].item /\ comments' = comments \ {x}
      BY <2>2 DEF DeleteComment
    <3>2. x.post = p
      BY <2>2, <3>1 DEF Named, DeleteComment
    <3> QED
      BY <3>1, <3>2 DEF CommentsOf
  <2> QED
    BY <2>1, <2>2
<1>4. p \in Posts /\ \A q \in Requests : q \in Counting(p) <=> Counts(request[q]) /\ request[q].post = p
  BY <1>1, PostOf DEF Counting, Counts, Types
<1>5. \A o : Exists(o)' <=> Exists(o)
  BY <1>1 DEF Exists
<1> HIDE DEF p
<1>6. ASSUME NEW q \in Requests, NEW o \in Posts, Counts(request'[q]), request'[q].post = o
      PROVE  /\ request'[q].alone =>
                  /\ \A s \in Requests : Counts(request'[s]) /\ request'[s].post = o => s = q
                  /\ request'[q].op = "storing" => request'[q].item = Cardinality(CommentsOf(o)')
             /\ ~request'[q].alone /\ Exists(o)' => o \in overlapped'
  <2>1. CASE q = r
    <3>1. o = p /\ request'[q].op # "storing"
      BY <1>2, <1>6, <2>1
    <3>2. ASSUME request'[q].alone, NEW s \in Requests, Counts(request'[s]), request'[s].post = o
          PROVE  s = q
      BY <1>2, <1>4, <2>1, <3>1, <3>2 DEF Counts
    <3>3. ~request'[q].alone /\ Exists(o)' => o \in overlapped'
      BY <1>2, <1>5, <2>1, <3>1
    <3> QED
      BY <3>1, <3>2, <3>3
  <2>2. CASE q # r
    <3>1. /\ Counts(request[q]) /\ request[q].post = o
          /\ request'[q].op = request[q].op /\ request'[q].item = request[q].item
      BY <1>2, <1>6, <2>2 DEF Counts
    <3>2. CASE q \in Counting(p)
      <4>1. o = p /\ Counting(p) # {}
        BY <1>4, <3>1, <3>2
      <4>2. request'[q].alone = FALSE
        BY <1>2, <2>2, <3>2
      <4> QED
        BY <1>2, <1>5, <4>1, <4>2
    <3>3. CASE q \notin Counting(p)
      <4>1. o # p /\ request'[q].alone = request[q].alone
        BY <1>2, <1>4, <2>2, <3>1, <3>3
      <4>2. CommentsOf(o)' = CommentsOf(o)
        BY <1>3, <4>1
      <4>3. \A s \in Requests : Counts(request'[s]) /\ request'[s].post = o
                              => Counts(request[s]) /\ request[s].post = o
        BY <1>2, <4>1 DEF Counts
      <4>4. overlapped \subseteq overlapped'
        BY <1>2
      <4> QED
        BY <1>5, <3>1, <4>1, <4>2, <4>3, <4>4 DEF CountedAlone, At
    <3> QED
      BY <3>2, <3>3
  <2> QED
    BY <2>1, <2>2
<1>7. ASSUME NEW o \in Posts, Exists(o)', o \notin overlapped',
             \A q \in Requests : Counts(request'[q]) => request'[q].post # o
      PROVE  count'[o] = Cardinality(CommentsOf(o)')
  <2>1. o # p /\ CommentsOf(o)' = CommentsOf(o)
    BY <1>2, <1>3, <1>7 DEF Counts
  <2>2. \A q \in Requests : Counts(request[q]) => request[q].post # o
    BY <1>1, <1>2, <1>7, <2>1 DEF Counts
  <2> QED
    BY <1>1, <1>2, <1>5, <1>7, <2>1, <2>2 DEF CountRight
<1> QED
  BY <1>6, <1>7 DEF CountedAlone, CountRight, At

(* Neither do steps that leave comments, counts and counting requests alone
   disturb this; a new post has no comments and no count. *)
LEMMA QuietKeepsCounts ==
  ASSUME Types, Rooted, CountedAlone, CountRight, [Next]_vars,
         UNCHANGED <<comments, count, overlapped>>,
         \A q \in Requests : Counts(request[q]) \/ Counts(request'[q]) => request'[q] = request[q]
  PROVE  CountedAlone' /\ CountRight'
<1>1. ASSUME NEW o \in Posts, NEW q \in Requests, Counts(request'[q]), request'[q].post = o
      PROVE  /\ request'[q].alone =>
                  /\ \A s \in Requests : Counts(request'[s]) /\ request'[s].post = o => s = q
                  /\ request'[q].op = "storing" => request'[q].item = Cardinality(CommentsOf(o)')
             /\ ~request'[q].alone /\ Exists(o)' => o \in overlapped'
  <2>1. request'[q] = request[q] /\ Counts(request[q]) /\ request[q].post = o
    BY <1>1
  <2>2. CommentsOf(o)' = CommentsOf(o)
    BY DEF CommentsOf
  <2>3. Exists(o)' => Exists(o)
    BY <2>1, ExistedBefore, ConstantsAssumption DEF Rooted
  <2> QED
    BY <2>1, <2>2, <2>3 DEF CountedAlone, At
<1>2. ASSUME NEW o \in Posts, Exists(o)', o \notin overlapped',
             \A q \in Requests : Counts(request'[q]) => request'[q].post # o
      PROVE  count'[o] = Cardinality(CommentsOf(o)')
  <2>1. CommentsOf(o)' = CommentsOf(o) /\ count'[o] = count[o]
    BY DEF CommentsOf
  <2>2. CASE Exists(o)
    BY <1>2, <2>1, <2>2 DEF CountRight
  <2>3. CASE ~Exists(o)
    <3>1. ~Born(o)
      BY <1>2, <2>3, ExistedBefore
    <3>2. count[o] = 0 /\ \A x \in comments : x.post # o
      BY <3>1 DEF Rooted
    <3> QED
      BY <2>1, <3>2, NoComments
  <2> QED
    BY <2>2, <2>3
<1> QED
  BY <1>1, <1>2 DEF CountedAlone, CountRight, At

(* Nor does a deletion of posts, which forgets who met there. *)
LEMMA DeletingKeepsCounts ==
  ASSUME Types, CountedAlone, CountRight, NEW gone, Delete(gone), UNCHANGED comments,
         \A q \in Requests : Counts(request[q]) \/ Counts(request'[q]) => request'[q] = request[q]
  PROVE  CountedAlone' /\ CountRight'
<1>1. \A o \in Posts : Exists(o)' => Exists(o) /\ o \notin gone /\ count'[o] = count[o]
  BY DEF Delete, Exists
<1>2. overlapped' = overlapped \ gone /\ \A o \in Posts : CommentsOf(o)' = CommentsOf(o)
  BY DEF Delete, CommentsOf
<1>3. ASSUME NEW o \in Posts, NEW q \in Requests, Counts(request'[q]), request'[q].post = o
      PROVE  /\ request'[q].alone =>
                  /\ \A s \in Requests : Counts(request'[s]) /\ request'[s].post = o => s = q
                  /\ request'[q].op = "storing" => request'[q].item = Cardinality(CommentsOf(o)')
             /\ ~request'[q].alone /\ Exists(o)' => o \in overlapped'
  <2>1. request'[q] = request[q] /\ Counts(request[q]) /\ request[q].post = o
    BY <1>3
  <2> QED
    BY <1>1, <1>2, <2>1 DEF CountedAlone, At
<1>4. ASSUME NEW o \in Posts, Exists(o)', o \notin overlapped',
             \A q \in Requests : Counts(request'[q]) => request'[q].post # o
      PROVE  count'[o] = Cardinality(CommentsOf(o)')
  BY <1>1, <1>2, <1>4 DEF CountRight
<1> QED
  BY <1>3, <1>4 DEF CountedAlone, CountRight, At

(* Counting and storing: the request that is alone stores what it counted. *)
LEMMA StoringKeepsCounts ==
  ASSUME Types, Rooted, CountedAlone, CountRight, NEW r \in Requests,
         CountComments(r) \/ StoreCount(r) \/ (Fail(r) /\ Counts(request[r]))
  PROVE  CountedAlone' /\ CountRight'
<1>0. PICK p \in Posts : p = request[r].post
  BY PostOf DEF Types, CountComments, StoreCount, Fail, At
<1>1. /\ Counts(request[r]) /\ Continue(r) /\ ~CreateComment(r) /\ ~DeleteComment(r)
  BY DEF CountComments, StoreCount, Fail, At, Continue, Counts, CreateComment, DeleteComment
<1>2. /\ \A q \in Requests \ {r} : request'[q] = request[q]
      /\ UNCHANGED <<comments, status>>
  BY <1>1, OthersStay DEF CountComments, StoreCount, Fail, rows
<1>3. \A o : (Exists(o)' <=> Exists(o)) /\ CommentsOf(o)' = CommentsOf(o)
  BY <1>2 DEF Exists, CommentsOf
<1>4. CASE CountComments(r)
  <2>1. /\ request'[r].op = "storing" /\ request'[r].post = p
        /\ request'[r].item = Cardinality(CommentsOf(p))
        /\ request'[r].alone = request[r].alone
        /\ UNCHANGED <<count, overlapped>>
    <3>1. PICK i \in Nat : i = Cardinality(CommentsOf(p))
      BY CountsAreNumbers DEF Types
    <3>2. Becomes(r, [request[r] EXCEPT !.op = "storing", !.item = i]) /\ ~At(r, "idle") /\ Asks
      BY <1>0, <1>4, <3>1 DEF CountComments, At, Types
    <3>3. UNCHANGED <<count, overlapped>>
      BY <1>4 DEF CountComments, rows, history
    <3> QED
      BY <1>0, <3>1, <3>2, <3>3, NumberEffect
  <2>2. ASSUME NEW o \in Posts, NEW q \in Requests, Counts(request'[q]), request'[q].post = o
        PROVE  /\ request'[q].alone =>
                  /\ \A s \in Requests : Counts(request'[s]) /\ request'[s].post = o => s = q
                  /\ request'[q].op = "storing" => request'[q].item = Cardinality(CommentsOf(o)')
               /\ ~request'[q].alone /\ Exists(o)' => o \in overlapped'
    <3>1. /\ Counts(request[q]) /\ request[q].post = o /\ request'[q].alone = request[q].alone
          /\ \A s \in Requests : Counts(request'[s]) /\ request'[s].post = o
                               => Counts(request[s]) /\ request[s].post = o
      BY <1>0, <1>1, <1>2, <2>1, <2>2
    <3>2. CASE q = r
      BY <1>0, <1>3, <2>1, <2>2, <3>1, <3>2 DEF CountedAlone
    <3>3. CASE q # r
      BY <1>2, <1>3, <2>1, <3>1, <3>3 DEF CountedAlone, At
    <3> QED
      BY <3>2, <3>3
  <2>3. ASSUME NEW o \in Posts, Exists(o)', o \notin overlapped',
               \A q \in Requests : Counts(request'[q]) => request'[q].post # o
        PROVE  count'[o] = Cardinality(CommentsOf(o)')
    <3>1. \A q \in Requests : Counts(request[q]) => request[q].post # o
      BY <1>0, <1>2, <2>1, <2>3 DEF Counts
    <3> QED
      BY <1>3, <2>1, <2>3, <3>1 DEF CountRight
  <2> QED
    BY <2>2, <2>3 DEF CountedAlone, CountRight, At
<1>5. CASE StoreCount(r) \/ Fail(r)
  <2>1. request'[r] = Idle /\ ~Counts(request'[r])
    BY <1>5, FinishEffect, IdleCall DEF StoreCount, Fail, Types, Counts
  <2>2. /\ \A o \in Posts \ {p} : count'[o] = count[o] /\ (o \in overlapped' <=> o \in overlapped)
        /\ \/ p \notin overlapped' /\ request[r].alone
           \/ p \in overlapped' \/ ~Exists(p)
    BY <1>0, <1>1, <1>5 DEF StoreCount, Fail, Types, RowTypes, CountedAlone, Counts, rows
  <2>3. ASSUME NEW o \in Posts, NEW q \in Requests, Counts(request'[q]), request'[q].post = o
        PROVE  /\ request'[q].alone =>
                  /\ \A s \in Requests : Counts(request'[s]) /\ request'[s].post = o => s = q
                  /\ request'[q].op = "storing" => request'[q].item = Cardinality(CommentsOf(o)')
               /\ ~request'[q].alone /\ Exists(o)' => o \in overlapped'
    <3>1. /\ q # r /\ request'[q] = request[q]
          /\ \A s \in Requests : Counts(request'[s]) /\ request'[s].post = o
                               => Counts(request[s]) /\ request[s].post = o
      BY <1>2, <2>1, <2>3
    <3>2. ~request[q].alone /\ Exists(o) => o \in overlapped'
      <4>1. ~request[q].alone /\ Exists(o) => o \in overlapped
        BY <2>3, <3>1 DEF CountedAlone
      <4>2. o = p => ~request[r].alone
        BY <1>0, <1>1, <2>3, <3>1 DEF CountedAlone
      <4> QED
        BY <2>2, <4>1, <4>2
    <3> QED
      BY <1>3, <2>3, <3>1, <3>2 DEF CountedAlone, At
  <2>4. ASSUME NEW o \in Posts, Exists(o)', o \notin overlapped',
               \A q \in Requests : Counts(request'[q]) => request'[q].post # o
        PROVE  count'[o] = Cardinality(CommentsOf(o)')
    <3>1. \A q \in Requests : Counts(request[q]) /\ request[q].post = o => q = r
      BY <1>2, <2>4
    <3>2. CASE o # p
      <4>1. \A q \in Requests : Counts(request[q]) => request[q].post # o
        BY <1>0, <3>1, <3>2
      <4> QED
        BY <1>3, <2>2, <2>4, <3>2, <4>1 DEF CountRight
    <3>3. CASE o = p
      <4>1. request[r].alone /\ Exists(p)
        BY <1>3, <2>2, <2>4, <3>3
      <4>2. StoreCount(r)
        BY <1>0, <1>1, <1>5, <2>4, <3>3, <4>1 DEF Fail, Counts
      <4>3. count' = [count EXCEPT ![p] = request[r].item]
        BY <1>0, <4>1, <4>2 DEF StoreCount
      <4>4. count'[p] = request[r].item
        BY <4>3 DEF Types, RowTypes
      <4>5. request[r].item = Cardinality(CommentsOf(p))
        BY <1>0, <1>1, <4>1, <4>2 DEF CountedAlone, StoreCount
      <4> QED
        BY <1>3, <3>3, <4>4, <4>5
    <3> QED
      BY <3>2, <3>3
  <2> QED
    BY <2>3, <2>4 DEF CountedAlone, CountRight, At
<1> QED
  BY <1>4, <1>5

(* Every step keeps CountedAlone and CountRight. *)
LEMMA CountsKept == Types /\ Rooted /\ Named /\ CountedAlone /\ CountRight /\ [Next]_vars
                    => CountedAlone' /\ CountRight'
<1> SUFFICES ASSUME Types, Rooted, Named, CountedAlone, CountRight, [Next]_vars
             PROVE  CountedAlone' /\ CountRight'
  OBVIOUS
<1>1. ASSUME NEW r \in Requests, Start(r) PROVE CountedAlone' /\ CountRight'
  <2>1. ~Counts(request[r]) /\ ~CreateComment(r) /\ ~DeleteComment(r)
    BY <1>1 DEF Start, Counts, CreateComplaint, FindToEdit, FindToDelete, FindToDecide,
       CreateNotice, FindNotice, FindPost, FindComment, At, CreateComment, DeleteComment
  <2>2. ~Counts(request'[r]) /\ UNCHANGED <<comments, count, overlapped>>
    BY <1>1, StartOutcome DEF Counts, CreateComplaint, CreateNotice, rows, history
  <2>3. \A q \in Requests \ {r} : request'[q] = request[q]
    BY <1>1, <2>1, OthersStay
  <2> QED
    BY <2>1, <2>2, <2>3, QuietKeepsCounts
<1>2. ASSUME NEW r \in Requests, Continue(r) PROVE CountedAlone' /\ CountRight'
  <2>1. CASE CreateComment(r) \/ DeleteComment(r)
    BY <2>1, WritingKeepsCounts
  <2>2. CASE CountComments(r) \/ StoreCount(r) \/ (Fail(r) /\ Counts(request[r]))
    BY <2>2, StoringKeepsCounts
  <2>3. ASSUME ~Counts(request[r]), ~CreateComment(r), ~DeleteComment(r), ~CountComments(r)
        PROVE  \A q \in Requests : Counts(request[q]) \/ Counts(request'[q]) => request'[q] = request[q]
    <3>1. ~Counts(request'[r])
      BY <1>2, <2>3, ContinueOutcome, IdleCall DEF Counts
    <3> QED
      BY <1>2, <2>3, <3>1, OthersStay
  <2>4. CASE DeletePost(r)
    <3>1. ~Counts(request[r]) /\ ~CreateComment(r) /\ ~DeleteComment(r) /\ ~CountComments(r)
      BY <2>4 DEF DeletePost, At, Counts, CreateComment, DeleteComment, CountComments
    <3> QED
      BY <2>3, <2>4, <3>1, DeletingKeepsCounts DEF DeletePost
  <2>5. CASE \/ NotifyCreated(r) \/ UpdateComplaintStatus(r) \/ NotifyResolved(r)
             \/ NotifyPosted(r) \/ UpdatePost(r) \/ PlanEvent(r) \/ FindEvent(r)
             \/ UpdateEvent(r) \/ CreateEvent(r) \/ (Fail(r) /\ ~Counts(request[r]))
    <3>1. ~Counts(request[r]) /\ UNCHANGED <<comments, count, overlapped>>
      BY <2>5 DEF NotifyCreated, UpdateComplaintStatus, NotifyResolved, NotifyPosted,
         UpdatePost, PlanEvent, FindEvent, UpdateEvent, CreateEvent, Fail, At, Counts,
         rows, history
    <3>2. (~CreateComment(r) /\ ~DeleteComment(r) /\ ~CountComments(r)) \/ Fail(r)
      BY <2>5 DEF NotifyCreated, UpdateComplaintStatus, NotifyResolved, NotifyPosted,
         UpdatePost, PlanEvent, FindEvent, UpdateEvent, CreateEvent, At, CreateComment,
         DeleteComment, CountComments
    <3>3. \A q \in Requests : Counts(request[q]) \/ Counts(request'[q]) => request'[q] = request[q]
      <4>1. CASE Fail(r)
        BY <3>1, <4>1, FinishEffect, IdleCall DEF Fail, Types, Counts
      <4> QED
        BY <2>3, <3>1, <3>2, <4>1
    <3> QED
      BY <3>1, <3>3, QuietKeepsCounts
  <2> QED
    BY <1>2, <2>1, <2>2, <2>4, <2>5 DEF Continue
<1>3. CASE DeleteApartment
  BY <1>3, DeletingKeepsCounts DEF DeleteApartment
<1>4. CASE (\E e \in events : DeleteEvent(e)) \/ UNCHANGED vars
  BY <1>4, QuietKeepsCounts DEF DeleteEvent, history, vars
<1> QED
  BY <1>1, <1>2, <1>3, <1>4 DEF Next

(* A comment request that neither fails nor meets another one leaves the right
   count, whatever overlapping ones left there (CommentsCounted). *)
THEOREM CountsRepaired == Spec => []CommentsCounted
<1>1. Init => Named /\ CountedAlone /\ CountRight
  BY IdleCall DEF Init, Named, CountedAlone, CountRight, Counts, At, Exists
<1> QED
  BY <1>1, TypesFirst, TypesKept, RootedFirst, RootedKept, NamedKept, CountsKept,
     CountRightSuffices, PTL DEF Spec
=============================================================================
