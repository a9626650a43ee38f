----------------------------- MODULE BoardPosts -----------------------------
(***************************************************************************)
(* Complaints, notices, their comments and calendar events, on the boards  *)
(* of one apartment (complaint.service.ts, notice.service.ts,              *)
(* comment.service.ts, event.service.ts and their repositories).           *)
(*                                                                         *)
(* None of these handlers uses a transaction: every awaited call stands    *)
(* alone, and what a handler read may have changed before it writes.       *)
(* Rows are written by id.  Ids of posts, comments and events are never    *)
(* used again.  Titles, contents and view counts are left out; an edit is  *)
(* reduced to whether it meets its row.  createAndDispatchNotification,    *)
(* which NotificationOutbox models, is the one step that puts the          *)
(* notification with its dedupe key there, if it is not there already.     *)
(***************************************************************************)
EXTENDS Naturals, FiniteSets

CONSTANTS
  Complaints, Notices,  \* posts that may be made
  NoPost,
  Requests,             \* requests the server works on at one time
  MaxComments,          \* bound: comments in all
  MaxEvents             \* bound: events in all

Posts == Complaints \cup Notices

ASSUME ConstantsAssumption ==
  /\ Complaints \cap Notices = {} /\ NoPost \notin Posts
  /\ MaxComments \in Nat /\ MaxEvents \in Nat

VARIABLES
  board,       \* the boards of the apartment exist
  status,      \* status[p]: "NONE" before the post exists, "DELETED" after
  comments,    \* rows of Comment; they refer to their post by value only
  written,     \* comments written so far, also the last id
  count,       \* count[p]: commentsCount of the post
  events,      \* rows of Event
  planned,     \* events made so far, also the last id
  notified,    \* complaints whose author has the notification COMPLAINT_RESOLVED
  request,     \* request[r]: how far r has come and what it read
  overlapped,  \* history: posts two comment requests, or a failing one, worked on last
  doubled,     \* history: posts two requests were making an event for
  untold       \* history: resolved complaints whose notification failed

rows == <<board, status, comments, written, count, events, planned, notified>>
history == <<overlapped, doubled, untold>>
vars == <<board, status, comments, written, count, events, planned, notified,
          request, overlapped, doubled, untold>>

ComplaintStatus == {"PENDING", "IN_PROGRESS", "RESOLVED"}
Exists(p) == status[p] \notin {"NONE", "DELETED"}
Comment == [id : 1 .. MaxComments, post : Posts]
Event == [id : 1 .. MaxEvents, post : Posts]
CommentsOf(p) == {x \in comments : x.post = p}
EventsOf(p) == {e \in events : e.post = p}

Ops == {"idle", "reporting", "editing", "deleting", "deciding", "telling",
        "commenting", "removing", "counting", "storing", "spreading", "planning",
        "looking", "adding", "moving"}
Call == [op : Ops, post : Posts \cup {NoPost},
         old : ComplaintStatus, new : ComplaintStatus,  \* "deciding"
         item : Nat,      \* comment to remove, count to store, event found
         dated : BOOLEAN, \* the notice has a date
         alone : BOOLEAN] \* no other comment request met this one
CallTo(op, p) == [op |-> op, post |-> p, old |-> "PENDING", new |-> "PENDING",
                  item |-> 0, dated |-> FALSE, alone |-> TRUE]
Idle == CallTo("idle", NoPost)

At(r, op) == request[r].op = op
Becomes(r, call) == request' = [request EXCEPT ![r] = call]
Goes(r, op) == Becomes(r, [request[r] EXCEPT !.op = op])
Finish(r) == Becomes(r, Idle)

Init ==
  /\ board = TRUE
  /\ status = [p \in Posts |-> "NONE"]
  /\ comments = {} /\ written = 0
  /\ count = [p \in Posts |-> 0]
  /\ events = {} /\ planned = 0
  /\ notified = {}
  /\ request = [r \in Requests |-> Idle]
  /\ overlapped = {} /\ doubled = {} /\ untold = {}

----------------------------------------------------------------------------
(* Complaints.                                                              *)

\* createComplaint stores the complaint, then notifies the manager, whose
\* notifications no property is about.
CreateComplaint(r, c) ==
  /\ At(r, "idle") /\ board /\ status[c] = "NONE"
  /\ status' = [status EXCEPT ![c] = "PENDING"]
  /\ Becomes(r, CallTo("reporting", c))
  /\ UNCHANGED <<board, comments, written, count, events, planned, notified, history>>

NotifyCreated(r) ==
  /\ At(r, "reporting")
  /\ Finish(r)
  /\ UNCHANGED <<rows, history>>

\* updateComplaint and deleteComplaint of the author look whether it is
\* pending; deleteComplaint of a manager does not.
FindToEdit(r, c) ==
  /\ At(r, "idle") /\ status[c] = "PENDING"
  /\ Becomes(r, CallTo("editing", c))
  /\ UNCHANGED <<rows, history>>

FindToDelete(r, c, isAdmin) ==
  /\ At(r, "idle") /\ Exists(c)
  /\ isAdmin \/ status[c] = "PENDING"
  /\ Becomes(r, CallTo("deleting", c))
  /\ UNCHANGED <<rows, history>>

\* updateComplaintStatus remembers the status it finds ...
FindToDecide(r, c, new) ==
  /\ At(r, "idle") /\ Exists(c)
  /\ Becomes(r, [CallTo("deciding", c) EXCEPT !.old = status[c], !.new = new])
  /\ UNCHANGED <<rows, history>>

\* Mutant: only a complaint that was in progress is notified.
ResolvesInOrder(call) == call.old = "IN_PROGRESS" /\ call.new = "RESOLVED"
Resolves(call) == call.old # "RESOLVED" /\ call.new = "RESOLVED"

\* ... writes the new one, whatever the row has by now, and tells the author
\* of a complaint it resolved.
UpdateComplaintStatus(r) ==
  /\ At(r, "deciding") /\ Exists(request[r].post)
  /\ status' = [status EXCEPT ![request[r].post] = request[r].new]
  /\ IF Resolves(request[r]) THEN Goes(r, "telling") ELSE Finish(r)
  /\ UNCHANGED <<board, comments, written, count, events, planned, notified, history>>

NotifyResolved(r) ==
  /\ At(r, "telling")
  /\ notified' = notified \cup {request[r].post}
  /\ Finish(r)
  /\ UNCHANGED <<board, status, comments, written, count, events, planned, history>>

----------------------------------------------------------------------------
(* Notices.  Edits and deletions of complaints and notices write by id, and *)
(* fail if the row is gone.                                                 *)

CreateNotice(r, n, dated) ==
  /\ At(r, "idle") /\ board /\ status[n] = "NONE"
  /\ status' = [status EXCEPT ![n] = "POSTED"]
  /\ Becomes(r, [CallTo("spreading", n) EXCEPT !.dated = dated])
  /\ UNCHANGED <<board, comments, written, count, events, planned, notified, history>>

\* Notifications and event each have a catch block of their own: one failing
\* does not keep the other from being tried.
NotifyPosted(r) ==
  /\ At(r, "spreading")
  /\ IF request[r].dated THEN Goes(r, "planning") ELSE Finish(r)
  /\ UNCHANGED <<rows, history>>

FindNotice(r, n, op) ==
  /\ At(r, "idle") /\ Exists(n)
  /\ Becomes(r, CallTo(op, n))
  /\ UNCHANGED <<rows, history>>

UpdatePost(r) ==
  /\ At(r, "editing") /\ Exists(request[r].post)
  /\ Finish(r)
  /\ UNCHANGED <<rows, history>>

\* The rows of the posts in gone go, with their counts.
Delete(gone) ==
  /\ status' = [p \in Posts |-> IF p \in gone THEN "DELETED" ELSE status[p]]
  /\ count' = [p \in Posts |-> IF p \in gone THEN 0 ELSE count[p]]
  /\ overlapped' = overlapped \ gone

\* Comments and events of the post stay.
DeletePost(r) ==
  /\ At(r, "deleting") /\ Exists(request[r].post)
  /\ Delete({request[r].post})
  /\ Finish(r)
  /\ UNCHANGED <<board, comments, written, events, planned, notified, doubled, untold>>

----------------------------------------------------------------------------
(* Comments.                                                                *)

\* createComment looks whether the post exists, deleteComment whether the
\* comment does.
FindPost(r, p) ==
  /\ At(r, "idle") /\ Exists(p)
  /\ Becomes(r, CallTo("commenting", p))
  /\ UNCHANGED <<rows, history>>

FindComment(r, x) ==
  /\ At(r, "idle") /\ x \in comments
  /\ Becomes(r, [CallTo("removing", x.post) EXCEPT !.item = x.id])
  /\ UNCHANGED <<rows, history>>

\* Requests that have written a comment of p, or deleted one, and have not
\* stored the count yet.
Counting(p) == {q \in Requests : request[q].op \in {"counting", "storing"} /\ request[q].post = p}

\* r has written and goes on to count; those that are counting meet it.
StartCount(r) ==
  LET p == request[r].post
      met == Counting(p) # {}
  IN  /\ request' = [q \in Requests |->
                       IF q = r THEN [request[r] EXCEPT !.op = "counting", !.alone = ~met]
                       ELSE IF q \in Counting(p) THEN [request[q] EXCEPT !.alone = FALSE]
                       ELSE request[q]]
      /\ overlapped' = IF met /\ Exists(p) THEN overlapped \cup {p} ELSE overlapped

CreateComment(r) ==
  /\ At(r, "commenting") /\ written < MaxComments
  /\ comments' = comments \cup {[id |-> written + 1, post |-> request[r].post]}
  /\ written' = written + 1
  /\ StartCount(r)
  /\ UNCHANGED <<board, status, count, events, planned, notified, doubled, untold>>

\* Mutant: without updateCommentsCount.
DeleteCommentOnly(r) ==
  /\ At(r, "removing")
  /\ \E x \in comments : x.id = request[r].item /\ comments' = comments \ {x}
  /\ Finish(r)
  /\ UNCHANGED <<board, status, written, count, events, planned, notified, history>>

DeleteComment(r) ==
  /\ At(r, "removing")
  /\ \E x \in comments : x.id = request[r].item /\ comments' = comments \ {x}
  /\ StartCount(r)
  /\ UNCHANGED <<board, status, written, count, events, planned, notified, doubled, untold>>

\* updateCommentsCount: count, then write the number, to no row if it is gone.
CountComments(r) ==
  /\ At(r, "counting")
  /\ Becomes(r, [request[r] EXCEPT !.op = "storing",
                                   !.item = Cardinality(CommentsOf(request[r].post))])
  /\ UNCHANGED <<rows, history>>

StoreCount(r) ==
  /\ At(r, "storing")
  /\ LET p == request[r].post IN
       /\ count' = IF Exists(p) THEN [count EXCEPT ![p] = request[r].item] ELSE count
       /\ overlapped' = IF request[r].alone THEN overlapped \ {p} ELSE overlapped
  /\ Finish(r)
  /\ UNCHANGED <<board, status, comments, written, events, planned, notified, doubled, untold>>

----------------------------------------------------------------------------
(* Events.                                                                  *)

\* Requests that will add an event of p without looking again.
Adding(p) == {q \in Requests : /\ request[q].post = p
                               /\ \/ request[q].op \in {"adding", "planning"}
                                  \/ request[q].op = "spreading" /\ request[q].dated}

AddEvent(r) ==
  LET p == request[r].post IN
  /\ planned < MaxEvents
  /\ events' = events \cup {[id |-> planned + 1, post |-> p]}
  /\ planned' = planned + 1
  /\ doubled' = IF Adding(p) # {r} THEN doubled \cup {p} ELSE doubled

\* The event of a dated notice: made if its board is there, without a look at
\* the notice or its events.
PlanEvent(r) ==
  /\ At(r, "planning")
  /\ \/ board /\ AddEvent(r)
     \/ UNCHANGED <<events, planned, doubled>>
  /\ Finish(r)
  /\ UNCHANGED <<board, status, comments, written, count, notified, overlapped, untold>>

\* Mutant: the events are searched with the id of the board.
FindNoEvent(r) ==
  /\ At(r, "looking")
  /\ Goes(r, "adding")
  /\ UNCHANGED <<rows, history>>

\* upsertEvent, after FindNotice, looks for an event of the notice ...
FindEvent(r) ==
  /\ At(r, "looking")
  /\ \/ \E e \in EventsOf(request[r].post) :
          Becomes(r, [request[r] EXCEPT !.op = "moving", !.item = e.id])
     \/ EventsOf(request[r].post) = {} /\ Goes(r, "adding")
  /\ UNCHANGED <<rows, history>>

\* ... and updates that one, which must be there still, or makes one.
UpdateEvent(r) ==
  /\ At(r, "moving") /\ \E e \in events : e.id = request[r].item
  /\ Finish(r)
  /\ UNCHANGED <<rows, history>>

CreateEvent(r) ==
  /\ At(r, "adding") /\ board
  /\ AddEvent(r)
  /\ Finish(r)
  /\ UNCHANGED <<board, status, comments, written, count, notified, overlapped, untold>>

DeleteEvent(e) ==
  /\ e \in events
  /\ events' = events \ {e}
  /\ UNCHANGED <<board, status, comments, written, count, planned, notified, request, history>>

----------------------------------------------------------------------------
\* Mutant: the events do not go by cascade.
DeleteApartmentKeepingEvents ==
  /\ board /\ board' = FALSE
  /\ Delete({p \in Posts : Exists(p)})
  /\ UNCHANGED <<events, comments, written, planned, notified, request, doubled, untold>>

\* The manager is deleted, and with him the apartment, its boards with their
\* posts, and its events; comments stay.
DeleteApartment ==
  /\ board /\ board' = FALSE
  /\ Delete({p \in Posts : Exists(p)})
  /\ events' = {}
  /\ UNCHANGED <<comments, written, planned, notified, request, doubled, untold>>

\* A call fails, a row is gone, or the process stops: what was written stays.
\* The error of a count is caught, which comes to the same.
Fail(r) ==
  /\ ~At(r, "idle")
  /\ Finish(r)
  /\ overlapped' = IF request[r].op \in {"counting", "storing"}
                      /\ Exists(request[r].post)
                   THEN overlapped \cup {request[r].post} ELSE overlapped
  /\ untold' = IF At(r, "telling") THEN untold \cup {request[r].post} ELSE untold
  /\ UNCHANGED <<rows, doubled>>

----------------------------------------------------------------------------
Start(r) ==
  \/ \E c \in Complaints :
       \/ CreateComplaint(r, c) \/ FindToEdit(r, c)
       \/ \E isAdmin \in BOOLEAN : FindToDelete(r, c, isAdmin)
       \/ \E new \in ComplaintStatus : FindToDecide(r, c, new)
  \/ \E n \in Notices :
       \/ \E dated \in BOOLEAN : CreateNotice(r, n, dated)
       \/ \E op \in {"editing", "deleting", "looking"} : FindNotice(r, n, op)
  \/ \E p \in Posts : FindPost(r, p)
  \/ \E x \in comments : FindComment(r, x)

Continue(r) ==
  \/ NotifyCreated(r) \/ UpdateComplaintStatus(r) \/ NotifyResolved(r)
  \/ NotifyPosted(r) \/ UpdatePost(r) \/ DeletePost(r)
  \/ CreateComment(r) \/ DeleteComment(r) \/ CountComments(r) \/ StoreCount(r)
  \/ PlanEvent(r) \/ FindEvent(r) \/ UpdateEvent(r) \/ CreateEvent(r)
  \/ Fail(r)

Next ==
  \/ \E r \in Requests : Start(r) \/ Continue(r)
  \/ \E e \in events : DeleteEvent(e)
  \/ DeleteApartment

Spec == Init /\ [][Next]_vars

----------------------------------------------------------------------------
(* Properties.                                                              *)

\* Types; without its boards the apartment has no post and no event.
TypeOK ==
  /\ board \in BOOLEAN
  /\ \A c \in Complaints : status[c] \in ComplaintStatus \cup {"NONE", "DELETED"}
  /\ \A n \in Notices : status[n] \in {"NONE", "POSTED", "DELETED"}
  /\ status \in [Posts -> ComplaintStatus \cup {"NONE", "POSTED", "DELETED"}]
  /\ comments \subseteq Comment /\ written \in 0 .. MaxComments
  /\ count \in [Posts -> Nat]
  /\ events \subseteq Event /\ planned \in 0 .. MaxEvents
  /\ notified \subseteq Posts
  /\ request \in [Requests -> Call]
  /\ \A r \in Requests : request[r].post = NoPost => request[r] = Idle
  /\ overlapped \subseteq Posts /\ doubled \subseteq Posts /\ untold \subseteq Posts
  /\ ~board => events = {} /\ \A p \in Posts : ~Exists(p)

\* A comment request that neither fails nor meets another one leaves the right
\* count on the post, whatever overlapping ones left there before: counting
\* again, instead of adding one, repairs it (complaint.repository.ts:141-148,
\* notice.repository.ts:115-122).
CommentsCounted ==
  \A p \in Posts : Exists(p) /\ Counting(p) = {} /\ p \notin overlapped =>
    count[p] = Cardinality(CommentsOf(p))

\* The author of a resolved complaint is notified, whichever of several
\* managers resolved it and whatever they had read, unless the request that
\* resolved it failed before it got there (complaint.service.ts:149-169).
ResolvedIsNotified ==
  \A c \in Complaints : status[c] = "RESOLVED" =>
    \/ c \in notified \cup untold
    \/ \E r \in Requests : At(r, "telling") /\ request[r].post = c

\* A notice has one event, unless two requests were about to make one at the
\* same time (event.service.ts:72-87, notice.service.ts:99-121).
OneEventPerPost ==
  \A e, f \in events : e.post = f.post => e = f \/ e.post \in doubled
=============================================================================
