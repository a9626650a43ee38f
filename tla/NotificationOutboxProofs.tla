---------------------- MODULE NotificationOutboxProofs ----------------------
(* Safety of the notification outbox for all users, keys, processes, limits. *)
EXTENDS NotificationOutbox, FiniteSetTheorems, TLAPS

(* A key belongs to a user and is not the marker for "no row". *)
LEMMA KeyTypes ==
    ASSUME NEW k \in Keys
    PROVE  UserOf(k) \in Users /\ k # NoKey
BY ConstantsAssumption DEF Keys, UserOf

(* Users and dedupe keys being finite, so are the keys. *)
LEMMA KeysFinite == IsFiniteSet(Keys)
BY ConstantsAssumption, FS_Product DEF Keys

(* The row createNotifiacationRecord inserts fits the table. *)
LEMMA NewRowType == NewRow \in Row
<1>1. {k \in Keys : Exists(k)} \subseteq Keys
  OBVIOUS
<1>2. Cardinality({k \in Keys : Exists(k)}) \in Nat
  BY <1>1, KeysFinite, FS_Subset, FS_CardinalityType
<1> QED
  BY <1>2 DEF NewRow, Row, OutboxStatus

(* Each column of a row can be written alone: its status, ... *)
LEMMA RowStatus == ASSUME NEW r \in Row, NEW s \in OutboxStatus PROVE [r EXCEPT !.status = s] \in Row
BY DEF Row, OutboxStatus
(* ... its retry count, ... *)
LEMMA RowRetry == ASSUME NEW r \in Row, NEW n \in Nat PROVE [r EXCEPT !.retryCount = n] \in Row
BY DEF Row
(* ... its reference to the notification, ... *)
LEMMA RowLinked == ASSUME NEW r \in Row, NEW b \in BOOLEAN PROVE [r EXCEPT !.linked = b] \in Row
BY DEF Row
(* ... the flag for availableAt, ... *)
LEMMA RowDue == ASSUME NEW r \in Row, NEW b \in BOOLEAN PROVE [r EXCEPT !.due = b] \in Row
BY DEF Row
(* ... and the flag for updatedAt. *)
LEMMA RowStale == ASSUME NEW r \in Row, NEW b \in BOOLEAN PROVE [r EXCEPT !.stale = b] \in Row
BY DEF Row

(* The writes of the workers are compositions of these. *)
LEMMA ClaimedRow == ASSUME NEW r \in Row
                    PROVE  [r EXCEPT !.status = "PROCESSING", !.stale = FALSE] \in Row
BY RowStatus, RowStale DEF OutboxStatus
(* markNotificationOutboxProcessed writes a row. *)
LEMMA ProcessedRow == ASSUME NEW r \in Row PROVE Processed(r) \in Row
BY RowStatus, RowStale DEF Processed, OutboxStatus
(* markNotificationOutboxFailed writes a row. *)
LEMMA FailedRow == ASSUME NEW r \in Row PROVE Failed(r) \in Row
<1>1. r.retryCount + 1 \in Nat
  BY DEF Row
<1> QED
  BY <1>1, RowStatus, RowRetry, RowDue, RowStale DEF Failed, OutboxStatus

USE DEF IdleWorker, IdleDispatcher

(* A worker inside an iteration has a row; whether it continues or drops the
   row, its record stays well formed. *)
RowIffBusy(f) == \A v \in Workers : f[v].row = NoKey <=> f[v].pc = "ready"

(* A process inside an iteration has a row at hand, and keeps to its program when it
   goes on with the row or drops it for the next. *)
LEMMA WorkerMoves ==
    ASSUME TypeOK, NEW w \in Workers, worker[w].pc # "ready"
    PROVE  /\ worker[w].row \in Keys
           /\ \A pc \in WorkerPc \ {"ready"} :
                 Goto(w, pc) \in [Workers -> WorkerState] /\ RowIffBusy(Goto(w, pc))
           /\ NextRow(w) \in [Workers -> WorkerState] /\ RowIffBusy(NextRow(w))
<1>1. worker[w].row \in Keys
  BY DEF TypeOK, WorkerState
<1>2. ASSUME NEW pc \in WorkerPc \ {"ready"}
      PROVE  Goto(w, pc) \in [Workers -> WorkerState] /\ RowIffBusy(Goto(w, pc))
  BY ConstantsAssumption DEF TypeOK, Goto, WorkerState, RowIffBusy
<1>3. NextRow(w) \in [Workers -> WorkerState] /\ RowIffBusy(NextRow(w))
  BY DEF TypeOK, NextRow, WorkerState, WorkerPc, RowIffBusy
<1> QED
  BY <1>1, <1>2, <1>3

(* An update of the row at hand keeps the types, whether or not it fails. *)
LEMMA OutboxUpdateType ==
    ASSUME TypeOK, NEW w \in Workers, worker[w].row \in Keys,
           NEW row \in Row, NEW after \in [Workers -> WorkerState],
           NEW onError \in [Workers -> WorkerState],
           RowIffBusy(after), RowIffBusy(onError),
           UpdateOutbox(w, row, after, onError)
    PROVE  TypeOK'
<1>1. [outbox EXCEPT ![worker[w].row] = row] \in [Keys -> Row]
  BY DEF TypeOK
<1>2. outbox' \in [Keys -> Row]
  BY <1>1 DEF TypeOK, UpdateOutbox
<1>3. worker' \in {after, onError}
  BY DEF UpdateOutbox
<1>4. faults' \in 0..MaxFaults
  BY ConstantsAssumption DEF TypeOK, UpdateOutbox, Fault
<1>5. UNCHANGED <<users, notification, dispatcher, direct, relays, overran>>
  BY DEF UpdateOutbox, history
<1>6. worker' \in [Workers -> WorkerState]
  BY <1>3
<1>7. \A v \in Workers : worker'[v].row = NoKey <=> worker'[v].pc = "ready"
  BY <1>3 DEF RowIffBusy
<1>8. (users \subseteq Users /\ direct \subseteq Keys)'
  BY <1>5 DEF TypeOK
<1>9. (relays \in [Keys -> 0..2] /\ notification \in [Keys -> DeliveryStatus \cup {"NONE"}])'
  BY <1>5 DEF TypeOK
<1>10. (dispatcher \in [Dispatchers -> DispatcherState])'
  BY <1>5 DEF TypeOK
<1>11. (\A d \in Dispatchers : dispatcher[d].key = NoKey <=> dispatcher[d].pc = "idle")'
  BY <1>5 DEF TypeOK
<1> QED
  BY <1>2, <1>6, <1>7, <1>8, <1>9, <1>10, <1>11, <1>4, <1>5 DEF TypeOK

(* Every table keeps to its columns' values and every process to its record,
   for all instances: the code's type-level contract with the database. *)
THEOREM TypeCorrect == Spec => []TypeOK
<1>1. Init => TypeOK
  BY ConstantsAssumption DEF Init, TypeOK, DispatcherState, WorkerState, WorkerPc, Row, NoRow
<1>2. TypeOK /\ [Next]_vars => TypeOK'
  <2> SUFFICES ASSUME TypeOK, [Next]_vars PROVE TypeOK'
    OBVIOUS
  <2> USE DEF Fault, store, history
  <2>1. ASSUME NEW d \in Dispatchers, NEW k \in Keys, FindNotificationByDedupeKey(d, k) PROVE TypeOK'
    BY <2>1, KeyTypes, ConstantsAssumption DEF TypeOK, FindNotificationByDedupeKey, DispatcherState
  <2>2. ASSUME NEW d \in Dispatchers, CreateNotificationRecord(d) PROVE TypeOK'
    BY <2>2, NewRowType, ConstantsAssumption DEF TypeOK, CreateNotificationRecord, InsertBoth, DispatcherState, DeliveryStatus
  <2>3. ASSUME NEW d \in Dispatchers, DispatchPublish(d) PROVE TypeOK'
    BY <2>3, ConstantsAssumption DEF TypeOK, DispatchPublish, DispatcherState
  <2>4. ASSUME NEW d \in Dispatchers, DispatcherCrash(d) PROVE TypeOK'
    BY <2>4, ConstantsAssumption DEF TypeOK, DispatcherCrash, DispatcherState
  <2>5. ASSUME NEW w \in Workers, ClaimPendingOutboxesForProcessing(w) PROVE TypeOK'
    <3>1. PICK S \in SUBSET Keys :
            /\ outbox' = [k \in Keys |->
                            IF k \in S THEN [outbox[k] EXCEPT !.status = "PROCESSING", !.stale = FALSE]
                                       ELSE outbox[k]]
            /\ worker' = [worker EXCEPT ![w] =
                   [pc |-> "ready", batch |-> S, row |-> NoKey,
                    linked |-> {k \in S : outbox[k].linked}]]
      BY <2>5, ConstantsAssumption DEF TypeOK, ClaimPendingOutboxesForProcessing
    <3>2. outbox' \in [Keys -> Row]
      BY <3>1, ClaimedRow DEF TypeOK
    <3>3. worker' \in [Workers -> WorkerState]
      <4>1. [pc |-> "ready", batch |-> S, row |-> NoKey,
             linked |-> {k \in S : outbox[k].linked}] \in WorkerState
        BY <3>1 DEF WorkerState, WorkerPc
      <4> QED
        BY <3>1, <4>1 DEF TypeOK
    <3>4. \A v \in Workers : worker'[v].row = NoKey <=> worker'[v].pc = "ready"
      BY <3>1, ConstantsAssumption DEF TypeOK, WorkerState
    <3> QED
      BY <2>5, <3>2, <3>3, <3>4, ConstantsAssumption DEF TypeOK, ClaimPendingOutboxesForProcessing
  <2>6. ASSUME NEW w \in Workers, TakeRow(w) PROVE TypeOK'
    BY <2>6, ConstantsAssumption DEF TypeOK, TakeRow, WorkerState, WorkerPc
  <2>7. ASSUME NEW w \in Workers, FindNotificationById(w) PROVE TypeOK'
    BY <2>7, ConstantsAssumption DEF TypeOK, FindNotificationById, Goto, WorkerState, WorkerPc
  <2>8. ASSUME NEW w \in Workers, PublishNotificationCreated(w) PROVE TypeOK'
    BY <2>8, ConstantsAssumption DEF TypeOK, PublishNotificationCreated, Counted, Goto, WorkerState, WorkerPc
  <2>9. ASSUME NEW w \in Workers, MarkNotificationOutboxProcessed(w) PROVE TypeOK'
    <3>1. worker[w].pc # "ready" /\ worker[w].row \in Keys
      BY <2>9, WorkerMoves DEF MarkNotificationOutboxProcessed
    <3>2. Processed(outbox[worker[w].row]) \in Row
      BY <3>1, ProcessedRow DEF TypeOK
    <3> QED
      BY <2>9, <3>1, <3>2, WorkerMoves, OutboxUpdateType DEF MarkNotificationOutboxProcessed, WorkerPc
  <2>10. ASSUME NEW w \in Workers, RejectRow(w) PROVE TypeOK'
    <3>1. worker[w].pc # "ready" /\ worker[w].row \in Keys
      BY <2>10, WorkerMoves DEF RejectRow
    <3>2. Failed(outbox[worker[w].row]) \in Row
      BY <3>1, FailedRow DEF TypeOK
    <3> QED
      BY <2>10, <3>1, <3>2, WorkerMoves, OutboxUpdateType DEF RejectRow, WorkerPc
  <2>11. ASSUME NEW w \in Workers, MarkNotificationOutboxFailed(w) PROVE TypeOK'
    <3>1. worker[w].pc # "ready" /\ worker[w].row \in Keys
      BY <2>11, WorkerMoves DEF MarkNotificationOutboxFailed
    <3>2. Failed(outbox[worker[w].row]) \in Row
      BY <3>1, FailedRow DEF TypeOK
    <3> QED
      BY <2>11, <3>1, <3>2, WorkerMoves, OutboxUpdateType DEF MarkNotificationOutboxFailed, WorkerPc
  <2>12. ASSUME NEW w \in Workers, MarkSent(w) PROVE TypeOK'
    BY <2>12, ConstantsAssumption DEF TypeOK, MarkSent, UpdateNotificationDeliveryStatus, Goto, NextRow, WorkerState, WorkerPc, DeliveryStatus
  <2>13. ASSUME NEW w \in Workers, MarkDeliveryFailed(w) PROVE TypeOK'
    BY <2>13, ConstantsAssumption DEF TypeOK, MarkDeliveryFailed, UpdateNotificationDeliveryStatus, NextRow, WorkerState, WorkerPc, DeliveryStatus
  <2>14. ASSUME NEW w \in Workers, WorkerCrash(w) PROVE TypeOK'
    BY <2>14, ConstantsAssumption DEF TypeOK, WorkerCrash, WorkerState, WorkerPc
  <2>15. ASSUME NEW k \in Keys, RetryBecomesDue(k) PROVE TypeOK'
    BY <2>15, ConstantsAssumption DEF TypeOK, RetryBecomesDue, Watch, Row
  <2>16. ASSUME NEW k \in Keys, ClaimBecomesStale(k) PROVE TypeOK'
    BY <2>16, ConstantsAssumption DEF TypeOK, ClaimBecomesStale, Watch, Row
  <2>17. ASSUME NEW u \in Users, DeleteUser(u) PROVE TypeOK'
    BY <2>17, ConstantsAssumption DEF TypeOK, DeleteUser, Row
  <2>18. CASE UNCHANGED vars
    BY <2>18, ConstantsAssumption DEF TypeOK, vars
  <2> QED
    BY <2>1, <2>2, <2>3, <2>4, <2>5, <2>6, <2>7, <2>8, <2>9, <2>10, <2>11, <2>12, <2>13,
       <2>14, <2>15, <2>16, <2>17, <2>18 DEF Next, WorkerStep, Clock
<1> QED
  BY <1>1, <1>2, PTL DEF Spec
-----------------------------------------------------------------------------
(* What the helpers of the worker do to its record and to the row at hand. *)
LEMMA GotoFields ==
    ASSUME TypeOK, NEW w \in Workers, NEW pc
    PROVE  /\ Goto(w, pc)[w].pc = pc
           /\ \A v \in Workers : /\ Goto(w, pc)[v].batch = worker[v].batch
                                 /\ Goto(w, pc)[v].row = worker[v].row
                                 /\ Goto(w, pc)[v].linked = worker[v].linked
                                 /\ v # w => Goto(w, pc)[v] = worker[v]
BY DEF TypeOK, Goto, WorkerState

(* What dropping the row at hand leaves of the process. *)
LEMMA NextRowFields ==
    ASSUME TypeOK, NEW w \in Workers
    PROVE  /\ NextRow(w)[w].pc = "ready"
           /\ NextRow(w)[w].row = NoKey
           /\ NextRow(w)[w].batch = worker[w].batch
           /\ NextRow(w)[w].linked = worker[w].linked \ {worker[w].row}
           /\ \A v \in Workers \ {w} : NextRow(w)[v] = worker[v]
BY DEF TypeOK, NextRow, WorkerState

(* What marking a row processed writes and what it keeps. *)
LEMMA ProcessedFields ==
    ASSUME NEW r \in Row
    PROVE  /\ Processed(r).status = "PROCESSED"
           /\ Processed(r).retryCount = r.retryCount
           /\ Processed(r).linked = r.linked
           /\ Processed(r).stale = FALSE
BY DEF Processed, Row

(* What marking a row failed writes and what it keeps. *)
LEMMA FailedFields ==
    ASSUME NEW r \in Row
    PROVE  /\ Failed(r).status = "FAILED"
           /\ Failed(r).retryCount = r.retryCount + 1
           /\ Failed(r).linked = r.linked
           /\ Failed(r).due = FALSE
BY DEF Failed, Row

(* The clock and the deletion of a user change one flag of a row each. *)
LEMMA OtherFields ==
    ASSUME NEW r \in Row
    PROVE  /\ [r EXCEPT !.due = TRUE].status = r.status
           /\ [r EXCEPT !.due = TRUE].retryCount = r.retryCount
           /\ [r EXCEPT !.due = TRUE].linked = r.linked
           /\ [r EXCEPT !.stale = TRUE].status = r.status
           /\ [r EXCEPT !.stale = TRUE].retryCount = r.retryCount
           /\ [r EXCEPT !.stale = TRUE].linked = r.linked
           /\ [r EXCEPT !.linked = FALSE].status = r.status
           /\ [r EXCEPT !.linked = FALSE].retryCount = r.retryCount
           /\ [r EXCEPT !.linked = FALSE].linked = FALSE
           /\ [r EXCEPT !.linked = FALSE].due = r.due
           /\ [r EXCEPT !.linked = FALSE].stale = r.stale
BY DEF Row

(* What a claim writes and what it keeps. *)
LEMMA ClaimedFields ==
    ASSUME NEW r \in Row
    PROVE  /\ [r EXCEPT !.status = "PROCESSING", !.stale = FALSE].status = "PROCESSING"
           /\ [r EXCEPT !.status = "PROCESSING", !.stale = FALSE].retryCount = r.retryCount
           /\ [r EXCEPT !.status = "PROCESSING", !.stale = FALSE].linked = r.linked
           /\ [r EXCEPT !.status = "PROCESSING", !.stale = FALSE].stale = FALSE
BY DEF Row

(* An update changes no row but the one at hand, and a failing one costs a fault. *)
LEMMA UpdateEffect ==
    ASSUME TypeOK, NEW w \in Workers, worker[w].pc # "ready",
           NEW row, NEW after, NEW onError, UpdateOutbox(w, row, after, onError)
    PROVE  /\ \A k \in Keys : \/ outbox'[k] = outbox[k]
                              \/ k = worker[w].row /\ outbox'[k] = row
           /\ \/ worker' = after /\ outbox'[worker[w].row] = row /\ faults' = faults
              \/ worker' = onError /\ faults' = faults + 1
           /\ UNCHANGED <<users, notification, dispatcher, direct, relays, overran>>
<1>1. worker[w].row \in Keys
  BY WorkerMoves
<1> QED
  BY <1>1 DEF UpdateOutbox, TypeOK, Fault, history

(* A claim takes only claimable rows, marks all of them and leaves the others alone. *)
LEMMA ClaimEffect ==
    ASSUME TypeOK, NEW w \in Workers, ClaimPendingOutboxesForProcessing(w)
    PROVE  /\ worker[w].pc = "ready" /\ worker[w].batch = {}
           /\ worker'[w].pc = "ready" /\ worker'[w].row = NoKey
           /\ \A k \in worker'[w].batch : k \in Keys /\ Claimable(k)
           /\ worker'[w].linked = {k \in worker'[w].batch : outbox[k].linked}
           /\ \A v \in Workers \ {w} : worker'[v] = worker[v]
           /\ \A k \in Keys : outbox'[k] = IF k \in worker'[w].batch
                                THEN [outbox[k] EXCEPT !.status = "PROCESSING", !.stale = FALSE]
                                ELSE outbox[k]
           /\ UNCHANGED <<users, notification, dispatcher, faults, direct, relays, overran>>
<1>1. PICK S \in SUBSET {k \in Keys : Claimable(k)} :
        /\ outbox' = [k \in Keys |->
                        IF k \in S THEN [outbox[k] EXCEPT !.status = "PROCESSING", !.stale = FALSE]
                                   ELSE outbox[k]]
        /\ worker' = [worker EXCEPT ![w] =
                        [pc |-> "ready", batch |-> S, row |-> NoKey,
                         linked |-> {k \in S : outbox[k].linked}]]
  BY DEF ClaimPendingOutboxesForProcessing
<1>2. worker'[w].batch = S /\ worker'[w].pc = "ready" /\ worker'[w].row = NoKey
  BY <1>1 DEF TypeOK
<1>3. worker'[w].linked = {k \in S : outbox[k].linked}
  BY <1>1 DEF TypeOK
<1>4. \A v \in Workers \ {w} : worker'[v] = worker[v]
  BY <1>1 DEF TypeOK
<1> QED
  BY <1>1, <1>2, <1>3, <1>4 DEF ClaimPendingOutboxesForProcessing, history

(* Taking a row moves it out of the batch. *)
LEMMA TakeEffect ==
    ASSUME TypeOK, NEW w \in Workers, TakeRow(w)
    PROVE  /\ worker[w].pc = "ready"
           /\ worker'[w].row \in worker[w].batch
           /\ worker'[w].batch = worker[w].batch \ {worker'[w].row}
           /\ worker'[w].linked = worker[w].linked
           /\ worker'[w].pc = IF worker'[w].row \in worker[w].linked THEN "lookup" ELSE "reject"
           /\ \A v \in Workers \ {w} : worker'[v] = worker[v]
           /\ UNCHANGED <<users, notification, outbox, dispatcher, faults, direct, relays, overran>>
<1>1. PICK k \in worker[w].batch :
        worker' = [worker EXCEPT ![w] =
            [pc |-> IF k \in worker[w].linked THEN "lookup" ELSE "reject",
             batch |-> worker[w].batch \ {k}, row |-> k, linked |-> worker[w].linked]]
  BY DEF TakeRow
<1>2. worker'[w] = [pc |-> IF k \in worker[w].linked THEN "lookup" ELSE "reject",
                    batch |-> worker[w].batch \ {k}, row |-> k, linked |-> worker[w].linked]
  BY <1>1 DEF TypeOK
<1>3. \A v \in Workers \ {w} : worker'[v] = worker[v]
  BY <1>1 DEF TypeOK
<1> QED
  BY <1>2, <1>3 DEF TakeRow, store, history

(* The five ways a step changes what a process holds. *)
Keeps(w) == /\ worker'[w].batch = worker[w].batch
            /\ worker'[w].row = worker[w].row
            /\ worker'[w].linked = worker[w].linked
            /\ worker[w].pc = "catchDelivery" => worker'[w].pc = "catchDelivery"
Drops(w) == /\ worker'[w].batch = worker[w].batch
            /\ worker'[w].row = NoKey
            /\ worker'[w].linked = worker[w].linked \ {worker[w].row}
Stops(w) == worker'[w].batch = {} /\ worker'[w].row = NoKey /\ worker'[w].linked = {}

(* Every step keeps the rows a process holds, drops the one at hand, stops the process,
   or is its own claim or the head of its loop. *)
LEMMA HoldingChanges ==
    ASSUME TypeOK, [Next]_vars, NEW v \in Workers
    PROVE  \/ Keeps(v) \/ Drops(v) \/ Stops(v)
           \/ ClaimPendingOutboxesForProcessing(v) \/ TakeRow(v)
<1> DEFINE Goal == \/ Keeps(v) \/ Drops(v) \/ Stops(v)
                   \/ ClaimPendingOutboxesForProcessing(v) \/ TakeRow(v)
<1>0. SUFFICES ASSUME worker' # worker PROVE Goal
  BY DEF Keeps
<1>1. PICK w \in Workers : WorkerStep(w) \/ WorkerCrash(w)
  BY <1>0 DEF Next, vars, FindNotificationByDedupeKey, CreateNotificationRecord, DispatchPublish,
     DispatcherCrash, Clock, RetryBecomesDue, ClaimBecomesStale, DeleteUser
<1>2. CASE FindNotificationById(w)
  BY <1>2, GotoFields DEF FindNotificationById, Keeps
<1>3. CASE PublishNotificationCreated(w)
  BY <1>3, GotoFields DEF PublishNotificationCreated, Keeps
<1>4. CASE MarkNotificationOutboxProcessed(w)
  BY <1>4, GotoFields DEF MarkNotificationOutboxProcessed, UpdateOutbox, Keeps
<1>5. CASE RejectRow(w)
  BY <1>5, GotoFields, NextRowFields DEF RejectRow, UpdateOutbox, Keeps, Drops
<1>6. CASE MarkNotificationOutboxFailed(w)
  BY <1>6, GotoFields, NextRowFields DEF MarkNotificationOutboxFailed, UpdateOutbox, Keeps, Drops
<1>7. CASE MarkSent(w)
  BY <1>7, GotoFields, NextRowFields DEF MarkSent, UpdateNotificationDeliveryStatus, Keeps, Drops
<1>8. CASE MarkDeliveryFailed(w)
  BY <1>8, NextRowFields DEF MarkDeliveryFailed, UpdateNotificationDeliveryStatus, Keeps, Drops
<1>9. CASE WorkerCrash(w)
  BY <1>9 DEF WorkerCrash, TypeOK, Keeps, Stops
<1>10. CASE ClaimPendingOutboxesForProcessing(w)
  BY <1>10 DEF ClaimPendingOutboxesForProcessing, TypeOK, Keeps
<1>11. CASE TakeRow(w)
  BY <1>11 DEF TakeRow, TypeOK, Keeps
<1> QED
  BY <1>1, <1>2, <1>3, <1>4, <1>5, <1>6, <1>7, <1>8, <1>9, <1>10, <1>11 DEF WorkerStep

(* The ways a step changes one outbox row. *)
Inserts(k) == InsertBoth(k) /\ outbox'[k] = NewRow /\ notification'[k] = "PENDING"
Claims(k) == \E w \in Workers :
    /\ ClaimPendingOutboxesForProcessing(w) /\ Claimable(k) /\ k \in worker'[w].batch
    /\ outbox'[k] = [outbox[k] EXCEPT !.status = "PROCESSING", !.stale = FALSE]
Completes(k) == \E w \in Workers :
    /\ worker[w].row = k /\ worker[w].pc = "markProcessed"
    /\ outbox'[k] = Processed(outbox[k])
Fails(k) == \E w \in Workers :
    /\ worker[w].row = k /\ (RejectRow(w) \/ MarkNotificationOutboxFailed(w))
    /\ outbox'[k] = Failed(outbox[k])
Reopens(k) ==
    /\ Watch(k)
    /\ \/ outbox[k].status = "FAILED" /\ outbox'[k] = [outbox[k] EXCEPT !.due = TRUE]
       \/ outbox[k].status = "PROCESSING" /\ outbox'[k] = [outbox[k] EXCEPT !.stale = TRUE]
Unlinks(k) == outbox'[k] = [outbox[k] EXCEPT !.linked = FALSE] /\ notification'[k] = "NONE"

(* Every way a step can change a row of the outbox. *)
LEMMA RowChanges ==
    ASSUME TypeOK, [Next]_vars, NEW k \in Keys
    PROVE  \/ outbox'[k] = outbox[k]
           \/ Inserts(k) \/ Claims(k) \/ Completes(k) \/ Fails(k) \/ Reopens(k) \/ Unlinks(k)
<1> DEFINE Goal == \/ outbox'[k] = outbox[k]
                   \/ Inserts(k) \/ Claims(k) \/ Completes(k) \/ Fails(k) \/ Reopens(k) \/ Unlinks(k)
<1>0. SUFFICES ASSUME outbox'[k] # outbox[k] PROVE Goal
  OBVIOUS
<1>1. ASSUME NEW d \in Dispatchers, CreateNotificationRecord(d) PROVE Inserts(k)
  BY <1>0, <1>1 DEF CreateNotificationRecord, InsertBoth, Inserts, TypeOK
<1>2. ASSUME NEW w \in Workers, ClaimPendingOutboxesForProcessing(w) PROVE Claims(k)
  BY <1>0, <1>2, ClaimEffect DEF Claims
<1>3. ASSUME NEW w \in Workers, MarkNotificationOutboxProcessed(w) PROVE Completes(k)
  BY <1>0, <1>3, UpdateEffect DEF MarkNotificationOutboxProcessed, Completes
<1>4. ASSUME NEW w \in Workers, RejectRow(w) PROVE Fails(k)
  BY <1>0, <1>4, UpdateEffect DEF RejectRow, Fails
<1>5. ASSUME NEW w \in Workers, MarkNotificationOutboxFailed(w) PROVE Fails(k)
  BY <1>0, <1>5, UpdateEffect DEF MarkNotificationOutboxFailed, Fails
<1>6. ASSUME NEW j \in Keys, RetryBecomesDue(j) \/ ClaimBecomesStale(j) PROVE Reopens(k)
  BY <1>0, <1>6 DEF RetryBecomesDue, ClaimBecomesStale, Reopens, TypeOK
<1>7. ASSUME NEW u \in Users, DeleteUser(u) PROVE Unlinks(k)
  BY <1>0, <1>7 DEF DeleteUser, Unlinks
<1>8. ASSUME NEW d \in Dispatchers, NEW j \in Keys,
             FindNotificationByDedupeKey(d, j) \/ DispatchPublish(d) \/ DispatcherCrash(d)
      PROVE  FALSE
  BY <1>0, <1>8 DEF FindNotificationByDedupeKey, DispatchPublish, DispatcherCrash, store
<1>9. ASSUME NEW w \in Workers,
             \/ TakeRow(w) \/ FindNotificationById(w) \/ PublishNotificationCreated(w)
             \/ MarkSent(w) \/ MarkDeliveryFailed(w) \/ WorkerCrash(w)
      PROVE  FALSE
  BY <1>0, <1>9 DEF TakeRow, FindNotificationById, PublishNotificationCreated, MarkSent,
     MarkDeliveryFailed, UpdateNotificationDeliveryStatus, WorkerCrash, store
<1>10. ~UNCHANGED vars
  BY <1>0 DEF vars
<1> QED
  BY <1>1, <1>2, <1>3, <1>4, <1>5, <1>6, <1>7, <1>8, <1>9, <1>10 DEF Next, WorkerStep, Clock

(* No step of this system deletes a row of the outbox. *)
LEMMA RowsStay ==
    ASSUME TypeOK, [Next]_vars, NEW k \in Keys, Exists(k)
    PROVE  Exists(k)'
<1>1. outbox[k] \in Row
  BY DEF TypeOK
<1> QED
  BY <1>1, RowChanges, ProcessedFields, FailedFields
     DEF Exists, Inserts, InsertBoth, Claims, Completes, Fails, Reopens, Unlinks, Row

-----------------------------------------------------------------------------
(* A process holds rows that exist, each once, and remembers a notificationId
   only for rows it holds. *)
HeldBy(w) ==
    /\ worker[w].row \notin worker[w].batch
    /\ worker[w].row # NoKey => Exists(worker[w].row)
    /\ \A k \in worker[w].batch : Exists(k)
    /\ worker[w].linked \subseteq worker[w].batch \cup {worker[w].row}
HeldRows == \A w \in Workers : HeldBy(w)

(* Processes only work on rows of the table, on one at a time and on each
   once: what the loop over the claimed batch relies on. *)
THEOREM HeldRowsExist == Spec => []HeldRows
<1>1. Init => HeldRows
  BY ConstantsAssumption DEF Init, HeldRows, HeldBy
<1>2. TypeOK /\ HeldRows /\ [Next]_vars => HeldRows'
  <2> SUFFICES ASSUME TypeOK, HeldRows, [Next]_vars, NEW w \in Workers
               PROVE  HeldBy(w)'
    BY DEF HeldRows
  <2>1. worker[w].batch \subseteq Keys /\ worker[w].row \in Keys \cup {NoKey} /\ NoKey \notin Keys
    BY ConstantsAssumption DEF TypeOK, WorkerState
  <2>2. CASE Keeps(w)
    BY <2>1, <2>2, RowsStay DEF Keeps, HeldRows, HeldBy
  <2>3. CASE Drops(w)
    BY <2>1, <2>3, RowsStay DEF Drops, HeldRows, HeldBy
  <2>4. CASE Stops(w)
    BY <2>1, <2>4 DEF Stops, HeldBy
  <2>5. CASE ClaimPendingOutboxesForProcessing(w)
    <3>1. \A k \in worker'[w].batch : k \in Keys /\ Exists(k)
      BY <2>5, ClaimEffect DEF Claimable, Exists
    <3>2. \A k \in worker'[w].batch : Exists(k)'
      BY <3>1, RowsStay
    <3>3. /\ worker'[w].row = NoKey
          /\ worker'[w].linked \subseteq worker'[w].batch
      BY <2>5, ClaimEffect
    <3> QED
      BY <2>1, <3>1, <3>2, <3>3 DEF HeldBy, Exists
  <2>6. CASE TakeRow(w)
    <3>1. /\ worker'[w].row \in worker[w].batch
          /\ worker'[w].batch = worker[w].batch \ {worker'[w].row}
          /\ worker'[w].linked = worker[w].linked
          /\ worker[w].row = NoKey
      BY <2>6, TakeEffect DEF TypeOK
    <3>2. \A k \in worker[w].batch : k \in Keys /\ Exists(k)'
      BY <2>1, RowsStay DEF HeldRows, HeldBy
    <3>3. worker[w].linked \subseteq worker[w].batch
      BY <2>1, <3>1 DEF HeldRows, HeldBy, TypeOK, WorkerState
    <3> QED
      BY <3>1, <3>2, <3>3 DEF HeldBy, Exists
  <2> QED
    BY <2>2, <2>3, <2>4, <2>5, <2>6, HoldingChanges
<1> QED
  BY <1>1, <1>2, TypeCorrect, PTL DEF Spec

(* The ways a step changes one notification, and with it the pairing. *)
Deletes(k) == notification'[k] = "NONE" /\ outbox'[k].linked = FALSE
Delivers(k) ==
    /\ notification[k] # "NONE"
    /\ outbox' = outbox
    /\ \E w \in Workers : /\ worker[w].row = k
                          /\ \/ worker[w].pc = "markSent" /\ notification'[k] = "SENT"
                             \/ worker[w].pc = "catchDelivery" /\ notification'[k] = "FAILED"
Pairs(k) ==
    /\ notification'[k] = notification[k]
    /\ outbox'[k].linked = outbox[k].linked
    /\ Exists(k)' <=> Exists(k)

(* Every way a step can change a notification together with its row. *)
LEMMA NotificationChanges ==
    ASSUME TypeOK, HeldRows, [Next]_vars, NEW k \in Keys
    PROVE  Inserts(k) \/ Deletes(k) \/ Delivers(k) \/ Pairs(k)
<1>0. outbox[k] \in Row
  BY DEF TypeOK
<1>1. ASSUME notification'[k] = notification[k], outbox'[k].linked = outbox[k].linked
      PROVE  Inserts(k) \/ Pairs(k)
  <2>1. CASE Exists(k)
    BY <1>1, <2>1, RowsStay DEF Pairs
  <2>2. CASE ~Exists(k)
    <3>1. ~Claims(k)
      BY <2>2 DEF Claims, Claimable, Exists
    <3>2. ~Completes(k) /\ ~Fails(k)
      BY <2>2, ConstantsAssumption DEF Completes, Fails, HeldRows, HeldBy
    <3>3. ~Reopens(k)
      BY <2>2 DEF Reopens, Exists
    <3>4. Unlinks(k) => outbox'[k].status = outbox[k].status
      BY <1>0 DEF Unlinks, Row
    <3> QED
      BY <1>1, <2>2, <3>1, <3>2, <3>3, <3>4, RowChanges DEF Pairs, Exists
  <2> QED
    BY <2>1, <2>2
<1>2. ASSUME NEW d \in Dispatchers, CreateNotificationRecord(d)
      PROVE  Inserts(k) \/ (notification'[k] = notification[k] /\ outbox'[k] = outbox[k])
  BY <1>2 DEF CreateNotificationRecord, InsertBoth, Inserts, TypeOK
<1>3. ASSUME NEW w \in Workers, MarkSent(w) PROVE Delivers(k) \/ notification'[k] = notification[k]
  <2>1. worker[w].row \in Keys
    BY <1>3, WorkerMoves DEF MarkSent, UpdateNotificationDeliveryStatus
  <2> QED
    BY <1>3, <2>1 DEF MarkSent, UpdateNotificationDeliveryStatus, Delivers, TypeOK
<1>4. ASSUME NEW w \in Workers, MarkDeliveryFailed(w) PROVE Delivers(k) \/ notification'[k] = notification[k]
  <2>1. worker[w].row \in Keys
    BY <1>4, WorkerMoves DEF MarkDeliveryFailed, UpdateNotificationDeliveryStatus
  <2> QED
    BY <1>4, <2>1 DEF MarkDeliveryFailed, UpdateNotificationDeliveryStatus, Delivers, TypeOK
<1>5. ASSUME NEW u \in Users, DeleteUser(u) PROVE Deletes(k) \/ Pairs(k)
  BY <1>0, <1>5 DEF DeleteUser, Deletes, Pairs, Exists, Row
<1>6. ASSUME NEW w \in Workers, MarkSent(w) \/ MarkDeliveryFailed(w) PROVE outbox' = outbox
  BY <1>6 DEF MarkSent, MarkDeliveryFailed, UpdateNotificationDeliveryStatus
<1>7. CASE \/ \E d \in Dispatchers : CreateNotificationRecord(d)
           \/ \E w \in Workers : MarkSent(w) \/ MarkDeliveryFailed(w)
           \/ \E u \in Users : DeleteUser(u)
  BY <1>1, <1>2, <1>3, <1>4, <1>5, <1>6, <1>7
<1>8. CASE ~ ( \/ \E d \in Dispatchers : CreateNotificationRecord(d)
               \/ \E w \in Workers : MarkSent(w) \/ MarkDeliveryFailed(w)
               \/ \E u \in Users : DeleteUser(u) )
  <2>1. notification' = notification
    BY <1>8 DEF Next, vars, store, WorkerStep, Clock, FindNotificationByDedupeKey, DispatchPublish,
       DispatcherCrash, ClaimPendingOutboxesForProcessing, TakeRow, FindNotificationById,
       PublishNotificationCreated, MarkNotificationOutboxProcessed, RejectRow,
       MarkNotificationOutboxFailed, UpdateOutbox, WorkerCrash, RetryBecomesDue, ClaimBecomesStale
  <2>2. Unlinks(k) => Deletes(k)
    BY <1>0 DEF Unlinks, Deletes, Row
  <2>3. Claims(k) \/ Completes(k) \/ Fails(k) \/ Reopens(k) => outbox'[k].linked = outbox[k].linked
    <3>1. Claims(k) => outbox'[k].linked = outbox[k].linked
      BY <1>0, ClaimedFields DEF Claims
    <3>2. Completes(k) \/ Fails(k) => outbox'[k].linked = outbox[k].linked
      BY <1>0, ProcessedFields, FailedFields DEF Completes, Fails
    <3>3. Reopens(k) => outbox'[k].linked = outbox[k].linked
      BY <1>0, OtherFields DEF Reopens
    <3> QED
      BY <3>1, <3>2, <3>3
  <2> QED
    BY <1>1, <2>1, <2>2, <2>3, RowChanges
<1> QED
  BY <1>7, <1>8

(* Notification and outbox row stay paired, for any number of dispatches,
   processes, faults and deletions: the transaction and the cascade suffice. *)
THEOREM TablesPaired == Spec => []Paired
<1>1. Init => Paired
  BY DEF Init, Paired, Exists, NoRow
<1>2. TypeOK /\ HeldRows /\ Paired /\ [Next]_vars => Paired'
  <2> SUFFICES ASSUME TypeOK, HeldRows, Paired, [Next]_vars, NEW k \in Keys
               PROVE  notification'[k] # "NONE" <=> Exists(k)' /\ outbox'[k].linked
    BY DEF Paired
  <2>1. CASE Inserts(k)
    BY <2>1 DEF Inserts, NewRow, Exists
  <2>2. CASE Deletes(k)
    BY <2>2 DEF Deletes
  <2>3. CASE Delivers(k)
    BY <2>3 DEF Delivers, Paired, Exists
  <2>4. CASE Pairs(k)
    BY <2>4 DEF Pairs, Paired
  <2> QED
    BY <2>1, <2>2, <2>3, <2>4, NotificationChanges
<1> QED
  BY <1>1, <1>2, TypeCorrect, HeldRowsExist, PTL DEF Spec

(* A row in PROCESSING always has a retry left: a crash of its holder, at any
   point and any number of times, leaves it to the stale-claim branch. *)
THEOREM RowsNeverStranded == Spec => []NeverStranded
<1>1. Init => NeverStranded
  BY DEF Init, NeverStranded, NoRow
<1>2. TypeOK /\ NeverStranded /\ [Next]_vars => NeverStranded'
  <2> SUFFICES ASSUME TypeOK, NeverStranded, [Next]_vars, NEW k \in Keys,
                      outbox'[k].status = "PROCESSING"
               PROVE  outbox'[k].retryCount < MaxRetry
    BY DEF NeverStranded
  <2>1. outbox[k] \in Row
    BY DEF TypeOK
  <2>2. ~Inserts(k)
    BY DEF Inserts, NewRow
  <2>3. ~Completes(k) /\ ~Fails(k)
    BY <2>1, ProcessedFields, FailedFields DEF Completes, Fails
  <2>4. Claims(k) => outbox'[k].retryCount < MaxRetry
    BY <2>1, ClaimedFields DEF Claims, Claimable
  <2>5. Reopens(k) => outbox'[k].retryCount < MaxRetry
    BY <2>1, OtherFields DEF Reopens, NeverStranded
  <2>6. Unlinks(k) => outbox'[k].retryCount < MaxRetry
    BY <2>1, OtherFields DEF Unlinks, NeverStranded
  <2> QED
    BY <2>2, <2>3, <2>4, <2>5, <2>6, RowChanges DEF NeverStranded
<1> QED
  BY <1>1, <1>2, TypeCorrect, PTL DEF Spec

-----------------------------------------------------------------------------
(* A process past its publication has published the row at hand. *)
PublishedFirst ==
    \A w \in Workers :
        worker[w].pc \in {"markProcessed", "markSent"} => relays[worker[w].row] > 0

(* A publication is never undone. *)
LEMMA RelaysGrow ==
    ASSUME TypeOK, [Next]_vars, NEW k \in Keys, relays[k] > 0
    PROVE  relays'[k] > 0
<1>0. relays[k] \in 0..2
  BY DEF TypeOK
<1>1. ASSUME NEW w \in Workers, PublishNotificationCreated(w) PROVE relays'[k] > 0
  BY <1>0, <1>1 DEF PublishNotificationCreated, Counted, TypeOK
<1>2. CASE ~ \E w \in Workers : PublishNotificationCreated(w)
  <2>1. relays' = relays
    BY <1>2 DEF Next, vars, store, history, WorkerStep, Clock, FindNotificationByDedupeKey,
       CreateNotificationRecord, DispatchPublish, DispatcherCrash, ClaimPendingOutboxesForProcessing,
       TakeRow, FindNotificationById, MarkNotificationOutboxProcessed, RejectRow,
       MarkNotificationOutboxFailed, UpdateOutbox, MarkSent, MarkDeliveryFailed,
       UpdateNotificationDeliveryStatus, WorkerCrash, RetryBecomesDue, ClaimBecomesStale, DeleteUser
  <2> QED
    BY <2>1
<1> QED
  BY <1>1, <1>2

(* Only a publication brings a process to the point where it marks its row processed. *)
LEMMA Publishes ==
    ASSUME TypeOK, [Next]_vars, NEW v \in Workers, worker'[v].pc \in {"markProcessed", "markSent"}
    PROVE  /\ worker'[v].row = worker[v].row
           /\ \/ worker[v].pc \in {"markProcessed", "markSent"}
              \/ relays'[worker[v].row] > 0
<1> DEFINE Goal == /\ worker'[v].row = worker[v].row
                   /\ \/ worker[v].pc \in {"markProcessed", "markSent"}
                      \/ relays'[worker[v].row] > 0
<1>0. SUFFICES ASSUME worker'[v] # worker[v] PROVE Goal
  OBVIOUS
<1>1. PICK w \in Workers : WorkerStep(w) \/ WorkerCrash(w)
  BY <1>0 DEF Next, vars, FindNotificationByDedupeKey, CreateNotificationRecord, DispatchPublish,
     DispatcherCrash, Clock, RetryBecomesDue, ClaimBecomesStale, DeleteUser
<1>2. CASE FindNotificationById(w)
  BY <1>0, <1>2, GotoFields DEF FindNotificationById
<1>3. CASE PublishNotificationCreated(w)
  <2>1. worker[w].row \in Keys /\ relays[worker[w].row] \in 0..2
    BY <1>3, WorkerMoves DEF PublishNotificationCreated, TypeOK
  <2>2. w = v
    BY <1>0, <1>3, GotoFields DEF PublishNotificationCreated
  <2>3. worker' = Goto(w, "markProcessed") \/ worker' = Goto(w, "catchOutbox")
    BY <1>3 DEF PublishNotificationCreated
  <2>4. worker' = Goto(w, "markProcessed")
    BY <2>2, <2>3, GotoFields
  <2>5. relays' = [relays EXCEPT ![worker[w].row] = Counted(@)]
    BY <1>3, <2>2, <2>4, GotoFields DEF PublishNotificationCreated
  <2> QED
    BY <2>1, <2>2, <2>4, <2>5, GotoFields DEF TypeOK, Counted
<1>4. CASE MarkNotificationOutboxProcessed(w)
  <2>1. w = v
    BY <1>0, <1>4, GotoFields DEF MarkNotificationOutboxProcessed, UpdateOutbox
  <2> QED
    BY <1>4, <2>1, GotoFields DEF MarkNotificationOutboxProcessed, UpdateOutbox
<1>5. CASE RejectRow(w)
  BY <1>0, <1>5, GotoFields, NextRowFields DEF RejectRow, UpdateOutbox
<1>6. CASE MarkNotificationOutboxFailed(w)
  BY <1>0, <1>6, GotoFields, NextRowFields DEF MarkNotificationOutboxFailed, UpdateOutbox
<1>7. CASE MarkSent(w)
  BY <1>0, <1>7, GotoFields, NextRowFields DEF MarkSent, UpdateNotificationDeliveryStatus
<1>8. CASE MarkDeliveryFailed(w)
  BY <1>0, <1>8, NextRowFields DEF MarkDeliveryFailed, UpdateNotificationDeliveryStatus
<1>9. CASE WorkerCrash(w)
  BY <1>0, <1>9 DEF WorkerCrash, TypeOK
<1>10. CASE ClaimPendingOutboxesForProcessing(w)
  BY <1>0, <1>10, ClaimEffect
<1>11. CASE TakeRow(w)
  BY <1>0, <1>11, TakeEffect
<1> QED
  BY <1>1, <1>2, <1>3, <1>4, <1>5, <1>6, <1>7, <1>8, <1>9, <1>10, <1>11 DEF WorkerStep

(* processPendingOutboxes: a process about to write PROCESSED or SENT has published the
   notification of the row it has at hand, or another process has. *)
THEOREM PublicationComesFirst == Spec => []PublishedFirst
<1>1. Init => PublishedFirst
  BY DEF Init, PublishedFirst
<1>2. TypeOK /\ TypeOK' /\ PublishedFirst /\ [Next]_vars => PublishedFirst'
  <2> SUFFICES ASSUME TypeOK, TypeOK', PublishedFirst, [Next]_vars, NEW v \in Workers,
                      worker'[v].pc \in {"markProcessed", "markSent"}
               PROVE  relays'[worker'[v].row] > 0
    BY DEF PublishedFirst
  <2>1. worker'[v].row \in Keys
    BY DEF TypeOK, WorkerState
  <2> QED
    BY <2>1, Publishes, RelaysGrow DEF PublishedFirst
<1> QED
  BY <1>1, <1>2, TypeCorrect, PTL DEF Spec

(* No table ever claims a delivery that was not made: PROCESSED and SENT only
   stand for notifications some process handed to Redis. *)
THEOREM DeliveryIsReal == Spec => []NoFalseDelivery
<1>1. Init => NoFalseDelivery
  BY DEF Init, NoFalseDelivery, NoRow
<1>2. TypeOK /\ HeldRows /\ PublishedFirst /\ NoFalseDelivery /\ [Next]_vars => NoFalseDelivery'
  <2> SUFFICES ASSUME TypeOK, HeldRows, PublishedFirst, NoFalseDelivery, [Next]_vars, NEW k \in Keys,
                      outbox'[k].status = "PROCESSED" \/ notification'[k] = "SENT"
               PROVE  relays'[k] > 0
    BY DEF NoFalseDelivery
  <2>0. outbox[k] \in Row
    BY DEF TypeOK
  <2>1. CASE outbox'[k].status = "PROCESSED"
    <3>1. ~Inserts(k)
      BY <2>1 DEF Inserts, NewRow
    <3>2. ~Claims(k) /\ ~Fails(k)
      BY <2>0, <2>1, ClaimedFields, FailedFields DEF Claims, Fails
    <3>3. Completes(k) => relays[k] > 0
      BY DEF Completes, PublishedFirst
    <3>4. Reopens(k) \/ Unlinks(k) => outbox[k].status = "PROCESSED"
      BY <2>0, <2>1, OtherFields DEF Reopens, Unlinks
    <3> QED
      BY <2>1, <3>1, <3>2, <3>3, <3>4, RowChanges, RelaysGrow DEF NoFalseDelivery
  <2>2. CASE notification'[k] = "SENT"
    <3>1. Delivers(k) => relays[k] > 0
      BY <2>2 DEF Delivers, PublishedFirst
    <3>2. ~Inserts(k) /\ ~Deletes(k)
      BY <2>2 DEF Inserts, Deletes
    <3> QED
      BY <2>2, <3>1, <3>2, NotificationChanges, RelaysGrow DEF Pairs, NoFalseDelivery
  <2> QED
    BY <2>1, <2>2
<1> QED
  BY <1>1, <1>2, TypeCorrect, HeldRowsExist, PublicationComesFirst, PTL DEF Spec

-----------------------------------------------------------------------------
(* A row the claim query could select, its retries apart. *)
Open(k) == \/ outbox[k].status = "PENDING"
           \/ outbox[k].status = "FAILED" /\ outbox[k].due
           \/ outbox[k].status = "PROCESSING" /\ outbox[k].stale

(* While nobody overran, a held row is out of reach of the claim query and
   has one holder. *)
Guarded == \A k \in Keys \ overran : \A v \in Holders(k) : ~Open(k) /\ Holders(k) = {v}

(* Rows are acquired by claims only. *)
LEMMA HolderChanges ==
    ASSUME TypeOK, [Next]_vars, NEW k \in Keys, NEW v \in Workers, v \in Holders(k)'
    PROVE  \/ v \in Holders(k)
           \/ ClaimPendingOutboxesForProcessing(v) /\ k \in worker'[v].batch
<1>1. k # NoKey
  BY KeyTypes
<1>2. k \in worker'[v].batch \/ worker'[v].row = k
  BY DEF Holders
<1> QED
  BY <1>1, <1>2, HoldingChanges, ClaimEffect, TakeEffect DEF Holders, Keeps, Drops, Stops

(* An overrun is never forgotten. *)
LEMMA OverranGrows ==
    ASSUME TypeOK, [Next]_vars
    PROVE  overran \subseteq overran'
BY DEF Next, vars, store, history, WorkerStep, Clock, FindNotificationByDedupeKey, CreateNotificationRecord,
   DispatchPublish, DispatcherCrash, ClaimPendingOutboxesForProcessing, TakeRow, FindNotificationById,
   PublishNotificationCreated, MarkNotificationOutboxProcessed, RejectRow, MarkNotificationOutboxFailed,
   UpdateOutbox, MarkSent, MarkDeliveryFailed, UpdateNotificationDeliveryStatus, WorkerCrash,
   RetryBecomesDue, ClaimBecomesStale, Watch, DeleteUser

(* claimPendingOutboxesForProcessing: until its window runs out, a row that is held cannot
   be claimed and has one holder. *)
THEOREM GuardedRows == Spec => []Guarded
<1>1. Init => Guarded
  BY ConstantsAssumption DEF Init, Guarded, Holders
<1>2. TypeOK /\ HeldRows /\ Guarded /\ [Next]_vars => Guarded'
  <2> SUFFICES ASSUME TypeOK, HeldRows, Guarded, [Next]_vars, NEW k \in Keys, k \notin overran',
                      NEW v \in Workers, v \in Holders(k)'
               PROVE  ~Open(k)' /\ Holders(k)' = {v}
    BY DEF Guarded, Holders
  <2>0. outbox[k] \in Row /\ k \notin overran /\ k # NoKey
    BY OverranGrows, KeyTypes DEF TypeOK
  <2>1. CASE \E w \in Workers : ClaimPendingOutboxesForProcessing(w) /\ k \in worker'[w].batch
    <3>1. PICK w \in Workers : ClaimPendingOutboxesForProcessing(w) /\ k \in worker'[w].batch
      BY <2>1
    <3>2. Open(k)
      BY <3>1, ClaimEffect DEF Claimable, Open
    <3>3. Holders(k) = {}
      BY <2>0, <3>2 DEF Guarded
    <3>4. Holders(k)' = {w}
      <4>1. w \in Holders(k)'
        BY <3>1 DEF Holders
      <4>2. ASSUME NEW x \in Workers \ {w} PROVE x \notin Holders(k)'
        <5>1. worker'[x] = worker[x]
          BY <3>1, ClaimEffect
        <5> QED
          BY <3>3, <5>1 DEF Holders
      <4>3. Holders(k)' \subseteq Workers
        BY DEF Holders
      <4> QED
        BY <4>1, <4>2, <4>3
    <3>5. ~Open(k)'
      BY <2>0, <3>1, ClaimEffect, ClaimedFields DEF Open
    <3> QED
      BY <3>4, <3>5
  <2>2. CASE ~ \E w \in Workers : ClaimPendingOutboxesForProcessing(w) /\ k \in worker'[w].batch
    <3>1. Holders(k)' \subseteq Holders(k)
      BY <2>2, HolderChanges DEF Holders
    <3>2. ~Open(k) /\ Holders(k) = {v}
      BY <2>0, <3>1 DEF Guarded
    <3>3. Exists(k)
      BY <2>0, <3>2 DEF Holders, HeldRows, HeldBy
    <3>4. ~Inserts(k) /\ ~Claims(k)
      BY <2>2, <3>3 DEF Inserts, InsertBoth, Claims
    <3>5. ~Reopens(k)
      BY <2>0, <3>2 DEF Reopens, Watch
    <3>6. Completes(k) \/ Fails(k) => ~Open(k)'
      BY <2>0, ProcessedFields, FailedFields DEF Completes, Fails, Open
    <3>7. Unlinks(k) => ~Open(k)'
      BY <2>0, <3>2, OtherFields DEF Unlinks, Open
    <3>8. ~Open(k)'
      BY <3>2, <3>4, <3>5, <3>6, <3>7, RowChanges DEF Open
    <3> QED
      BY <3>1, <3>2, <3>8
  <2> QED
    BY <2>1, <2>2
<1> QED
  BY <1>1, <1>2, TypeCorrect, HeldRowsExist, PTL DEF Spec

(* Two processes hold one row only after a holder outlived its window, for
   any number of processes, batch sizes, crashes and failed calls. *)
THEOREM ClaimsExclude == Spec => []ExclusiveClaim
<1>1. Guarded => ExclusiveClaim
  BY DEF Guarded, ExclusiveClaim
<1> QED
  BY <1>1, GuardedRows, PTL

-----------------------------------------------------------------------------
(* No more processes than there are can still charge a failure to a row. *)
LEMMA ChargingFinite ==
    ASSUME NEW k \in Keys
    PROVE  /\ IsFiniteSet(Charging(k)) /\ Cardinality(Charging(k)) \in Nat
           /\ Cardinality(Charging(k)) <= Cardinality(Workers)
           /\ Cardinality(Workers) \in Nat
BY ConstantsAssumption, FS_Subset, FS_CardinalityType DEF Charging

(* A process becomes able to charge a row only by claiming it. *)
LEMMA ChargingChanges ==
    ASSUME TypeOK, [Next]_vars, NEW k \in Keys, NEW v \in Workers, v \in Charging(k)'
    PROVE  \/ v \in Charging(k)
           \/ ClaimPendingOutboxesForProcessing(v) /\ k \in worker'[v].batch
<1>1. k # NoKey
  BY KeyTypes
<1>2. \/ k \in worker'[v].batch
      \/ worker'[v].row = k /\ worker'[v].pc # "catchDelivery"
  BY DEF Charging
<1>3. CASE Keeps(v)
  BY <1>2, <1>3 DEF Charging, Keeps
<1>4. CASE Drops(v)
  BY <1>1, <1>2, <1>4 DEF Charging, Drops
<1>5. CASE Stops(v)
  BY <1>1, <1>2, <1>5 DEF Stops
<1>6. CASE ClaimPendingOutboxesForProcessing(v)
  BY <1>1, <1>2, <1>6, ClaimEffect
<1>7. CASE TakeRow(v)
  BY <1>1, <1>2, <1>7, TakeEffect DEF Charging
<1> QED
  BY <1>3, <1>4, <1>5, <1>6, <1>7, HoldingChanges

(* Faults are spent and never refunded. *)
LEMMA FaultsGrow ==
    ASSUME TypeOK, [Next]_vars
    PROVE  faults' \in Nat /\ faults \in Nat /\ faults <= faults'
<1>1. faults \in Nat
  BY ConstantsAssumption DEF TypeOK
<1>2. Fault \/ UNCHANGED faults
  BY DEF Next, vars, WorkerStep, Clock, FindNotificationByDedupeKey,
     CreateNotificationRecord, DispatchPublish, DispatcherCrash, ClaimPendingOutboxesForProcessing, TakeRow,
     FindNotificationById, PublishNotificationCreated, MarkNotificationOutboxProcessed, RejectRow,
     MarkNotificationOutboxFailed, UpdateOutbox, MarkSent, MarkDeliveryFailed,
     UpdateNotificationDeliveryStatus, WorkerCrash, RetryBecomesDue, ClaimBecomesStale, DeleteUser
<1> QED
  BY <1>1, <1>2 DEF Fault

(* Recording a failure uses up a charge of the process, or a fault. *)
LEMMA FailureIsCharged ==
    ASSUME TypeOK, HeldRows, NEW k \in Keys, NEW w \in Workers, worker[w].row = k,
           RejectRow(w) \/ MarkNotificationOutboxFailed(w)
    PROVE  \/ faults' = faults + 1
           \/ w \in Charging(k) /\ w \notin Charging(k)'
<1>1. worker[w].pc \in {"reject", "catchOutbox"}
  BY DEF RejectRow, MarkNotificationOutboxFailed
<1>2. w \in Charging(k) /\ k \notin worker[w].batch /\ k # NoKey
  BY <1>1, KeyTypes DEF Charging, HeldRows, HeldBy
<1>3. CASE RejectRow(w)
  <2>1. faults' = faults + 1 \/ worker' = NextRow(w)
    BY <1>1, <1>3, UpdateEffect DEF RejectRow
  <2> QED
    BY <1>2, <2>1, NextRowFields DEF Charging
<1>4. CASE MarkNotificationOutboxFailed(w)
  <2>1. faults' = faults + 1 \/ worker' \in {NextRow(w), Goto(w, "catchDelivery")}
    BY <1>1, <1>4, UpdateEffect DEF MarkNotificationOutboxFailed
  <2> QED
    BY <1>2, <2>1, NextRowFields, GotoFields DEF Charging
<1> QED
  BY <1>3, <1>4

(* retryCount never exceeds MaxRetry - 1 by more than one failure per process
   and per fault, however slow the processes are: failures are charged
   without a guard, but only by processes that still hold the row. *)
THEOREM RetriesBounded == Spec => []RetryBound
<1>1. Init => RetryBound
  <2> SUFFICES ASSUME Init, NEW k \in Keys
               PROVE  outbox[k].retryCount + Cardinality(Charging(k))
                        <= MaxRetry - 1 + Cardinality(Workers) + faults
    BY DEF RetryBound
  <2>1. outbox[k].retryCount = 0 /\ faults = 0
    BY DEF Init, NoRow
  <2> QED
    BY <2>1, ChargingFinite, ConstantsAssumption
<1>2. TypeOK /\ HeldRows /\ RetryBound /\ [Next]_vars => RetryBound'
  <2> SUFFICES ASSUME TypeOK, HeldRows, RetryBound, [Next]_vars, NEW k \in Keys
               PROVE  outbox'[k].retryCount + Cardinality(Charging(k)')
                        <= MaxRetry - 1 + Cardinality(Workers) + faults'
    BY DEF RetryBound
  <2> DEFINE n == outbox[k].retryCount
             c == Cardinality(Charging(k))
             cc == Cardinality(Charging(k)')
             W == Cardinality(Workers)
  <2>0. outbox[k] \in Row /\ n \in Nat
    BY DEF TypeOK, Row
  <2>1. c \in Nat /\ W \in Nat /\ MaxRetry \in Nat \ {0} /\ n + c <= MaxRetry - 1 + W + faults
    BY ChargingFinite, ConstantsAssumption DEF RetryBound
  <2>2. faults' \in Nat /\ faults \in Nat /\ faults <= faults'
    BY FaultsGrow
  <2>3. cc \in Nat /\ cc <= W
    <3>1. Charging(k)' \subseteq Workers
      BY DEF Charging
    <3> QED
      BY <3>1, ConstantsAssumption, FS_Subset, FS_CardinalityType
  <2>4. CASE Claims(k)
    <3>1. outbox'[k].retryCount = n /\ n < MaxRetry
      BY <2>0, <2>4, ClaimedFields DEF Claims, Claimable
    <3> QED
      BY <2>0, <2>1, <2>2, <2>3, <3>1
  <2>5. CASE ~Claims(k)
    <3>1. Charging(k)' \subseteq Charging(k)
      <4> SUFFICES ASSUME NEW v \in Workers, v \in Charging(k)', v \notin Charging(k) PROVE FALSE
        BY DEF Charging
      <4>1. ClaimPendingOutboxesForProcessing(v) /\ k \in worker'[v].batch
        BY ChargingChanges
      <4> QED
        BY <2>5, <4>1, ClaimEffect DEF Claims
    <3>2. cc <= c
      BY <3>1, ChargingFinite, FS_Subset
    <3>3. CASE Fails(k)
      <4>1. PICK w \in Workers : /\ worker[w].row = k
                                 /\ RejectRow(w) \/ MarkNotificationOutboxFailed(w)
        BY <3>3 DEF Fails
      <4>2. outbox'[k].retryCount = n + 1
        BY <2>0, <3>3, FailedFields DEF Fails
      <4>3. CASE faults' = faults + 1
        BY <2>0, <2>1, <2>2, <2>3, <3>2, <4>2, <4>3
      <4>4. CASE w \in Charging(k) /\ w \notin Charging(k)'
        <5>1. cc < c
          BY <2>1, <2>3, <3>1, <4>4, ChargingFinite, FS_Subset
        <5> QED
          BY <2>0, <2>1, <2>2, <2>3, <4>2, <5>1
      <4> QED
        BY <4>1, <4>3, <4>4, FailureIsCharged
    <3>4. CASE ~Fails(k)
      <4>1. outbox'[k].retryCount \in Nat /\ outbox'[k].retryCount <= n
        <5>1. Inserts(k) => outbox'[k].retryCount = 0
          BY DEF Inserts, NewRow
        <5>2. Completes(k) => outbox'[k].retryCount = n
          BY <2>0, ProcessedFields DEF Completes
        <5>3. Reopens(k) \/ Unlinks(k) => outbox'[k].retryCount = n
          BY <2>0, OtherFields DEF Reopens, Unlinks
        <5> QED
          BY <2>0, <2>5, <3>4, <5>1, <5>2, <5>3, RowChanges
      <4> QED
        BY <2>0, <2>1, <2>2, <2>3, <3>2, <4>1
    <3> QED
      BY <3>3, <3>4
  <2> QED
    BY <2>4, <2>5
<1> QED
  BY <1>1, <1>2, TypeCorrect, HeldRowsExist, PTL DEF Spec

-----------------------------------------------------------------------------
(* What NotificationDelivery sees of one row. *)
SameView(k) == Stage(k)' = Stage(k) /\ outbox'[k].retryCount = outbox[k].retryCount

(* Claims, the clock and the deletion of a user do not show in a row's stage. *)
LEMMA ViewKept ==
    ASSUME TypeOK, NEW k \in Keys,
           outbox'[k] = outbox[k] \/ Claims(k) \/ Reopens(k) \/ Unlinks(k)
    PROVE  SameView(k)
<1>0. outbox[k] \in Row /\ outbox[k].retryCount \in Nat
  BY DEF TypeOK, Row
<1>1. CASE outbox'[k] = outbox[k]
  BY <1>1 DEF SameView, Stage, Exists, GivenUp
<1>2. CASE Claims(k)
  <2>1. /\ outbox'[k].status = "PROCESSING" /\ outbox'[k].retryCount = outbox[k].retryCount
        /\ outbox[k].status \in {"PENDING", "FAILED", "PROCESSING"}
        /\ outbox[k].retryCount < MaxRetry
    BY <1>0, <1>2, ClaimedFields DEF Claims, Claimable
  <2> QED
    BY <1>0, <2>1, ConstantsAssumption DEF SameView, Stage, Exists, GivenUp
<1>3. CASE Reopens(k) \/ Unlinks(k)
  <2>1. outbox'[k].status = outbox[k].status /\ outbox'[k].retryCount = outbox[k].retryCount
    BY <1>0, <1>3, OtherFields DEF Reopens, Unlinks
  <2> QED
    BY <2>1 DEF SameView, Stage, Exists, GivenUp
<1> QED
  BY <1>1, <1>2, <1>3

(* If no row is seen to change, the stages and the attempts are the same. *)
LEMMA ViewsKept ==
    ASSUME \A k \in Keys : SameView(k)
    PROVE  Stages' = Stages /\ Attempts' = Attempts
BY DEF SameView, Stages, Attempts

(* If only one row is seen to change, only its stage and attempts change. *)
LEMMA OneViewChanges ==
    ASSUME NEW j \in Keys, \A k \in Keys \ {j} : SameView(k)
    PROVE  /\ Stages' = [Stages EXCEPT ![j] = Stage(j)']
           /\ Attempts' = [Attempts EXCEPT ![j] = outbox'[j].retryCount]
BY DEF SameView, Stages, Attempts

(* An update of the row at hand leaves the view of the others. *)
LEMMA UpdateViews ==
    ASSUME TypeOK, NEW w \in Workers, worker[w].pc # "ready",
           NEW row, NEW after, NEW onError, UpdateOutbox(w, row, after, onError)
    PROVE  /\ worker[w].row \in Keys
           /\ \A k \in Keys \ {worker[w].row} : SameView(k)
           /\ outbox'[worker[w].row] \in {outbox[worker[w].row], row}
           /\ outbox'[worker[w].row] = outbox[worker[w].row] => \A k \in Keys : SameView(k)
           /\ Inbox' = Inbox /\ Published' = Published
<1>1. worker[w].row \in Keys
  BY WorkerMoves
<1> QED
  BY <1>1, UpdateEffect, ViewKept DEF Inbox, Published

(* A failed attempt is one of NotificationDelivery. *)
LEMMA FailureShows ==
    ASSUME TypeOK, HeldRows, NEW w \in Workers, worker[w].pc # "ready",
           NEW after, NEW onError,
           UpdateOutbox(w, Failed(outbox[worker[w].row]), after, onError)
    PROVE  [Promise!Next]_(Promise!vars)
<1>0. PICK k \in Keys : k = worker[w].row
  BY WorkerMoves
<1>1. /\ Inbox' = Inbox /\ Published' = Published
      /\ \A j \in Keys \ {k} : SameView(j)
      /\ \/ outbox'[k] = Failed(outbox[k])
         \/ \A j \in Keys : SameView(j)
  BY <1>0, UpdateViews
<1>2. CASE \A j \in Keys : SameView(j)
  BY <1>1, <1>2, ViewsKept DEF Promise!vars
<1>3. CASE outbox'[k] = Failed(outbox[k])
  <2>1. outbox[k] \in Row /\ outbox[k].retryCount \in Nat
    BY DEF TypeOK, Row
  <2>2. outbox'[k].status = "FAILED" /\ outbox'[k].retryCount = outbox[k].retryCount + 1
    BY <1>3, <2>1, FailedFields
  <2>3. Stages[k] # "absent" /\ Attempts[k] = outbox[k].retryCount
    BY <1>0, ConstantsAssumption DEF Stages, Stage, Attempts, HeldRows, HeldBy
  <2>4. Stage(k)' = IF Attempts[k] + 1 >= MaxRetry THEN "abandoned" ELSE "owed"
    BY <2>2, <2>3 DEF Stage, Exists, GivenUp
  <2>5. /\ Stages' = [Stages EXCEPT ![k] = IF Attempts[k] + 1 >= MaxRetry THEN "abandoned" ELSE "owed"]
        /\ Attempts' = [Attempts EXCEPT ![k] = Attempts[k] + 1]
    BY <1>1, <2>2, <2>3, <2>4, OneViewChanges
  <2>6. Promise!Fail(k)
    BY <1>1, <2>3, <2>5 DEF Promise!Fail
  <2> QED
    BY <1>1, <2>6 DEF Promise!Next, Promise!Keys, Keys
<1> QED
  BY <1>1, <1>2, <1>3

(* Where there is no row nothing has failed. *)
NoFailureYet == \A k \in Keys : ~Exists(k) => outbox[k].retryCount = 0

(* A notification starts without failures: processes charge only rows of the table. *)
THEOREM NothingFailedBefore == Spec => []NoFailureYet
<1>1. Init => NoFailureYet
  BY DEF Init, NoFailureYet, NoRow
<1>2. TypeOK /\ HeldRows /\ NoFailureYet /\ [Next]_vars => NoFailureYet'
  <2> SUFFICES ASSUME TypeOK, HeldRows, NoFailureYet, [Next]_vars, NEW k \in Keys, ~Exists(k)'
               PROVE  outbox'[k].retryCount = 0
    BY DEF NoFailureYet
  <2>1. ~Exists(k) /\ outbox[k].retryCount = 0 /\ outbox[k] \in Row
    BY RowsStay DEF NoFailureYet, TypeOK
  <2>2. ~Claims(k) /\ ~Completes(k) /\ ~Fails(k)
    BY <2>1, ConstantsAssumption DEF Claims, Claimable, Exists, Completes, Fails, HeldRows, HeldBy
  <2>3. Inserts(k) => outbox'[k].retryCount = 0
    BY DEF Inserts, NewRow
  <2>4. Reopens(k) \/ Unlinks(k) => outbox'[k].retryCount = 0
    BY <2>1, OtherFields DEF Reopens, Unlinks
  <2> QED
    BY <2>1, <2>2, <2>3, <2>4, RowChanges
<1> QED
  BY <1>1, <1>2, TypeCorrect, HeldRowsExist, PTL DEF Spec

(* Every step of the outbox is a step of NotificationDelivery or none. *)
LEMMA StepsDeliver ==
    ASSUME TypeOK, HeldRows, PublishedFirst, NoFailureYet, [Next]_vars
    PROVE  [Promise!Next]_(Promise!vars)
<1> USE DEF Promise!vars
<1>1. ASSUME UNCHANGED <<notification, outbox, relays>> PROVE UNCHANGED Promise!vars
  BY <1>1, ViewKept, ViewsKept DEF Inbox, Published
<1>2. ASSUME NEW d \in Dispatchers, CreateNotificationRecord(d)
      PROVE  [Promise!Next]_(Promise!vars)
  <2>1. relays' = relays
    BY <1>2 DEF CreateNotificationRecord, history
  <2>2. CASE UNCHANGED <<notification, outbox>>
    BY <1>1, <2>1, <2>2
  <2>3. CASE InsertBoth(dispatcher[d].key)
    <3>1. PICK k \in Keys : k = dispatcher[d].key
      BY <1>2 DEF CreateNotificationRecord, TypeOK, DispatcherState
    <3>2. /\ notification' = [notification EXCEPT ![k] = "PENDING"]
          /\ outbox' = [outbox EXCEPT ![k] = NewRow] /\ ~Exists(k)
      BY <2>3, <3>1 DEF InsertBoth
    <3>3. Inbox' = Inbox \cup {k}
      BY <3>1, <3>2 DEF Inbox, TypeOK
    <3>4. \A j \in Keys \ {k} : SameView(j)
      BY <3>2, ViewKept DEF TypeOK
    <3>5. outbox'[k] = NewRow
      BY <3>1, <3>2 DEF TypeOK
    <3>6. Stage(k)' = "owed" /\ outbox'[k].retryCount = 0
      BY <3>5 DEF Stage, Exists, GivenUp, NewRow
    <3>7. Stages[k] = "absent"
      BY <3>1, <3>2 DEF Stages, Stage
    <3>8. outbox[k].retryCount = 0
      BY <3>1, <3>2 DEF NoFailureYet
    <3>9. /\ Stages' = [Stages EXCEPT ![k] = "owed"]
          /\ Attempts' = Attempts
      BY <3>1, <3>4, <3>6, <3>8, OneViewChanges DEF Attempts
    <3>10. Published' = Published
      BY <2>1 DEF Published
    <3>11. Promise!Create(k)
      BY <3>3, <3>7, <3>9, <3>10 DEF Promise!Create
    <3> QED
      BY <3>1, <3>11 DEF Promise!Next, Promise!Keys, Keys
  <2> QED
    BY <1>2, <2>2, <2>3 DEF CreateNotificationRecord
<1>3. ASSUME NEW w \in Workers, ClaimPendingOutboxesForProcessing(w) PROVE UNCHANGED Promise!vars
  <2>1. \A k \in Keys : outbox'[k] = outbox[k] \/ Claims(k)
    BY <1>3, ClaimEffect DEF Claims
  <2>2. notification' = notification /\ relays' = relays
    BY <1>3, ClaimEffect
  <2> QED
    BY <2>1, <2>2, ViewKept, ViewsKept DEF Inbox, Published
<1>4. ASSUME NEW j \in Keys, RetryBecomesDue(j) \/ ClaimBecomesStale(j) PROVE UNCHANGED Promise!vars
  <2>1. \A k \in Keys : outbox'[k] = outbox[k] \/ Reopens(k)
    BY <1>4 DEF RetryBecomesDue, ClaimBecomesStale, Reopens, TypeOK
  <2>2. notification' = notification /\ relays' = relays
    BY <1>4 DEF RetryBecomesDue, ClaimBecomesStale
  <2> QED
    BY <2>1, <2>2, ViewKept, ViewsKept DEF Inbox, Published
<1>5. ASSUME NEW w \in Workers, PublishNotificationCreated(w) PROVE [Promise!Next]_(Promise!vars)
  <2> DEFINE k == worker[w].row
  <2>1. k \in Keys /\ Exists(k)
    BY <1>5, WorkerMoves, ConstantsAssumption DEF PublishNotificationCreated, HeldRows, HeldBy
  <2>2. notification' = notification /\ outbox' = outbox
    BY <1>5 DEF PublishNotificationCreated, store
  <2>3. Inbox' = Inbox /\ Stages' = Stages /\ Attempts' = Attempts
    BY <2>2, ViewKept, ViewsKept DEF Inbox
  <2>4. CASE relays' = relays
    BY <1>1, <2>2, <2>4
  <2>5. CASE relays' = [relays EXCEPT ![k] = Counted(@)]
    <3>1. Published' = Published \cup {k}
      BY <2>1, <2>5 DEF Published, Counted, TypeOK
    <3>2. Stages[k] # "absent"
      BY <2>1 DEF Stages, Stage
    <3>3. Promise!Publish(k)
      BY <2>3, <3>1, <3>2 DEF Promise!Publish
    <3> QED
      BY <2>1, <3>3 DEF Promise!Next, Promise!Keys, Keys
  <2> QED
    BY <1>5, <2>4, <2>5 DEF PublishNotificationCreated
<1>6. ASSUME NEW w \in Workers, MarkNotificationOutboxProcessed(w) PROVE [Promise!Next]_(Promise!vars)
  <2>0. PICK k \in Keys : k = worker[w].row
    BY <1>6, WorkerMoves DEF MarkNotificationOutboxProcessed
  <2>1. /\ worker[w].pc = "markProcessed"
        /\ UpdateOutbox(w, Processed(outbox[k]), Goto(w, "markSent"), Goto(w, "catchOutbox"))
    BY <1>6, <2>0 DEF MarkNotificationOutboxProcessed
  <2>2. /\ Inbox' = Inbox /\ Published' = Published
        /\ \A j \in Keys \ {k} : SameView(j)
        /\ outbox'[k] = Processed(outbox[k]) \/ \A j \in Keys : SameView(j)
    BY <2>0, <2>1, UpdateViews
  <2>3. CASE \A j \in Keys : SameView(j)
    BY <2>2, <2>3, ViewsKept
  <2>4. CASE outbox'[k] = Processed(outbox[k])
    <3>1. outbox'[k].status = "PROCESSED" /\ outbox'[k].retryCount = outbox[k].retryCount
      <4>1. outbox[k] \in Row
        BY DEF TypeOK
      <4> QED
        BY <2>4, <4>1, ProcessedFields
    <3>2. Stage(k)' = "delivered"
      BY <3>1 DEF Stage, Exists
    <3>3. Stages' = [Stages EXCEPT ![k] = "delivered"] /\ Attempts' = Attempts
      BY <2>2, <3>1, <3>2, OneViewChanges DEF Attempts
    <3>4. k \in Published
      BY <2>0, <2>1 DEF PublishedFirst, Published
    <3>5. Promise!Deliver(k)
      BY <2>2, <3>3, <3>4 DEF Promise!Deliver
    <3> QED
      BY <2>2, <3>5 DEF Promise!Next, Promise!Keys, Keys
  <2> QED
    BY <2>2, <2>3, <2>4
<1>7. ASSUME NEW w \in Workers, RejectRow(w) \/ MarkNotificationOutboxFailed(w)
      PROVE  [Promise!Next]_(Promise!vars)
  BY <1>7, FailureShows DEF RejectRow, MarkNotificationOutboxFailed
<1>8. ASSUME NEW w \in Workers, MarkSent(w) \/ MarkDeliveryFailed(w) PROVE UNCHANGED Promise!vars
  <2>1. /\ outbox' = outbox /\ relays' = relays
        /\ \/ notification' = notification
           \/ /\ notification[worker[w].row] # "NONE"
              /\ \E s \in DeliveryStatus : notification' = [notification EXCEPT ![worker[w].row] = s]
    BY <1>8 DEF MarkSent, MarkDeliveryFailed, UpdateNotificationDeliveryStatus, history, DeliveryStatus
  <2>2. Inbox' = Inbox
    BY <2>1 DEF Inbox, TypeOK, DeliveryStatus
  <2> QED
    BY <2>1, <2>2, ViewKept, ViewsKept DEF Published
<1>9. ASSUME NEW u \in Users, DeleteUser(u) PROVE [Promise!Next]_(Promise!vars)
  <2>1. \A k \in Keys : outbox'[k] = outbox[k] \/ Unlinks(k)
    BY <1>9 DEF DeleteUser, Unlinks
  <2>2. relays' = relays
    BY <1>9 DEF DeleteUser, history
  <2>3. Stages' = Stages /\ Attempts' = Attempts /\ Published' = Published
    BY <2>1, <2>2, ViewKept, ViewsKept DEF Published
  <2>4. Inbox' = {k \in Inbox : k[1] # u}
    BY <1>9 DEF DeleteUser, Inbox, UserOf
  <2>5. Promise!Forget(u)
    BY <2>3, <2>4 DEF Promise!Forget
  <2> QED
    BY <2>5 DEF Promise!Next
<1>10. ASSUME \/ \E d \in Dispatchers : \/ \E k \in Keys : FindNotificationByDedupeKey(d, k)
                                        \/ DispatchPublish(d) \/ DispatcherCrash(d)
              \/ \E w \in Workers : TakeRow(w) \/ FindNotificationById(w) \/ WorkerCrash(w)
              \/ UNCHANGED vars
       PROVE  UNCHANGED Promise!vars
  <2>1. UNCHANGED <<notification, outbox, relays>>
    BY <1>10 DEF FindNotificationByDedupeKey, DispatchPublish, DispatcherCrash, TakeRow,
       FindNotificationById, WorkerCrash, vars, store, history
  <2> QED
    BY <1>1, <2>1
<1> QED
  BY <1>2, <1>3, <1>4, <1>5, <1>6, <1>7, <1>8, <1>9, <1>10 DEF Next, WorkerStep, Clock

(* createAndDispatchNotification and processPendingOutboxes implement
   NotificationDelivery for any numbers of users, dispatches and processes:
   nothing counts as delivered before it was published, an attempt that fails
   is counted once, MaxRetry failures and nothing less give a notification up,
   and no step for one notification touches another. *)
THEOREM OutboxDelivers == Spec => Delivery
<1>1. Init => Promise!Init
  BY DEF Init, NoRow, Promise!Init, Promise!Keys, Keys, Inbox, Stages, Stage, Exists, Attempts, Published
<1>2. TypeOK /\ HeldRows /\ PublishedFirst /\ NoFailureYet /\ [Next]_vars
        => [Promise!Next]_(Promise!vars)
  BY StepsDeliver
<1> QED
  BY <1>1, <1>2, TypeCorrect, HeldRowsExist, PublicationComesFirst, NothingFailedBefore, PTL DEF Spec, Delivery, Promise!Spec

-----------------------------------------------------------------------------
(* What a process is committed to while it holds k: the row is PROCESSING until the
   process has written how the attempt ended, nothing was published before its turn
   came, and a notification is there only if its status will be written, too. *)
OnCourse(w, k) ==
    /\ notification[k] # "NONE" => k \in worker[w].linked
    /\ k \in worker[w].batch => outbox[k].status = "PROCESSING"
    /\ worker[w].row = k =>
         /\ worker[w].pc \in {"lookup", "publish", "reject", "markProcessed"}
              => outbox[k].status = "PROCESSING"
         /\ worker[w].pc = "reject" => notification[k] = "NONE"
         /\ worker[w].pc = "publish" => relays[k] = 0
         /\ worker[w].pc = "markSent" => outbox[k].status = "PROCESSED"
         /\ worker[w].pc = "catchDelivery" => outbox[k].status = "FAILED"
         /\ worker[w].pc = "catchOutbox" /\ notification[k] # "NONE"
              => outbox[k].status = "PROCESSING" /\ relays[k] = 0

(* A process is about to take the step pc for row k. *)
About(k, pc) == \E w \in Workers : worker[w].row = k /\ worker[w].pc = pc

(* k was published at most once, and then it is PROCESSED or about to be, or its
   notification is gone; the two status columns differ only while a process is about
   to write the second. *)
RowOnCourse(k) ==
    /\ relays[k] <= 1
    /\ relays[k] > 0 => \/ outbox[k].status = "PROCESSED"
                        \/ notification[k] = "NONE" /\ Exists(k)
                        \/ About(k, "markProcessed")
    /\ notification[k] # "NONE" =>
         /\ outbox[k].status = "PENDING" => notification[k] = "PENDING"
         /\ outbox[k].status = "PROCESSED" => notification[k] = "SENT" \/ About(k, "markSent")
         /\ outbox[k].status = "FAILED" => notification[k] = "FAILED" \/ About(k, "catchDelivery")
         /\ outbox[k].status = "PROCESSING" => Holders(k) # {}

Course(k) == RowOnCourse(k) /\ \A w \in Holders(k) : OnCourse(w, k)
OnCourseUnlessFaulty == faults = 0 => \A k \in Keys \ overran : Course(k)

(* A step that is not about k: its tables change at most by losing the notification,
   and a process that holds k still does, at the same point. *)
SameRow(k) ==
    /\ relays'[k] = relays[k]
    /\ outbox'[k].status = outbox[k].status
    /\ notification'[k] \in {notification[k], "NONE"}
SameHolding(v, k) ==
    /\ k \in worker'[v].batch <=> k \in worker[v].batch
    /\ worker'[v].row = k <=> worker[v].row = k
    /\ worker[v].row = k => worker'[v].pc = worker[v].pc
    /\ k \in worker[v].linked => k \in worker'[v].linked

(* Such a step leaves k on course. *)
LEMMA StaysOnCourse ==
    ASSUME NEW k \in Keys, Course(k), SameRow(k), \A v \in Workers : SameHolding(v, k)
    PROVE  Course(k)'
<1>1. Holders(k)' = Holders(k)
  BY DEF Holders, SameHolding
<1>2. ASSUME NEW pc PROVE About(k, pc) => About(k, pc)'
  BY DEF About, SameHolding
<1>3. RowOnCourse(k)'
  BY <1>1, <1>2 DEF Course, RowOnCourse, SameRow, Exists
<1>4. ASSUME NEW v \in Holders(k) PROVE OnCourse(v, k)'
  <2>1. v \in Workers /\ OnCourse(v, k) /\ SameHolding(v, k)
    BY DEF Course, Holders
  <2> QED
    BY <2>1 DEF OnCourse, SameRow, SameHolding
<1> QED
  BY <1>1, <1>3, <1>4 DEF Course

(* A process that works on another row holds k as before. *)
LEMMA OtherRow ==
    ASSUME TypeOK, NEW w \in Workers, NEW k \in Keys, worker[w].row # k,
           NEW pc, worker' = Goto(w, pc) \/ worker' = NextRow(w)
    PROVE  \A v \in Workers : SameHolding(v, k)
<1>1. k # NoKey
  BY KeyTypes
<1> QED
  BY <1>1, GotoFields, NextRowFields DEF SameHolding

(* An insertion, which finds no row, puts k on course: nobody holds a row that is not there. *)
LEMMA InsertedOnCourse ==
    ASSUME TypeOK, HeldRows, NEW k \in Keys, Course(k), Inserts(k),
           worker' = worker, relays' = relays
    PROVE  Course(k)'
<1>1. ~Exists(k) /\ notification[k] = "NONE" /\ k # NoKey
  BY KeyTypes DEF Inserts, InsertBoth
<1>2. Holders(k) = {}
  BY <1>1 DEF Holders, HeldRows, HeldBy
<1>3. \A pc : ~About(k, pc)
  BY <1>2 DEF About, Holders
<1>4. relays[k] = 0
  BY <1>1, <1>3 DEF Course, RowOnCourse, Exists, TypeOK
<1>5. outbox'[k].status = "PENDING" /\ notification'[k] = "PENDING"
  BY DEF Inserts, NewRow
<1>6. Holders(k)' = {}
  BY <1>2 DEF Holders
<1> QED
  BY <1>4, <1>5, <1>6 DEF Course, RowOnCourse

(* A claim keeps its rows on course: nobody held them, and they were not published yet
   or have lost their notification. *)
LEMMA ClaimOnCourse ==
    ASSUME TypeOK, HeldRows, Paired, Guarded, NEW k \in Keys, k \notin overran, Course(k),
           NEW w \in Workers, ClaimPendingOutboxesForProcessing(w)
    PROVE  Course(k)'
<1>0. outbox[k] \in Row /\ k # NoKey /\ relays[k] \in 0..2
  BY KeyTypes DEF TypeOK
<1>1. CASE k \in worker'[w].batch
  <2>1. Claimable(k)
    BY <1>1, ClaimEffect
  <2>2. Holders(k) = {}
    BY <2>1 DEF Claimable, Open, Guarded
  <2>3. \A pc : ~About(k, pc)
    BY <2>2 DEF About, Holders
  <2>4. /\ outbox'[k].status = "PROCESSING"
        /\ notification' = notification /\ relays' = relays
        /\ worker'[w].row = NoKey
    <3>1. outbox'[k] = [outbox[k] EXCEPT !.status = "PROCESSING", !.stale = FALSE]
      BY <1>1, ClaimEffect
    <3>2. outbox'[k].status = "PROCESSING"
      BY <1>0, <3>1, ClaimedFields
    <3> QED
      BY <3>2, ClaimEffect
  <2>5. notification[k] # "NONE" => k \in worker'[w].linked
    BY <1>1, ClaimEffect DEF Paired
  <2>6. \A v \in Workers \ {w} : v \notin Holders(k)'
    BY <2>2, ClaimEffect DEF Holders
  <2>7. w \in Holders(k)'
    BY <1>1 DEF Holders
  <2>8. \A v \in Holders(k)' : OnCourse(v, k)'
    BY <1>0, <2>4, <2>5, <2>6 DEF OnCourse, Holders
  <2>9. relays[k] > 0 => notification[k] = "NONE"
    BY <2>1, <2>3 DEF Course, RowOnCourse, Claimable
  <2>10. RowOnCourse(k)'
    BY <1>0, <2>4, <2>7, <2>9 DEF RowOnCourse, Course, Exists
  <2> QED
    BY <2>8, <2>10 DEF Course
<1>2. CASE k \notin worker'[w].batch
  <2>1. SameRow(k)
    BY <1>2, ClaimEffect DEF SameRow
  <2>2. worker[w].row = NoKey
    BY ClaimEffect DEF TypeOK
  <2>3. \A v \in Workers : SameHolding(v, k)
    <3>1. SameHolding(w, k)
      BY <1>0, <1>2, <2>2, ClaimEffect DEF SameHolding, HeldRows, HeldBy
    <3>2. ASSUME NEW v \in Workers \ {w} PROVE SameHolding(v, k)
      BY ClaimEffect DEF SameHolding
    <3> QED
      BY <3>1, <3>2
  <2> QED
    BY <2>1, <2>3, StaysOnCourse
<1> QED
  BY <1>1, <1>2

(* The head of the loop takes k up as the claim read it: without a notificationId only
   if its notification is gone. *)
LEMMA TakeOnCourse ==
    ASSUME TypeOK, HeldRows, Guarded, NEW k \in Keys, k \notin overran, Course(k),
           NEW w \in Workers, TakeRow(w)
    PROVE  Course(k)'
<1>0. k # NoKey /\ worker[w].row = NoKey
  BY KeyTypes, TakeEffect DEF TypeOK
<1>1. SameRow(k)
  BY TakeEffect DEF SameRow
<1>2. CASE worker'[w].row = k
  <2>1. k \in worker[w].batch /\ k \notin worker'[w].batch
    BY <1>2, TakeEffect
  <2>2. Holders(k) = {w} /\ OnCourse(w, k)
    BY <2>1 DEF Holders, Guarded, Course
  <2>3. Holders(k)' = {w}
    BY <1>2, <2>2, TakeEffect DEF Holders
  <2>4. \A pc : ~About(k, pc)
    BY <1>0, <2>2 DEF About, Holders
  <2>5. OnCourse(w, k)'
    BY <1>2, <2>1, <2>2, TakeEffect DEF OnCourse
  <2>6. RowOnCourse(k)'
    BY <2>3, <2>4, TakeEffect DEF RowOnCourse, Course, Exists
  <2> QED
    BY <2>3, <2>5, <2>6 DEF Course
<1>3. CASE worker'[w].row # k
  <2>1. \A v \in Workers : SameHolding(v, k)
    BY <1>0, <1>3, TakeEffect DEF SameHolding
  <2> QED
    BY <1>1, <2>1, StaysOnCourse
<1> QED
  BY <1>2, <1>3

(* The process that has k at hand is the only one to hold it, and knows where it stands. *)
LEMMA AtHand ==
    ASSUME TypeOK, HeldRows, Guarded, NEW k \in Keys, k \notin overran, Course(k),
           NEW w \in Workers, worker[w].row = k
    PROVE  /\ OnCourse(w, k) /\ Exists(k)
           /\ \A v \in Workers : v # w => worker[v].row # k /\ k \notin worker[v].batch
           /\ k \notin worker[w].batch
           /\ \A pc : About(k, pc) <=> worker[w].pc = pc
<1>1. k # NoKey
  BY KeyTypes
<1>2. Holders(k) = {w}
  BY DEF Holders, Guarded
<1>3. \A v \in Workers : v # w => worker[v].row # k /\ k \notin worker[v].batch
  BY <1>2 DEF Holders
<1>4. \A pc : About(k, pc) <=> worker[w].pc = pc
  BY <1>3 DEF About
<1> QED
  BY <1>1, <1>2, <1>3, <1>4 DEF Course, HeldRows, HeldBy

(* It stays the only one when it goes on with k, ... *)
LEMMA GoesOn ==
    ASSUME TypeOK, NEW k \in Keys, NEW w \in Workers, worker[w].row = k, k \notin worker[w].batch,
           \A v \in Workers : v # w => worker[v].row # k /\ k \notin worker[v].batch,
           NEW pc, worker' = Goto(w, pc)
    PROVE  /\ Holders(k)' = {w}
           /\ \A q : About(k, q)' <=> q = pc
           /\ worker'[w].pc = pc /\ worker'[w].linked = worker[w].linked
           /\ k \notin worker'[w].batch
<1>1. \A v \in Workers : v # w => worker'[v] = worker[v]
  BY GotoFields
<1>2. worker'[w].row = k /\ worker'[w].pc = pc
  BY GotoFields
<1>3. Holders(k)' = {w}
  BY <1>1, <1>2 DEF Holders
<1>4. \A q : About(k, q)' <=> q = pc
  BY <1>1, <1>2 DEF About
<1> QED
  BY <1>3, <1>4, GotoFields

(* ... and nobody holds k once it is dropped for the next row. *)
LEMMA LetsGo ==
    ASSUME TypeOK, NEW k \in Keys, NEW w \in Workers, worker[w].row = k, k \notin worker[w].batch,
           \A v \in Workers : v # w => worker[v].row # k /\ k \notin worker[v].batch,
           worker' = NextRow(w)
    PROVE  Holders(k)' = {}
<1>1. k # NoKey
  BY KeyTypes
<1> QED
  BY <1>1, NextRowFields DEF Holders

(* The lookup: a notification found there has not been published yet. *)
LEMMA LookupOnCourse ==
    ASSUME TypeOK, HeldRows, Guarded, NEW k \in Keys, k \notin overran, Course(k),
           NEW w \in Workers, worker[w].row = k, FindNotificationById(w), faults' = faults
    PROVE  Course(k)'
<1>0. faults \in Nat /\ relays[k] \in 0..2
  BY ConstantsAssumption DEF TypeOK
<1>1. UNCHANGED <<outbox, notification, relays>>
  BY DEF FindNotificationById, store, history
<1>2. /\ worker[w].pc = "lookup"
      /\ worker' = Goto(w, IF notification[k] = "NONE" THEN "reject" ELSE "publish")
  BY <1>0 DEF FindNotificationById, Fault
<1>3. OnCourse(w, k) /\ RowOnCourse(k)
  BY AtHand DEF Course
<1>4. notification[k] # "NONE" => relays[k] = 0
  BY <1>0, <1>2, <1>3, AtHand DEF OnCourse, RowOnCourse
<1>5. OnCourse(w, k)'
  BY <1>1, <1>2, <1>3, <1>4, AtHand, GoesOn DEF OnCourse
<1>6. RowOnCourse(k)'
  BY <1>0, <1>1, <1>2, <1>3, <1>4, AtHand, GoesOn DEF OnCourse, RowOnCourse, Exists
<1> QED
  BY <1>2, <1>5, <1>6, AtHand, GoesOn DEF Course

(* The publication is the first one; a refusal leaves the row PROCESSING. *)
LEMMA PublishOnCourse ==
    ASSUME TypeOK, HeldRows, Guarded, NEW k \in Keys, k \notin overran, Course(k),
           NEW w \in Workers, worker[w].row = k, PublishNotificationCreated(w), faults' = faults
    PROVE  Course(k)'
<1>0. faults \in Nat
  BY ConstantsAssumption DEF TypeOK
<1>1. UNCHANGED <<outbox, notification>>
  BY DEF PublishNotificationCreated, store
<1>2. OnCourse(w, k) /\ RowOnCourse(k)
  BY AtHand DEF Course
<1>3. worker[w].pc = "publish" /\ relays[k] = 0 /\ outbox[k].status = "PROCESSING"
  BY <1>2 DEF PublishNotificationCreated, OnCourse
<1>4. CASE worker' = Goto(w, "markProcessed") /\ relays' = [relays EXCEPT ![k] = Counted(@)]
  <2>1. relays'[k] = 1
    BY <1>3, <1>4 DEF TypeOK, Counted
  <2>2. OnCourse(w, k)'
    BY <1>1, <1>2, <1>3, <1>4, AtHand, GoesOn DEF OnCourse
  <2>3. RowOnCourse(k)'
    BY <1>1, <1>3, <1>4, <2>1, AtHand, GoesOn DEF RowOnCourse
  <2> QED
    BY <1>4, <2>2, <2>3, AtHand, GoesOn DEF Course
<1>5. CASE worker' = Goto(w, "catchOutbox") /\ relays' = relays
  <2>1. OnCourse(w, k)'
    BY <1>1, <1>2, <1>3, <1>5, AtHand, GoesOn DEF OnCourse
  <2>2. RowOnCourse(k)'
    BY <1>1, <1>3, <1>5, AtHand, GoesOn DEF RowOnCourse
  <2> QED
    BY <1>5, <2>1, <2>2, AtHand, GoesOn DEF Course
<1> QED
  BY <1>0, <1>4, <1>5 DEF PublishNotificationCreated, Fault

(* The row becomes PROCESSED before the notification becomes SENT. *)
LEMMA ProcessedOnCourse ==
    ASSUME TypeOK, HeldRows, Guarded, NEW k \in Keys, k \notin overran, Course(k),
           NEW w \in Workers, worker[w].row = k, MarkNotificationOutboxProcessed(w), faults' = faults
    PROVE  Course(k)'
<1>0. faults \in Nat /\ outbox[k] \in Row
  BY ConstantsAssumption DEF TypeOK
<1>1. UNCHANGED <<notification, relays>>
  BY DEF MarkNotificationOutboxProcessed, UpdateOutbox, history
<1>2. outbox'[k].status = "PROCESSED" /\ worker' = Goto(w, "markSent")
  <2>1. faults' # faults + 1
    BY <1>0
  <2>2. outbox'[k] = Processed(outbox[k])
    BY <2>1, UpdateEffect DEF MarkNotificationOutboxProcessed
  <2>3. outbox'[k].status = "PROCESSED"
    BY <1>0, <2>2, ProcessedFields
  <2> QED
    BY <2>1, <2>3, UpdateEffect DEF MarkNotificationOutboxProcessed
<1>3. OnCourse(w, k) /\ RowOnCourse(k)
  BY AtHand DEF Course
<1>4. OnCourse(w, k)'
  BY <1>1, <1>2, <1>3, AtHand, GoesOn DEF OnCourse
<1>5. RowOnCourse(k)'
  BY <1>1, <1>2, <1>3, AtHand, GoesOn DEF RowOnCourse
<1> QED
  BY <1>2, <1>4, <1>5, AtHand, GoesOn DEF Course

(* Only a row whose notification is gone is rejected. *)
LEMMA RejectOnCourse ==
    ASSUME TypeOK, HeldRows, Guarded, NEW k \in Keys, k \notin overran, Course(k),
           NEW w \in Workers, worker[w].row = k, RejectRow(w), faults' = faults
    PROVE  Course(k)'
<1>0. faults \in Nat /\ outbox[k] \in Row
  BY ConstantsAssumption DEF TypeOK
<1>1. UNCHANGED <<notification, relays>>
  BY DEF RejectRow, UpdateOutbox, history
<1>2. outbox'[k].status = "FAILED" /\ worker' = NextRow(w)
  <2>1. faults' # faults + 1
    BY <1>0
  <2>2. outbox'[k] = Failed(outbox[k])
    BY <2>1, UpdateEffect DEF RejectRow
  <2>3. outbox'[k].status = "FAILED"
    BY <1>0, <2>2, FailedFields
  <2> QED
    BY <2>1, <2>3, UpdateEffect DEF RejectRow
<1>3. notification[k] = "NONE"
  BY AtHand DEF OnCourse, RejectRow
<1>4. RowOnCourse(k)'
  BY <1>1, <1>2, <1>3 DEF Course, RowOnCourse, Exists
<1> QED
  BY <1>2, <1>4, AtHand, LetsGo DEF Course

(* The catch block: a row marked FAILED was not published, and its notification is
   marked next, or is gone. *)
LEMMA FailedOnCourse ==
    ASSUME TypeOK, HeldRows, Guarded, NEW k \in Keys, k \notin overran, Course(k),
           NEW w \in Workers, worker[w].row = k, MarkNotificationOutboxFailed(w), faults' = faults
    PROVE  Course(k)'
<1>0. faults \in Nat /\ outbox[k] \in Row /\ relays[k] \in 0..2
  BY ConstantsAssumption DEF TypeOK
<1>1. UNCHANGED <<notification, relays>>
  BY DEF MarkNotificationOutboxFailed, UpdateOutbox, history
<1>2. /\ outbox'[k].status = "FAILED" /\ worker[w].pc = "catchOutbox"
      /\ worker' = IF k \in worker[w].linked THEN Goto(w, "catchDelivery") ELSE NextRow(w)
  <2>1. faults' # faults + 1
    BY <1>0
  <2>2. outbox'[k] = Failed(outbox[k])
    BY <2>1, UpdateEffect DEF MarkNotificationOutboxFailed
  <2>3. outbox'[k].status = "FAILED"
    BY <1>0, <2>2, FailedFields
  <2> QED
    BY <2>1, <2>3, UpdateEffect DEF MarkNotificationOutboxFailed
<1>3. OnCourse(w, k) /\ RowOnCourse(k)
  BY AtHand DEF Course
<1>4. CASE k \in worker[w].linked
  <2>1. worker' = Goto(w, "catchDelivery")
    BY <1>2, <1>4
  <2>2. OnCourse(w, k)'
    BY <1>1, <1>2, <1>3, <2>1, AtHand, GoesOn DEF OnCourse
  <2>3. RowOnCourse(k)'
    BY <1>0, <1>1, <1>2, <1>3, <2>1, AtHand, GoesOn DEF OnCourse, RowOnCourse, Exists
  <2> QED
    BY <2>1, <2>2, <2>3, AtHand, GoesOn DEF Course
<1>5. CASE k \notin worker[w].linked
  <2>1. worker' = NextRow(w) /\ notification[k] = "NONE"
    BY <1>2, <1>3, <1>5 DEF OnCourse
  <2>2. RowOnCourse(k)'
    BY <1>0, <1>1, <1>2, <1>3, <2>1 DEF RowOnCourse, Exists
  <2> QED
    BY <2>1, <2>2, AtHand, LetsGo DEF Course
<1> QED
  BY <1>4, <1>5

(* SENT follows PROCESSED, and FAILED follows FAILED; a notification that is gone by
   then leaves its row behind. *)
LEMMA DeliveryOnCourse ==
    ASSUME TypeOK, HeldRows, Guarded, NEW k \in Keys, k \notin overran, Course(k),
           NEW w \in Workers, worker[w].row = k, MarkSent(w) \/ MarkDeliveryFailed(w), faults' = faults
    PROVE  Course(k)'
<1>0. faults \in Nat /\ relays[k] \in 0..2
  BY ConstantsAssumption DEF TypeOK
<1>1. UNCHANGED <<outbox, relays>>
  BY DEF MarkSent, MarkDeliveryFailed, UpdateNotificationDeliveryStatus, history
<1>2. OnCourse(w, k) /\ RowOnCourse(k) /\ Exists(k)
  BY AtHand DEF Course
<1>3. CASE notification[k] = "NONE" /\ MarkSent(w)
  <2>1. worker[w].pc = "markSent" /\ worker' = Goto(w, "catchOutbox") /\ notification' = notification
    BY <1>3 DEF MarkSent, UpdateNotificationDeliveryStatus
  <2>2. OnCourse(w, k)'
    BY <1>1, <1>2, <1>3, <2>1, AtHand, GoesOn DEF OnCourse
  <2>3. RowOnCourse(k)'
    BY <1>1, <1>2, <1>3, <2>1 DEF RowOnCourse, Exists
  <2> QED
    BY <2>1, <2>2, <2>3, AtHand, GoesOn DEF Course
<1>4. CASE notification[k] = "NONE" /\ MarkDeliveryFailed(w)
  <2>1. worker' = NextRow(w) /\ notification' = notification
    BY <1>4 DEF MarkDeliveryFailed, UpdateNotificationDeliveryStatus
  <2>2. RowOnCourse(k)'
    BY <1>1, <1>2, <1>4, <2>1 DEF RowOnCourse, Exists
  <2> QED
    BY <2>1, <2>2, AtHand, LetsGo DEF Course
<1>5. CASE notification[k] # "NONE" /\ MarkSent(w)
  <2>1. worker' = NextRow(w) /\ notification'[k] = "SENT" /\ outbox[k].status = "PROCESSED"
    BY <1>0, <1>2, <1>5 DEF MarkSent, UpdateNotificationDeliveryStatus, Fault, OnCourse, TypeOK
  <2>2. RowOnCourse(k)'
    BY <1>1, <1>2, <2>1 DEF RowOnCourse
  <2> QED
    BY <2>1, <2>2, AtHand, LetsGo DEF Course
<1>6. CASE notification[k] # "NONE" /\ MarkDeliveryFailed(w)
  <2>1. /\ worker' = NextRow(w) /\ notification'[k] = "FAILED" /\ outbox[k].status = "FAILED"
        /\ worker[w].pc = "catchDelivery"
    BY <1>0, <1>2, <1>6 DEF MarkDeliveryFailed, UpdateNotificationDeliveryStatus, Fault, OnCourse, TypeOK
  <2>2. relays[k] = 0
    BY <1>0, <1>2, <1>6, <2>1, AtHand DEF RowOnCourse
  <2>3. RowOnCourse(k)'
    BY <1>1, <2>1, <2>2 DEF RowOnCourse
  <2> QED
    BY <2>1, <2>3, AtHand, LetsGo DEF Course
<1> QED
  BY <1>3, <1>4, <1>5, <1>6

(* A step of a process for another row is not about k. *)
LEMMA OtherRowOnCourse ==
    ASSUME TypeOK, NEW k \in Keys, Course(k), NEW w \in Workers, worker[w].row # k,
           \/ FindNotificationById(w) \/ PublishNotificationCreated(w)
           \/ MarkNotificationOutboxProcessed(w) \/ RejectRow(w) \/ MarkNotificationOutboxFailed(w)
           \/ MarkSent(w) \/ MarkDeliveryFailed(w)
    PROVE  Course(k)'
<1>1. \E pc : worker' = Goto(w, pc) \/ worker' = NextRow(w)
  <2>1. CASE FindNotificationById(w) \/ PublishNotificationCreated(w)
    BY <2>1 DEF FindNotificationById, PublishNotificationCreated
  <2>2. CASE MarkNotificationOutboxProcessed(w) \/ RejectRow(w)
    BY <2>2 DEF MarkNotificationOutboxProcessed, RejectRow, UpdateOutbox
  <2>3. CASE MarkNotificationOutboxFailed(w)
    BY <2>3 DEF MarkNotificationOutboxFailed, UpdateOutbox
  <2>4. CASE MarkSent(w) \/ MarkDeliveryFailed(w)
    BY <2>4 DEF MarkSent, MarkDeliveryFailed, UpdateNotificationDeliveryStatus
  <2> QED
    BY <2>1, <2>2, <2>3, <2>4
<1>2. SameRow(k)
  <2>1. CASE FindNotificationById(w)
    BY <2>1 DEF FindNotificationById, store, history, SameRow
  <2>2. CASE PublishNotificationCreated(w)
    BY <2>2 DEF PublishNotificationCreated, store, SameRow, TypeOK
  <2>3. CASE MarkNotificationOutboxProcessed(w) \/ RejectRow(w) \/ MarkNotificationOutboxFailed(w)
    BY <2>3, UpdateEffect DEF MarkNotificationOutboxProcessed, RejectRow, MarkNotificationOutboxFailed, SameRow
  <2>4. CASE MarkSent(w) \/ MarkDeliveryFailed(w)
    BY <2>4 DEF MarkSent, MarkDeliveryFailed, UpdateNotificationDeliveryStatus, history, SameRow, TypeOK
  <2> QED
    BY <2>1, <2>2, <2>3, <2>4
<1> QED
  BY <1>1, <1>2, OtherRow, StaysOnCourse

(* Without faults every row that nobody overran stays on course: claims, the steps of
   processPendingOutboxes, dispatches, the clock and deletions. *)
THEOREM RowsOnCourse == Spec => []OnCourseUnlessFaulty
<1>1. Init => OnCourseUnlessFaulty
  <2> SUFFICES ASSUME Init, NEW k \in Keys PROVE Course(k)
    BY DEF OnCourseUnlessFaulty
  <2>1. Holders(k) = {}
    <3>1. k # NoKey
      BY KeyTypes
    <3> QED
      BY <3>1 DEF Init, Holders
  <2>2. relays[k] = 0 /\ notification[k] = "NONE"
    BY DEF Init
  <2> QED
    BY <2>1, <2>2 DEF Course, RowOnCourse
<1>2. TypeOK /\ HeldRows /\ Paired /\ Guarded /\ OnCourseUnlessFaulty /\ [Next]_vars
        => OnCourseUnlessFaulty'
  <2> SUFFICES ASSUME TypeOK, HeldRows, Paired, Guarded, OnCourseUnlessFaulty, [Next]_vars,
                      faults' = 0, NEW k \in Keys, k \notin overran'
               PROVE  Course(k)'
    BY DEF OnCourseUnlessFaulty
  <2>0. /\ faults = 0 /\ faults' = faults /\ k \notin overran
        /\ Course(k) /\ outbox[k] \in Row /\ k # NoKey
    BY FaultsGrow, OverranGrows, KeyTypes DEF OnCourseUnlessFaulty, TypeOK
  <2>1. worker' = worker => \A v \in Workers : SameHolding(v, k)
    BY DEF SameHolding
  <2>2. ASSUME NEW d \in Dispatchers, NEW j \in Keys,
               FindNotificationByDedupeKey(d, j) \/ DispatchPublish(d) \/ DispatcherCrash(d)
        PROVE  Course(k)'
    BY <2>0, <2>1, <2>2, StaysOnCourse
       DEF FindNotificationByDedupeKey, DispatchPublish, DispatcherCrash, store, history, SameRow
  <2>3. ASSUME NEW d \in Dispatchers, CreateNotificationRecord(d) PROVE Course(k)'
    <3>1. worker' = worker /\ relays' = relays
      BY <2>3 DEF CreateNotificationRecord, history
    <3>2. Inserts(k) \/ SameRow(k)
      BY <2>3, <3>1 DEF CreateNotificationRecord, InsertBoth, Inserts, SameRow, TypeOK
    <3> QED
      BY <2>0, <2>1, <3>1, <3>2, InsertedOnCourse, StaysOnCourse
  <2>4. ASSUME NEW w \in Workers, WorkerStep(w) PROVE Course(k)'
    <3>1. CASE ClaimPendingOutboxesForProcessing(w) \/ TakeRow(w)
      BY <2>0, <3>1, ClaimOnCourse, TakeOnCourse
    <3>2. CASE worker[w].row # k
      BY <2>0, <2>4, <3>1, <3>2, OtherRowOnCourse DEF WorkerStep
    <3>3. CASE worker[w].row = k
      BY <2>0, <2>4, <3>1, <3>3, LookupOnCourse, PublishOnCourse, ProcessedOnCourse, RejectOnCourse,
         FailedOnCourse, DeliveryOnCourse DEF WorkerStep
    <3> QED
      BY <3>2, <3>3
  <2>5. ASSUME NEW w \in Workers, WorkerCrash(w) PROVE FALSE
    BY <2>0, <2>5 DEF WorkerCrash, Fault
  <2>6. ASSUME NEW j \in Keys, RetryBecomesDue(j) \/ ClaimBecomesStale(j) PROVE Course(k)'
    <3>1. worker' = worker /\ notification' = notification /\ relays' = relays
      BY <2>6 DEF RetryBecomesDue, ClaimBecomesStale
    <3>2. outbox'[k].status = outbox[k].status
      <4>1. outbox'[k] \in {outbox[k], [outbox[k] EXCEPT !.due = TRUE], [outbox[k] EXCEPT !.stale = TRUE]}
        BY <2>6 DEF RetryBecomesDue, ClaimBecomesStale, TypeOK
      <4> QED
        BY <2>0, <4>1 DEF Row
    <3> QED
      BY <2>0, <2>1, <3>1, <3>2, StaysOnCourse DEF SameRow
  <2>7. ASSUME NEW u \in Users, DeleteUser(u) PROVE Course(k)'
    <3>1. worker' = worker /\ relays' = relays
      BY <2>7 DEF DeleteUser, history
    <3>2. outbox'[k].status = outbox[k].status /\ notification'[k] \in {notification[k], "NONE"}
      BY <2>0, <2>7, OtherFields DEF DeleteUser
    <3> QED
      BY <2>0, <2>1, <3>1, <3>2, StaysOnCourse DEF SameRow
  <2>8. CASE UNCHANGED vars
    BY <2>0, <2>1, <2>8, StaysOnCourse DEF vars, SameRow
  <2> QED
    BY <2>2, <2>3, <2>4, <2>5, <2>6, <2>7, <2>8 DEF Next, Clock
<1> QED
  BY <1>1, <1>2, TypeCorrect, HeldRowsExist, TablesPaired, GuardedRows, PTL DEF Spec

(* processPendingOutboxes: without faults, a row is published a second time only after a
   holder outlived its window, for any number of processes, rows and retries. *)
THEOREM RelaysOnce == Spec => []RelayedOnce
<1>1. OnCourseUnlessFaulty => RelayedOnce
  BY DEF OnCourseUnlessFaulty, Course, RowOnCourse, RelayedOnce
<1> QED
  BY <1>1, RowsOnCourse, PTL

(* The two status columns, which no transaction writes together, agree for every row no
   process holds, for any number of processes, rows and retries. *)
THEOREM ColumnsAgree == Spec => []AgreeAtRest
<1>1. TypeOK /\ Paired /\ OnCourseUnlessFaulty => AgreeAtRest
  <2> SUFFICES ASSUME TypeOK, Paired, OnCourseUnlessFaulty, faults = 0,
                      NEW k \in Keys, k \notin overran, notification[k] # "NONE", Holders(k) = {}
               PROVE  CASE outbox[k].status = "PENDING"    -> notification[k] = "PENDING"
                        [] outbox[k].status = "PROCESSED"  -> notification[k] = "SENT"
                        [] outbox[k].status = "FAILED"     -> notification[k] = "FAILED"
                        [] OTHER                           -> FALSE
    BY DEF AgreeAtRest
  <2>1. RowOnCourse(k) /\ \A pc : ~About(k, pc)
    BY DEF OnCourseUnlessFaulty, Course, Holders, About
  <2>2. outbox[k].status \in OutboxStatus
    BY DEF TypeOK, Row, Paired, Exists
  <2> QED
    BY <2>1, <2>2 DEF RowOnCourse, OutboxStatus
<1> QED
  BY <1>1, TypeCorrect, TablesPaired, RowsOnCourse, PTL
=============================================================================
