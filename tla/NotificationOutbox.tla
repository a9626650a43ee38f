------------------------- MODULE NotificationOutbox -------------------------
(***************************************************************************)
(* The transactional outbox of notifications.  Request handlers and jobs   *)
(* (Dispatchers) run createAndDispatchNotification; server processes       *)
(* (Workers) run processPendingOutboxes each time the repeated job of      *)
(* notification.worker.ts fires.  They share the tables User, Notification *)
(* and NotificationOutbox, and hand messages to one Redis channel.         *)
(*                                                                         *)
(* A step is one awaited call, with the local code up to the next await.   *)
(* Clock comparisons are kept as the flags they decide: `due' is           *)
(* availableAt <= now, `stale' is updatedAt <= now - 5 min.                *)
(* A failing database call may or may not have committed; such failures,   *)
(* lost Redis replies and process crashes are drawn from the budget        *)
(* MaxFaults.  A clean refusal by Redis is always possible.                *)
(***************************************************************************)
EXTENDS Naturals, FiniteSets

CONSTANTS
    Users,         \* ids of the users present initially
    DedupeKeys,    \* the dedupe keys TYPE:SOURCE:id
    Dispatchers,   \* concurrent executions of createAndDispatchNotification
    Workers,       \* processes consuming the notification queue
    Limit,         \* rows claimed at once (50)
    MaxRetry,      \* failures after which a row is no longer eligible (3)
    MaxFaults,     \* bound on crashes, failed database calls, lost replies
    NoKey          \* "no row at hand"

Keys == Users \X DedupeKeys          \* @@unique([userId, dedupeKey])
UserOf(k) == k[1]

ASSUME ConstantsAssumption ==
    /\ IsFiniteSet(Users) /\ IsFiniteSet(DedupeKeys) /\ IsFiniteSet(Workers)
    /\ Limit \in Nat \ {0} /\ MaxRetry \in Nat \ {0} /\ MaxFaults \in Nat
    /\ NoKey \notin Keys

VARIABLES
    users,         \* rows of User
    notification,  \* deliveryStatus of the Notification row, "NONE" without one
    outbox,        \* the NotificationOutbox row, status "NONE" without one
    dispatcher,    \* pc and key of each dispatch
    worker,        \* pc, remaining batch, row at hand, rows read with a notificationId
    faults,        \* faults spent
    direct,        \* history: keys the dispatcher published itself
    relays,        \* history: publications by workers, counted up to 2
    overran        \* history: rows that became claimable again under a live holder

store == <<users, notification, outbox>>
history == <<direct, relays, overran>>
vars == <<users, notification, outbox, dispatcher, worker, faults,
          direct, relays, overran>>

DeliveryStatus == {"PENDING", "SENT", "FAILED"}
OutboxStatus == {"PENDING", "PROCESSING", "PROCESSED", "FAILED"}
Row == [status : OutboxStatus \cup {"NONE"}, retryCount : Nat, linked : BOOLEAN,
        due : BOOLEAN, stale : BOOLEAN, createdAt : Nat]
DispatcherState == [pc : {"idle", "create", "publish"}, key : Keys \cup {NoKey}]
WorkerPc == {"ready", "reject", "lookup", "publish", "markProcessed", "markSent",
             "catchOutbox", "catchDelivery"}
WorkerState == [pc : WorkerPc, batch : SUBSET Keys, row : Keys \cup {NoKey},
                linked : SUBSET Keys]

Exists(k) == outbox[k].status # "NONE"
Holders(k) == {w \in Workers : k \in worker[w].batch \/ worker[w].row = k}

Fault == faults < MaxFaults /\ faults' = faults + 1

NoRow == [status |-> "NONE", retryCount |-> 0, linked |-> FALSE,
          due |-> FALSE, stale |-> FALSE, createdAt |-> 0]
IdleDispatcher == [pc |-> "idle", key |-> NoKey]
IdleWorker == [pc |-> "ready", batch |-> {}, row |-> NoKey, linked |-> {}]

Init ==
    /\ users = Users
    /\ notification = [k \in Keys |-> "NONE"]
    /\ outbox = [k \in Keys |-> NoRow]
    /\ dispatcher = [d \in Dispatchers |-> IdleDispatcher]
    /\ worker = [w \in Workers |-> IdleWorker]
    /\ faults = 0
    /\ direct = {}
    /\ relays = [k \in Keys |-> 0]
    /\ overran = {}

-----------------------------------------------------------------------------
(* createAndDispatchNotification *)

FindNotificationByDedupeKey(d, k) ==
    /\ dispatcher[d].pc = "idle"
    /\ UserOf(k) \in users
    /\ dispatcher' = IF notification[k] # "NONE" THEN dispatcher
                     ELSE [dispatcher EXCEPT ![d] = [pc |-> "create", key |-> k]]
    /\ UNCHANGED <<store, worker, faults, history>>

NewRow == [status |-> "PENDING", retryCount |-> 0, linked |-> TRUE, due |-> TRUE,
           stale |-> FALSE, createdAt |-> Cardinality({k \in Keys : Exists(k)})]

(* Mutant of InsertBoth: the outbox row is left out of the transaction. *)
InsertNotificationOnly(k) ==
    /\ UserOf(k) \in users /\ notification[k] = "NONE" /\ ~Exists(k)
    /\ notification' = [notification EXCEPT ![k] = "PENDING"]
    /\ outbox' = outbox

InsertBoth(k) ==
    /\ UserOf(k) \in users /\ notification[k] = "NONE" /\ ~Exists(k)
    /\ notification' = [notification EXCEPT ![k] = "PENDING"]
    /\ outbox' = [outbox EXCEPT ![k] = NewRow]

(* The transaction commits, or a unique or foreign key rejects it and the
   error reaches the caller, or the database fails around the commit. *)
CreateNotificationRecord(d) ==
    LET k == dispatcher[d].key
        abort == dispatcher' = [dispatcher EXCEPT ![d] = IdleDispatcher]
    IN  /\ dispatcher[d].pc = "create"
        /\ \/ /\ InsertBoth(k)
              /\ dispatcher' = [dispatcher EXCEPT ![d].pc = "publish"]
              /\ UNCHANGED faults
           \/ /\ UserOf(k) \notin users \/ notification[k] # "NONE" \/ Exists(k)
              /\ abort
              /\ UNCHANGED <<notification, outbox, faults>>
           \/ /\ Fault
              /\ InsertBoth(k) \/ UNCHANGED <<notification, outbox>>
              /\ abort
        /\ UNCHANGED <<users, worker, history>>

(* Best effort: the outcome is ignored. *)
DispatchPublish(d) ==
    /\ dispatcher[d].pc = "publish"
    /\ dispatcher' = [dispatcher EXCEPT ![d] = IdleDispatcher]
    /\ direct' \in {direct, direct \cup {dispatcher[d].key}}
    /\ UNCHANGED <<store, worker, faults, relays, overran>>

DispatcherCrash(d) ==
    /\ dispatcher[d].pc # "idle"
    /\ Fault
    /\ dispatcher' = [dispatcher EXCEPT ![d] = IdleDispatcher]
    /\ UNCHANGED <<store, worker, history>>

-----------------------------------------------------------------------------
(* processPendingOutboxes *)

(* Mutants of Claimable: one retry too many; any PROCESSING row is taken;
   a PROCESSING row is never taken again. *)
ClaimableOnceMore(k) ==
    /\ outbox[k].retryCount <= MaxRetry
    /\ \/ outbox[k].status \in {"PENDING", "FAILED"} /\ outbox[k].due
       \/ outbox[k].status = "PROCESSING" /\ outbox[k].stale
ClaimableWithoutLease(k) ==
    /\ outbox[k].retryCount < MaxRetry
    /\ \/ outbox[k].status \in {"PENDING", "FAILED"} /\ outbox[k].due
       \/ outbox[k].status = "PROCESSING"
ClaimableNeverAgain(k) ==
    /\ outbox[k].retryCount < MaxRetry
    /\ outbox[k].status \in {"PENDING", "FAILED"} /\ outbox[k].due

Claimable(k) ==
    /\ outbox[k].retryCount < MaxRetry
    /\ \/ outbox[k].status \in {"PENDING", "FAILED"} /\ outbox[k].due
       \/ outbox[k].status = "PROCESSING" /\ outbox[k].stale

(* One SELECT ... ORDER BY createdAt LIMIT n FOR UPDATE SKIP LOCKED and one
   UPDATE in a transaction.  A lost commit reply is a claim and a crash. *)
ClaimPendingOutboxesForProcessing(w) ==
    /\ worker[w].pc = "ready" /\ worker[w].batch = {}
    /\ LET eligible == {k \in Keys : Claimable(k)}
       IN  \E S \in SUBSET eligible :
             /\ Cardinality(S) <= Limit
             /\ Cardinality(S) = Limit \/ S = eligible
             /\ \A k \in S, j \in eligible \ S : outbox[k].createdAt < outbox[j].createdAt
             /\ outbox' = [k \in Keys |->
                              IF k \in S THEN [outbox[k] EXCEPT !.status = "PROCESSING", !.stale = FALSE]
                                         ELSE outbox[k]]
             /\ worker' = [worker EXCEPT ![w] =
                    [pc |-> "ready", batch |-> S, row |-> NoKey,
                     linked |-> {k \in S : outbox[k].linked}]]
    /\ UNCHANGED <<users, notification, dispatcher, faults, history>>

Goto(w, pc) == [worker EXCEPT ![w].pc = pc]
(* Mutant of NextRow: the row at hand is not dropped. *)
NextRowKeepingRow(w) == [worker EXCEPT ![w].pc = "ready"]
NextRow(w) == [worker EXCEPT ![w] =
    [pc |-> "ready", batch |-> @.batch, row |-> NoKey, linked |-> @.linked \ {@.row}]]

(* The head of the loop, with the test for a missing notificationId. *)
TakeRow(w) ==
    /\ worker[w].pc = "ready"
    /\ \E k \in worker[w].batch :
         /\ \A j \in worker[w].batch : outbox[k].createdAt <= outbox[j].createdAt
         /\ worker' = [worker EXCEPT ![w] =
                [pc |-> IF k \in @.linked THEN "lookup" ELSE "reject",
                 batch |-> @.batch \ {k}, row |-> k, linked |-> @.linked]]
    /\ UNCHANGED <<store, dispatcher, faults, history>>

FindNotificationById(w) ==
    /\ worker[w].pc = "lookup"
    /\ \/ /\ worker' = Goto(w, IF notification[worker[w].row] = "NONE" THEN "reject" ELSE "publish")
          /\ UNCHANGED faults
       \/ Fault /\ worker' = Goto(w, "catchOutbox")
    /\ UNCHANGED <<store, dispatcher, history>>

Counted(n) == IF n < 2 THEN n + 1 ELSE 2

(* Mutant of PublishNotificationCreated: a refusal by Redis is swallowed. *)
PublishBestEffort(w) ==
    /\ worker[w].pc = "publish"
    /\ relays' \in {relays, [relays EXCEPT ![worker[w].row] = Counted(@)]}
    /\ worker' = Goto(w, "markProcessed")
    /\ UNCHANGED <<store, dispatcher, faults, direct, overran>>

PublishNotificationCreated(w) ==
    LET sent == relays' = [relays EXCEPT ![worker[w].row] = Counted(@)]
    IN  /\ worker[w].pc = "publish"
        /\ \/ sent /\ worker' = Goto(w, "markProcessed") /\ UNCHANGED faults
           \/ worker' = Goto(w, "catchOutbox") /\ UNCHANGED <<relays, faults>>
           \/ Fault /\ sent /\ worker' = Goto(w, "catchOutbox")
        /\ UNCHANGED <<store, dispatcher, direct, overran>>

(* An UPDATE of the row at hand: it succeeds, or fails having committed or not. *)
UpdateOutbox(w, row, after, onError) ==
    LET written == [outbox EXCEPT ![worker[w].row] = row]
    IN  /\ \/ outbox' = written /\ worker' = after /\ UNCHANGED faults
           \/ Fault /\ outbox' \in {outbox, written} /\ worker' = onError
        /\ UNCHANGED <<users, notification, dispatcher, history>>

(* Mutants: the status is not written. *)
ProcessedWithoutStatus(r) == [r EXCEPT !.stale = FALSE]
FailedWithoutStatus(r) == [r EXCEPT !.retryCount = @ + 1, !.due = FALSE, !.stale = FALSE]
Processed(r) == [r EXCEPT !.status = "PROCESSED", !.stale = FALSE]
Failed(r) == [r EXCEPT !.status = "FAILED", !.retryCount = @ + 1, !.due = FALSE, !.stale = FALSE]

MarkNotificationOutboxProcessed(w) ==
    /\ worker[w].pc = "markProcessed"
    /\ UpdateOutbox(w, Processed(outbox[worker[w].row]), Goto(w, "markSent"), Goto(w, "catchOutbox"))

(* Missing notification: the early markFailed, then `continue'. *)
RejectRow(w) ==
    /\ worker[w].pc = "reject"
    /\ UpdateOutbox(w, Failed(outbox[worker[w].row]), NextRow(w), Goto(w, "catchOutbox"))

(* Mutant of MarkNotificationOutboxFailed: deliveryStatus is not updated. *)
MarkFailedOutboxOnly(w) ==
    /\ worker[w].pc = "catchOutbox"
    /\ UpdateOutbox(w, Failed(outbox[worker[w].row]), NextRow(w), NextRow(w))

(* markFailed of the catch block; its own failure is only logged. *)
MarkNotificationOutboxFailed(w) ==
    /\ worker[w].pc = "catchOutbox"
    /\ UpdateOutbox(w, Failed(outbox[worker[w].row]),
                    IF worker[w].row \in worker[w].linked THEN Goto(w, "catchDelivery") ELSE NextRow(w),
                    NextRow(w))

(* prisma.notification.update throws when the user's rows have been cascaded. *)
UpdateNotificationDeliveryStatus(w, at, status, onError) ==
    LET k == worker[w].row
        written == [notification EXCEPT ![k] = status]
    IN  /\ worker[w].pc = at
        /\ \/ notification[k] # "NONE" /\ notification' = written
              /\ worker' = NextRow(w) /\ UNCHANGED faults
           \/ notification[k] = "NONE" /\ UNCHANGED <<notification, faults>> /\ worker' = onError
           \/ /\ notification[k] # "NONE" /\ Fault
              /\ notification' \in {notification, written} /\ worker' = onError
        /\ UNCHANGED <<users, outbox, dispatcher, history>>

MarkSent(w) == UpdateNotificationDeliveryStatus(w, "markSent", "SENT", Goto(w, "catchOutbox"))
MarkDeliveryFailed(w) == UpdateNotificationDeliveryStatus(w, "catchDelivery", "FAILED", NextRow(w))

WorkerCrash(w) ==
    /\ worker[w] # IdleWorker
    /\ Fault
    /\ worker' = [worker EXCEPT ![w] = IdleWorker]
    /\ UNCHANGED <<store, dispatcher, history>>

-----------------------------------------------------------------------------
(* The environment: the clock, and deletion of a user by the other services. *)

Watch(k) == overran' = IF Holders(k) # {} THEN overran \cup {k} ELSE overran

RetryBecomesDue(k) ==
    /\ outbox[k].status = "FAILED" /\ ~outbox[k].due
    /\ outbox' = [outbox EXCEPT ![k].due = TRUE]
    /\ Watch(k)
    /\ UNCHANGED <<users, notification, dispatcher, worker, faults, direct, relays>>

ClaimBecomesStale(k) ==
    /\ outbox[k].status = "PROCESSING" /\ ~outbox[k].stale
    /\ outbox' = [outbox EXCEPT ![k].stale = TRUE]
    /\ Watch(k)
    /\ UNCHANGED <<users, notification, dispatcher, worker, faults, direct, relays>>

(* Notification: onDelete Cascade; NotificationOutbox: onDelete SetNull. *)
DeleteUser(u) ==
    /\ u \in users
    /\ users' = users \ {u}
    /\ notification' = [k \in Keys |-> IF UserOf(k) = u THEN "NONE" ELSE notification[k]]
    /\ outbox' = [k \in Keys |-> IF UserOf(k) = u THEN [outbox[k] EXCEPT !.linked = FALSE]
                                                  ELSE outbox[k]]
    /\ UNCHANGED <<dispatcher, worker, faults, history>>

-----------------------------------------------------------------------------
WorkerStep(w) ==
    \/ ClaimPendingOutboxesForProcessing(w)
    \/ TakeRow(w)
    \/ FindNotificationById(w)
    \/ PublishNotificationCreated(w)
    \/ MarkNotificationOutboxProcessed(w)
    \/ RejectRow(w)
    \/ MarkNotificationOutboxFailed(w)
    \/ MarkSent(w)
    \/ MarkDeliveryFailed(w)

Clock == \E k \in Keys : RetryBecomesDue(k) \/ ClaimBecomesStale(k)

Next ==
    \/ \E d \in Dispatchers :
         \/ \E k \in Keys : FindNotificationByDedupeKey(d, k)
         \/ CreateNotificationRecord(d)
         \/ DispatchPublish(d)
         \/ DispatcherCrash(d)
    \/ \E w \in Workers : WorkerStep(w) \/ WorkerCrash(w)
    \/ Clock
    \/ \E u \in Users : DeleteUser(u)

Spec == Init /\ [][Next]_vars

(* The job repeats every 60 s and its processes are restarted; clocks advance. *)
Fairness ==
    /\ \A w \in Workers : WF_vars(WorkerStep(w))
    /\ \A k \in Keys : WF_vars(RetryBecomesDue(k)) /\ WF_vars(ClaimBecomesStale(k))

FairSpec == Spec /\ Fairness

-----------------------------------------------------------------------------
(* Types: the tables hold the values their columns admit, and a process that
   is inside a loop iteration has a row at hand. *)
TypeOK ==
    /\ users \subseteq Users
    /\ notification \in [Keys -> DeliveryStatus \cup {"NONE"}]
    /\ outbox \in [Keys -> Row]
    /\ dispatcher \in [Dispatchers -> DispatcherState]
    /\ worker \in [Workers -> WorkerState]
    /\ faults \in 0..MaxFaults
    /\ direct \subseteq Keys
    /\ relays \in [Keys -> 0..2]
    /\ overran \subseteq Keys
    /\ \A w \in Workers : worker[w].row = NoKey <=> worker[w].pc = "ready"
    /\ \A d \in Dispatchers : dispatcher[d].key = NoKey <=> dispatcher[d].pc = "idle"

(* The transaction of createNotifiacationRecord and the two onDelete rules
   keep the tables paired: a notification always has its outbox row, and a
   row still refers to a notification exactly while that one exists. *)
Paired == \A k \in Keys : (notification[k] # "NONE") <=> (Exists(k) /\ outbox[k].linked)

(* Workers that may still add a failure to k's retryCount. *)
Charging(k) == {w \in Workers : \/ k \in worker[w].batch
                                \/ worker[w].row = k /\ worker[w].pc # "catchDelivery"}

(* Rows are claimed below MaxRetry and charged later, without looking again:
   slow processes can push retryCount past the limit, but by no more than one
   failure per process and per fault. *)
RetryBound ==
    \A k \in Keys :
        outbox[k].retryCount + Cardinality(Charging(k)) <= MaxRetry - 1 + Cardinality(Workers) + faults

(* No row is stranded: one left in PROCESSING by a crash still has a retry
   left, so that the stale claim branch will take it up again. *)
NeverStranded == \A k \in Keys : outbox[k].status = "PROCESSING" => outbox[k].retryCount < MaxRetry

(* Neither table claims a delivery that did not happen: PROCESSED and SENT
   are only written behind a publication of that very notification, whatever
   crashes, stale claims and deletions come in between. *)
NoFalseDelivery ==
    \A k \in Keys :
        outbox[k].status = "PROCESSED" \/ notification[k] = "SENT" => relays[k] > 0

(* SKIP LOCKED and the status change make a claim exclusive: two processes
   hold a row only after a holder outlived the 5 min (or 60 s) window. *)
ExclusiveClaim == \A k \in Keys \ overran : \A v, w \in Holders(k) : v = w

(* Without faults and overruns the outbox relays a notification once. *)
RelayedOnce == faults = 0 => \A k \in Keys \ overran : relays[k] <= 1

(* Without faults and overruns the two status columns agree whenever no
   process holds the row: the user sees FAILED exactly for a failed row, and
   SENT for a processed one. *)
AgreeAtRest ==
    faults = 0 =>
        \A k \in Keys \ overran :
            notification[k] # "NONE" /\ Holders(k) = {} =>
                CASE outbox[k].status = "PENDING"    -> notification[k] = "PENDING"
                  [] outbox[k].status = "PROCESSED"  -> notification[k] = "SENT"
                  [] outbox[k].status = "FAILED"     -> notification[k] = "FAILED"
                  [] OTHER                           -> FALSE

(* Published, or given up after MaxRetry failures. *)
GivenUp(k) == outbox[k].status = "FAILED" /\ outbox[k].retryCount >= MaxRetry
Settled(k) == outbox[k].status = "PROCESSED" \/ GivenUp(k)

(* Every notification that is created is in the end published or given up
   for good, in spite of crashes: no row is forgotten or retried forever. *)
EventuallySettled == \A k \in Keys : Exists(k) ~> []Settled(k)

(* What NotificationDelivery knows of these tables: who finds a notification
   in his inbox, where its delivery stands, how often it failed, and what was
   published by the workers. *)
Inbox == {k \in Keys : notification[k] # "NONE"}
Stage(k) == IF ~Exists(k) THEN "absent"
            ELSE IF outbox[k].status = "PROCESSED" THEN "delivered"
            ELSE IF GivenUp(k) THEN "abandoned" ELSE "owed"
Stages == [k \in Keys |-> Stage(k)]
Attempts == [k \in Keys |-> outbox[k].retryCount]
Published == {k \in Keys : relays[k] > 0}

Promise == INSTANCE NotificationDelivery WITH
    inbox <- Inbox, stage <- Stages, attempts <- Attempts, published <- Published

(* processPendingOutboxes and createAndDispatchNotification keep the promise
   of NotificationDelivery: claims, retries, overruns and crashes add nothing
   to what happens to a notification, and no step for one row of a batch
   reaches another (notification.outbox.service.ts:6-47). *)
Delivery == Promise!Spec

(* The comments at notification.dispatcher.service.ts:21 and :25 promise
   delivery through the outbox whatever the direct publication does: a
   notification that nobody published is never given up. *)
GuaranteedDelivery ==
    \A k \in Keys :
        notification[k] # "NONE" /\ outbox[k].status = "FAILED" /\ outbox[k].retryCount >= MaxRetry
            => k \in direct \/ relays[k] > 0
=============================================================================
