------------------------ MODULE NotificationDelivery ------------------------
(***************************************************************************)
(* What the outbox promises about notifications, without processes,        *)
(* claims, timers and crashes: a notification is created once; publishing  *)
(* it comes before it counts as delivered; every attempt may fail, and     *)
(* only MaxRetry failures give it up; it is forgotten with its user.  A    *)
(* late result of another attempt may replace the last one, and nothing    *)
(* that happens to one notification touches another.                       *)
(***************************************************************************)
EXTENDS Naturals

CONSTANTS Users, DedupeKeys, MaxRetry

Keys == Users \X DedupeKeys

VARIABLES
    inbox,      \* notifications in the inboxes of their users
    stage,      \* what is known of the delivery of each
    attempts,   \* failed attempts at each
    published   \* notifications published through the outbox

vars == <<inbox, stage, attempts, published>>

Init ==
    /\ inbox = {}
    /\ stage = [k \in Keys |-> "absent"]
    /\ attempts = [k \in Keys |-> 0]
    /\ published = {}

Create(k) ==
    /\ stage[k] = "absent"
    /\ inbox' = inbox \cup {k}
    /\ stage' = [stage EXCEPT ![k] = "owed"]
    /\ UNCHANGED <<attempts, published>>

Publish(k) ==
    /\ stage[k] # "absent"
    /\ published' = published \cup {k}
    /\ UNCHANGED <<inbox, stage, attempts>>

Deliver(k) ==
    /\ k \in published
    /\ stage' = [stage EXCEPT ![k] = "delivered"]
    /\ UNCHANGED <<inbox, attempts, published>>

Fail(k) ==
    /\ stage[k] # "absent"
    /\ attempts' = [attempts EXCEPT ![k] = @ + 1]
    /\ stage' = [stage EXCEPT ![k] = IF attempts[k] + 1 >= MaxRetry THEN "abandoned" ELSE "owed"]
    /\ UNCHANGED <<inbox, published>>

Forget(u) ==
    /\ inbox' = {k \in inbox : k[1] # u}
    /\ UNCHANGED <<stage, attempts, published>>

Next ==
    \/ \E k \in Keys : Create(k) \/ Publish(k) \/ Deliver(k) \/ Fail(k)
    \/ \E u \in Users : Forget(u)

Spec == Init /\ [][Next]_vars
=============================================================================
