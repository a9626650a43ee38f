--------------------------- MODULE AdminApproval ---------------------------
(***************************************************************************)
(* Registration, approval, deletion and cleanup of apartment managers      *)
(* (auth.service.ts with auth.repository.ts, apartment.repository.ts).     *)
(*                                                                         *)
(* A manager (a User with role ADMIN) registers together with the          *)
(* apartment he will run; both start PENDING and a super administrator     *)
(* decides them, one by one or all at once, and deletes managers or cleans *)
(* up the rejected ones together with their apartments.                    *)
(*                                                                         *)
(* Transactions run at PostgreSQL's default READ COMMITTED: a statement    *)
(* sees what is committed when it runs, a row that was written is locked   *)
(* until its transaction ends, and a statement that needs a locked row     *)
(* waits and then looks at it again.  A transaction whose effect depends   *)
(* on one statement only is one action; the bulk decision, whose list and  *)
(* two updates look at the tables at different times, and the cleanup,     *)
(* which reads its list before its transaction, are several.               *)
(***************************************************************************)
EXTENDS FiniteSets

CONSTANTS
  Admins,     \* ids of managers; user ids are uuids, so none comes back
  Requests    \* requests of super administrators that run at one time

VARIABLES
  admin,      \* admin[a]     : "NONE", User.joinStatus of a, or "DELETED"
  apartment,  \* apartment[a] : the same for the apartment registered with a
  entered,    \* managers who have logged in and hold a session
  authored,   \* managers who have written a comment
  request,    \* request[r]   : the request r is working on
  strayed     \* history: managers the last bulk decision met on one side only

tables == <<admin, apartment>>
vars == <<admin, apartment, entered, authored, request, strayed>>

Decisions == {"APPROVED", "REJECTED"}
Statuses == {"PENDING"} \cup Decisions
Row == {"NONE", "DELETED"} \cup Statuses

\* A bulk decision is "listed" after reading the pending managers and
\* "decided" after updating them, when it holds the locked rows.  A cleanup
\* is "cleaning" after reading the rejected managers.
Request == [pc     : {"idle", "listed", "decided", "cleaning"},
            status : Decisions,
            ids    : SUBSET Admins,
            locked : SUBSET Admins]

Idle == [pc |-> "idle", status |-> "APPROVED", ids |-> {}, locked |-> {}]

----------------------------------------------------------------------------
Exists(a) == admin[a] \in Statuses
Pending == {a \in Admins : admin[a] = "PENDING"}
\* Mutant: everybody who is not approved.
NotApproved == {a \in Admins : Exists(a) /\ admin[a] # "APPROVED"}
Rejected == {a \in Admins : admin[a] = "REJECTED"}

Locked(a) == \E r \in Requests : request[r].pc = "decided" /\ a \in request[r].locked

Init ==
  /\ admin = [a \in Admins |-> "NONE"]
  /\ apartment = [a \in Admins |-> "NONE"]
  /\ entered = {}
  /\ authored = {}
  /\ request = [r \in Requests |-> Idle]
  /\ strayed = {}

----------------------------------------------------------------------------
(* Managers.                                                                *)

\* createAdmin: apartment, manager and the link between them, in one
\* transaction.
CreateAdmin(a) ==
  /\ admin[a] = "NONE"
  /\ admin' = [admin EXCEPT ![a] = "PENDING"]
  /\ apartment' = [apartment EXCEPT ![a] = "PENDING"]
  /\ UNCHANGED <<entered, authored, request, strayed>>

\* login refuses PENDING and REJECTED; the session it opens outlives a later
\* rejection, which touches no token.
Login(a) ==
  /\ admin[a] = "APPROVED"
  /\ entered' = entered \cup {a}
  /\ UNCHANGED <<admin, apartment, authored, request, strayed>>

\* createComment and deleteComment of a manager with a session.
WriteComment(a) ==
  /\ Exists(a) /\ a \in entered
  /\ authored' = authored \cup {a}
  /\ UNCHANGED <<admin, apartment, entered, request, strayed>>

DeleteComments(a) ==
  /\ a \in authored
  /\ authored' = authored \ {a}
  /\ UNCHANGED <<admin, apartment, entered, request, strayed>>

----------------------------------------------------------------------------
(* Decisions.                                                               *)

\* Mutant: the apartment is forgotten.
UpdateAdminStatusOnly(a, status) ==
  /\ Exists(a) /\ ~Locked(a)
  /\ admin' = [admin EXCEPT ![a] = status]
  /\ strayed' = strayed \ {a}
  /\ UNCHANGED <<apartment, entered, authored, request>>

\* updateAdminStatus: of what findById reads only the apartment's id is used,
\* which never changes; the status is written to both rows even when it is
\* the same, to bring them back in step.
UpdateAdminStatus(a, status) ==
  /\ Exists(a) /\ ~Locked(a)
  /\ admin' = [admin EXCEPT ![a] = status]
  /\ apartment' = [apartment EXCEPT ![a] = status]
  /\ strayed' = strayed \ {a}
  /\ UNCHANGED <<entered, authored, request>>

\* bulkUpdateAdminStatus, first statement: the apartments of the pending
\* managers.
GetPendingAdminApartmentIds(r, status) ==
  /\ request[r].pc = "idle"
  /\ request' = [request EXCEPT ![r] = [pc |-> "listed", status |-> status,
                                        ids |-> Pending, locked |-> {}]]
  /\ UNCHANGED <<admin, apartment, entered, authored, strayed>>

\* Mutant: the managers of the list, as the apartments.
DecidableAsListed(r) == {a \in request[r].ids : Exists(a)}
\* The rows the second statement writes: the managers PENDING by then.
Decidable(r) == Pending

\* Second statement: the pending managers are updated; nobody sees it before
\* the commit, but until then nobody else can write them.
BulkUpdateAdminStatus(r) ==
  /\ request[r].pc = "listed"
  /\ \A a \in Decidable(r) : ~Locked(a)
  /\ request' = [request EXCEPT ![r] = [pc |-> "decided", status |-> request[r].status,
                                        ids |-> request[r].ids,
                                        locked |-> Decidable(r)]]
  /\ UNCHANGED <<admin, apartment, entered, authored, strayed>>

\* Third statement and commit: the apartments of the first statement's list
\* are updated, as far as they still exist.
BulkUpdateApartmentStatus(r) ==
  LET now == request[r] IN
  /\ now.pc = "decided"
  /\ admin' = [a \in Admins |-> IF a \in now.locked THEN now.status ELSE admin[a]]
  /\ apartment' = [a \in Admins |-> IF a \in now.ids /\ apartment[a] \in Statuses
                                    THEN now.status ELSE apartment[a]]
  /\ strayed' = (strayed \ (now.ids \cap now.locked))
                  \cup (now.ids \ now.locked) \cup (now.locked \ now.ids)
  /\ request' = [request EXCEPT ![r] = Idle]
  /\ UNCHANGED <<entered, authored>>

----------------------------------------------------------------------------
(* Deletion and cleanup.                                                    *)

\* Comment.authorId is a foreign key with ON DELETE RESTRICT, and no comment
\* goes with the apartment: its complaintId is never set.
Deletable(a) == a \notin authored

\* deleteAdmin: unlink, delete the apartment with all it holds, delete the
\* manager; a manager with comments makes the last statement fail and the
\* transaction roll back.
DeleteAdmin(a) ==
  /\ Exists(a) /\ ~Locked(a) /\ Deletable(a)
  /\ admin' = [admin EXCEPT ![a] = "DELETED"]
  /\ apartment' = [apartment EXCEPT ![a] = "DELETED"]
  /\ UNCHANGED <<entered, authored, request, strayed>>

\* adminClean lists the rejected managers before its transaction begins; with
\* an empty list it returns.
RejectedAdmin(r) ==
  /\ request[r].pc = "idle"
  /\ Rejected # {}
  /\ request' = [request EXCEPT ![r] = [pc |-> "cleaning", status |-> "REJECTED",
                                        ids |-> Rejected, locked |-> {}]]
  /\ UNCHANGED <<admin, apartment, entered, authored, strayed>>

\* Mutant: the managers' status is looked at again, the apartments' is not.
AdminCleanHalfRechecked(r) ==
  LET listed == request[r].ids IN
  /\ request[r].pc = "cleaning"
  /\ \A a \in listed : Exists(a) => ~Locked(a) /\ Deletable(a)
  /\ admin' = [a \in Admins |-> IF a \in listed \cap Rejected THEN "DELETED" ELSE admin[a]]
  /\ apartment' = [a \in Admins |-> IF a \in listed THEN "DELETED" ELSE apartment[a]]
  /\ request' = [request EXCEPT ![r] = Idle]
  /\ UNCHANGED <<entered, authored, strayed>>

\* The transaction of adminClean deletes by id alone: every listed manager
\* and apartment that still exists, whatever its status is by then.
AdminClean(r) ==
  LET listed == request[r].ids IN
  /\ request[r].pc = "cleaning"
  /\ \A a \in listed : Exists(a) => ~Locked(a) /\ Deletable(a)
  /\ admin' = [a \in Admins |-> IF a \in listed THEN "DELETED" ELSE admin[a]]
  /\ apartment' = [a \in Admins |-> IF a \in listed THEN "DELETED" ELSE apartment[a]]
  /\ request' = [request EXCEPT ![r] = Idle]
  /\ UNCHANGED <<entered, authored, strayed>>

\* One listed manager with comments fails the whole transaction.
AdminCleanFails(r) ==
  /\ request[r].pc = "cleaning"
  /\ \E a \in request[r].ids : Exists(a) /\ ~Deletable(a)
  /\ request' = [request EXCEPT ![r] = Idle]
  /\ UNCHANGED <<admin, apartment, entered, authored, strayed>>

\* Mutant: the rows stay locked.
AbortUnreleased(r) ==
  /\ request[r].pc # "idle"
  /\ request' = [request EXCEPT ![r].pc = "idle"]
  /\ UNCHANGED <<admin, apartment, entered, authored, strayed>>

\* A failed statement, a lost connection or a crash: the request ends, its
\* transaction is rolled back and its locks are gone.
Abort(r) ==
  /\ request[r].pc # "idle"
  /\ request' = [request EXCEPT ![r] = Idle]
  /\ UNCHANGED <<admin, apartment, entered, authored, strayed>>

----------------------------------------------------------------------------
AdminStep(a) ==
  \/ CreateAdmin(a)
  \/ Login(a)
  \/ WriteComment(a)
  \/ DeleteComments(a)
  \/ \E status \in Decisions : UpdateAdminStatus(a, status)
  \/ DeleteAdmin(a)

RequestStep(r) ==
  \/ \E status \in Decisions : GetPendingAdminApartmentIds(r, status)
  \/ BulkUpdateAdminStatus(r)
  \/ BulkUpdateApartmentStatus(r)
  \/ RejectedAdmin(r)
  \/ AdminClean(r)
  \/ AdminCleanFails(r)
  \/ Abort(r)

Next ==
  \/ \E a \in Admins : AdminStep(a)
  \/ \E r \in Requests : RequestStep(r)

Spec == Init /\ [][Next]_vars

----------------------------------------------------------------------------
(* What managers and apartments promise.                                    *)

\* Rows, lists and locks keep to their types; only a bulk decision between
\* its two updates holds locks.
TypeOK ==
  /\ admin \in [Admins -> Row]
  /\ apartment \in [Admins -> Row]
  /\ entered \subseteq Admins
  /\ authored \subseteq Admins
  /\ request \in [Requests -> Request]
  /\ \A r \in Requests : request[r].pc # "decided" => request[r].locked = {}
  /\ strayed \subseteq Admins

\* Manager and apartment live and die together ("so that no ghost data
\* remains", auth.service.ts:355): no decision revives one side of a pair
\* another request deletes, and no cleanup from an old list takes one side.
ApartmentWithAdmin ==
  \A a \in Admins : /\ admin[a] = "NONE" <=> apartment[a] = "NONE"
                    /\ admin[a] = "DELETED" <=> apartment[a] = "DELETED"

\* Manager and apartment have one status as long as the last bulk decision
\* that touched them found both or neither: its list of apartments and its
\* update of managers look at the tables at different times.  A decision on
\* the single manager repairs the pair.
InStepUnlessStrayed ==
  \A a \in Admins \ strayed : admin[a] = apartment[a]

\* What a super administrator decided for one manager is changed by another
\* decision for that manager only, never by a bulk decision for the pending
\* ones, however long ago that read its list.
DecisionsStand ==
  [][\A a \in Admins :
       admin[a] \in Decisions /\ admin'[a] \notin {admin[a], "DELETED"}
         => \E status \in Decisions : UpdateAdminStatus(a, status)]_vars

\* A manager nobody has decided on is never swept away with the rejected
\* ones.
UndecidedNotCleaned ==
  [][\A a \in Admins :
       admin[a] = "PENDING" /\ admin'[a] = "DELETED" => DeleteAdmin(a)]_vars
=============================================================================
