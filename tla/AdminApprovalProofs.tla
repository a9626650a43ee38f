------------------------ MODULE AdminApprovalProofs ------------------------
(***************************************************************************)
(* Proofs about AdminApproval, for any managers and any number of requests *)
(* of super administrators at one time.                                    *)
(***************************************************************************)
EXTENDS AdminApproval, TLAPS

\* Every step is an action of a manager or of a request; the cases all proofs below
\* go through.
LEMMA Steps ==
  ASSUME Next
  PROVE  \/ \E a \in Admins : CreateAdmin(a) \/ DeleteAdmin(a)
         \/ \E a \in Admins : Login(a) \/ WriteComment(a) \/ DeleteComments(a)
         \/ \E a \in Admins, status \in Decisions : UpdateAdminStatus(a, status)
         \/ \E r \in Requests, status \in Decisions : GetPendingAdminApartmentIds(r, status)
         \/ \E r \in Requests : BulkUpdateAdminStatus(r)
         \/ \E r \in Requests : BulkUpdateApartmentStatus(r)
         \/ \E r \in Requests : RejectedAdmin(r)
         \/ \E r \in Requests : AdminClean(r)
         \/ \E r \in Requests : AdminCleanFails(r) \/ Abort(r)
  BY DEF Next, AdminStep, RequestStep

----------------------------------------------------------------------------
(* Types.                                                                   *)

\* Every state of every behaviour is well typed.
THEOREM TypeCorrect == Spec => []TypeOK
<1>1. Init => TypeOK
  BY DEF Init, TypeOK, Row, Statuses, Decisions, Request, Idle
<1>2. TypeOK /\ [Next]_vars => TypeOK'
  <2> SUFFICES ASSUME TypeOK, [Next]_vars PROVE TypeOK'
    OBVIOUS
  <2> USE DEF TypeOK, Row, Statuses, Decisions, Request
  <2>1. CASE \E a \in Admins : CreateAdmin(a) \/ DeleteAdmin(a)
    BY <2>1 DEF CreateAdmin, DeleteAdmin
  <2>2. CASE \E a \in Admins : Login(a) \/ WriteComment(a) \/ DeleteComments(a)
    BY <2>2 DEF Login, WriteComment, DeleteComments
  <2>3. CASE \E a \in Admins, status \in Decisions : UpdateAdminStatus(a, status)
    BY <2>3 DEF UpdateAdminStatus
  <2>4. CASE \E r \in Requests, status \in Decisions : GetPendingAdminApartmentIds(r, status)
    BY <2>4 DEF GetPendingAdminApartmentIds, Pending
  <2>5. CASE \E r \in Requests : BulkUpdateAdminStatus(r)
    BY <2>5 DEF BulkUpdateAdminStatus, Decidable, Pending
  <2>6. CASE \E r \in Requests : BulkUpdateApartmentStatus(r)
    BY <2>6 DEF BulkUpdateApartmentStatus, Idle
  <2>7. CASE \E r \in Requests : RejectedAdmin(r)
    BY <2>7 DEF RejectedAdmin, Rejected
  <2>8. CASE \E r \in Requests : AdminClean(r)
    BY <2>8 DEF AdminClean, Idle
  <2>9. CASE \E r \in Requests : AdminCleanFails(r) \/ Abort(r)
    BY <2>9 DEF AdminCleanFails, Abort, Idle
  <2>10. CASE UNCHANGED vars
    BY <2>10 DEF vars
  <2> QED
    BY <2>1, <2>2, <2>3, <2>4, <2>5, <2>6, <2>7, <2>8, <2>9, <2>10, Steps
<1> QED
  BY <1>1, <1>2, PTL DEF Spec

----------------------------------------------------------------------------
(* Locks: what a bulk decision may rely on between its two updates.         *)

\* The rows a bulk decision has updated and not yet committed are those of managers
\* who are still PENDING to everybody else, and no row is held twice.
LocksHeld ==
  \A r \in Requests : request[r].pc = "decided" =>
    /\ \A a \in request[r].locked : admin[a] = "PENDING"
    /\ \A s \in Requests \ {r} :
         request[s].pc = "decided" => request[s].locked \cap request[r].locked = {}

\* Row locks do their work: nothing changes a pending row between its update in a bulk
\* decision and the commit.
LEMMA LocksStep ==
  ASSUME TypeOK, LocksHeld, [Next]_vars
  PROVE  LocksHeld'
<1> USE DEF TypeOK, LocksHeld, Request
<1>1. CASE \E a \in Admins : CreateAdmin(a) \/ DeleteAdmin(a)
  BY <1>1 DEF CreateAdmin, DeleteAdmin, Locked
<1>2. CASE \E a \in Admins : Login(a) \/ WriteComment(a) \/ DeleteComments(a)
  BY <1>2 DEF Login, WriteComment, DeleteComments
<1>3. CASE \E a \in Admins, status \in Decisions : UpdateAdminStatus(a, status)
  BY <1>3 DEF UpdateAdminStatus, Locked
<1>4. CASE \E r \in Requests, status \in Decisions : GetPendingAdminApartmentIds(r, status)
  BY <1>4 DEF GetPendingAdminApartmentIds
<1>5. CASE \E r \in Requests : BulkUpdateAdminStatus(r)
  BY <1>5 DEF BulkUpdateAdminStatus, Decidable, Pending, Locked
<1>6. CASE \E r \in Requests : BulkUpdateApartmentStatus(r)
  BY <1>6 DEF BulkUpdateApartmentStatus, Idle
<1>7. CASE \E r \in Requests : RejectedAdmin(r)
  BY <1>7 DEF RejectedAdmin
<1>8. CASE \E r \in Requests : AdminClean(r)
  BY <1>8 DEF AdminClean, Idle, Locked, Exists, Statuses
<1>9. CASE \E r \in Requests : AdminCleanFails(r) \/ Abort(r)
  BY <1>9 DEF AdminCleanFails, Abort, Idle
<1>10. CASE UNCHANGED vars
  BY <1>10 DEF vars
<1> QED
  BY <1>1, <1>2, <1>3, <1>4, <1>5, <1>6, <1>7, <1>8, <1>9, <1>10, Steps

\* In every behaviour the rows of an uncommitted bulk decision stay as it met them.
THEOREM LocksAreHeld == Spec => []LocksHeld
<1>1. Init => LocksHeld
  BY DEF Init, LocksHeld, Idle
<1>2. TypeOK /\ LocksHeld /\ [Next]_vars => LocksHeld'
  BY LocksStep
<1> QED
  BY <1>1, <1>2, TypeCorrect, PTL DEF Spec

----------------------------------------------------------------------------
(* Pairs of manager and apartment.                                          *)

\* Together with the locks, a pair lives and dies as one.
LEMMA PairStep ==
  ASSUME TypeOK, LocksHeld, ApartmentWithAdmin, [Next]_vars
  PROVE  ApartmentWithAdmin'
<1> USE DEF TypeOK, ApartmentWithAdmin, Row, Statuses, Decisions
<1>1. CASE \E a \in Admins : CreateAdmin(a) \/ DeleteAdmin(a)
  BY <1>1 DEF CreateAdmin, DeleteAdmin
<1>2. CASE \E a \in Admins, status \in Decisions : UpdateAdminStatus(a, status)
  BY <1>2 DEF UpdateAdminStatus, Exists
<1>3. CASE \E r \in Requests : BulkUpdateApartmentStatus(r)
  <2> PICK r \in Requests : BulkUpdateApartmentStatus(r)
    BY <1>3
  <2>1. \A a \in request[r].locked : admin[a] = "PENDING"
    BY DEF BulkUpdateApartmentStatus, LocksHeld
  <2>2. request[r].status \in Decisions
    BY DEF Request
  <2> QED
    BY <2>1, <2>2 DEF BulkUpdateApartmentStatus
<1>4. CASE \E r \in Requests : AdminClean(r)
  BY <1>4 DEF AdminClean
<1>5. CASE UNCHANGED <<admin, apartment>>
  BY <1>5
<1> QED
  BY <1>1, <1>2, <1>3, <1>4, <1>5, Steps
     DEF vars, Login, WriteComment, DeleteComments, GetPendingAdminApartmentIds,
         BulkUpdateAdminStatus, RejectedAdmin, AdminCleanFails, Abort

\* No decision, deletion or cleanup, from however old a list, leaves a manager without
\* his apartment or an apartment without its manager.
THEOREM PairsStay == Spec => []ApartmentWithAdmin
<1>1. Init => ApartmentWithAdmin
  BY DEF Init, ApartmentWithAdmin
<1>2. TypeOK /\ LocksHeld /\ ApartmentWithAdmin /\ [Next]_vars => ApartmentWithAdmin'
  BY PairStep
<1> QED
  BY <1>1, <1>2, TypeCorrect, LocksAreHeld, PTL DEF Spec

\* A step keeps the two sides of every pair in step, except those it adds to strayed.
LEMMA InStepStep ==
  ASSUME TypeOK, LocksHeld, ApartmentWithAdmin, InStepUnlessStrayed, [Next]_vars
  PROVE  InStepUnlessStrayed'
<1> USE DEF TypeOK, InStepUnlessStrayed
<1>1. CASE \E a \in Admins : CreateAdmin(a) \/ DeleteAdmin(a)
  BY <1>1 DEF CreateAdmin, DeleteAdmin
<1>2. CASE \E a \in Admins, status \in Decisions : UpdateAdminStatus(a, status)
  BY <1>2 DEF UpdateAdminStatus
<1>3. CASE \E r \in Requests : BulkUpdateApartmentStatus(r)
  <2> PICK r \in Requests : BulkUpdateApartmentStatus(r)
    BY <1>3
  <2>1. \A a \in request[r].locked : admin[a] = "PENDING"
    BY DEF BulkUpdateApartmentStatus, LocksHeld
  <2>2. \A a \in Admins \cap request[r].locked : apartment[a] \in Statuses
    BY <2>1 DEF ApartmentWithAdmin, Row
  <2> TAKE a \in (Admins \ strayed)'
  <2>3. CASE a \in request[r].ids \cap request[r].locked
    BY <2>2, <2>3 DEF BulkUpdateApartmentStatus
  <2>4. CASE a \notin request[r].ids \cup request[r].locked
    BY <2>4 DEF BulkUpdateApartmentStatus
  <2> QED
    BY <2>3, <2>4 DEF BulkUpdateApartmentStatus
<1>4. CASE \E r \in Requests : AdminClean(r)
  BY <1>4 DEF AdminClean
<1>5. CASE UNCHANGED <<admin, apartment, strayed>>
  BY <1>5
<1> QED
  BY <1>1, <1>2, <1>3, <1>4, <1>5, Steps
     DEF vars, Login, WriteComment, DeleteComments, GetPendingAdminApartmentIds,
         BulkUpdateAdminStatus, RejectedAdmin, AdminCleanFails, Abort

\* Manager and apartment disagree only where the last bulk decision found one side of
\* the pair and not the other.
THEOREM PairsInStep == Spec => []InStepUnlessStrayed
<1>1. Init => InStepUnlessStrayed
  BY DEF Init, InStepUnlessStrayed
<1>2. TypeOK /\ LocksHeld /\ ApartmentWithAdmin /\ InStepUnlessStrayed /\ [Next]_vars
        => InStepUnlessStrayed'
  BY InStepStep
<1> QED
  BY <1>1, <1>2, TypeCorrect, LocksAreHeld, PairsStay, PTL DEF Spec

----------------------------------------------------------------------------
(* Decisions and cleanup.                                                   *)

\* The decision on one manager is overturned by a decision on him alone: a bulk
\* decision commits only rows it found PENDING and held since.
THEOREM DecisionsAreKept == Spec => DecisionsStand
<1> DEFINE Kept == \A a \in Admins :
              admin[a] \in Decisions /\ admin'[a] \notin {admin[a], "DELETED"}
                => \E status \in Decisions : UpdateAdminStatus(a, status)
<1>1. TypeOK /\ LocksHeld /\ [Next]_vars => [Kept]_vars
  <2> SUFFICES ASSUME TypeOK, LocksHeld, Next, NEW a \in Admins,
                      admin[a] \in Decisions, admin'[a] \notin {admin[a], "DELETED"}
               PROVE  \E status \in Decisions : UpdateAdminStatus(a, status)
    OBVIOUS
  <2>1. ~ \E b \in Admins : CreateAdmin(b) \/ DeleteAdmin(b)
    BY DEF CreateAdmin, DeleteAdmin, Decisions, TypeOK
  <2>2. ~ \E b \in Admins : Login(b) \/ WriteComment(b) \/ DeleteComments(b)
    BY DEF Login, WriteComment, DeleteComments
  <2>3. ~ \E r \in Requests, status \in Decisions : GetPendingAdminApartmentIds(r, status)
    BY DEF GetPendingAdminApartmentIds
  <2>4. ~ \E r \in Requests : BulkUpdateAdminStatus(r)
    BY DEF BulkUpdateAdminStatus
  <2>5. ~ \E r \in Requests : BulkUpdateApartmentStatus(r)
    BY DEF BulkUpdateApartmentStatus, LocksHeld, Decisions
  <2>6. ~ \E r \in Requests : RejectedAdmin(r) \/ AdminClean(r) \/ AdminCleanFails(r) \/ Abort(r)
    BY DEF RejectedAdmin, AdminClean, AdminCleanFails, Abort
  <2>7. PICK b \in Admins, status \in Decisions : UpdateAdminStatus(b, status)
    BY <2>1, <2>2, <2>3, <2>4, <2>5, <2>6, Steps
  <2>8. b = a
    BY <2>7 DEF UpdateAdminStatus, TypeOK
  <2> QED
    BY <2>7, <2>8
<1> QED
  BY <1>1, TypeCorrect, LocksAreHeld, PTL DEF Spec, DecisionsStand

\* Nobody on a cleanup's list is PENDING: he was REJECTED when it was read, and no
\* decision takes a manager back to PENDING.
ListsDecided ==
  \A r \in Requests : request[r].pc = "cleaning" =>
    \A a \in request[r].ids : admin[a] \in Decisions \cup {"DELETED"}

\* The lists of cleanups hold decided or deleted managers in every state.
THEOREM ListsAreDecided == Spec => []ListsDecided
<1>1. Init => ListsDecided
  BY DEF Init, ListsDecided, Idle
<1>2. TypeOK /\ ListsDecided /\ [Next]_vars => ListsDecided'
  <2> SUFFICES ASSUME TypeOK, ListsDecided, [Next]_vars PROVE ListsDecided'
    OBVIOUS
  <2> USE DEF TypeOK, ListsDecided, Request, Decisions
  <2>1. CASE \E a \in Admins : CreateAdmin(a) \/ DeleteAdmin(a)
    BY <2>1 DEF CreateAdmin, DeleteAdmin
  <2>2. CASE \E a \in Admins : Login(a) \/ WriteComment(a) \/ DeleteComments(a)
    BY <2>2 DEF Login, WriteComment, DeleteComments
  <2>3. CASE \E a \in Admins, status \in Decisions : UpdateAdminStatus(a, status)
    BY <2>3 DEF UpdateAdminStatus
  <2>4. CASE \E r \in Requests, status \in Decisions : GetPendingAdminApartmentIds(r, status)
    BY <2>4 DEF GetPendingAdminApartmentIds
  <2>5. CASE \E r \in Requests : BulkUpdateAdminStatus(r)
    BY <2>5 DEF BulkUpdateAdminStatus
  <2>6. CASE \E r \in Requests : BulkUpdateApartmentStatus(r)
    BY <2>6 DEF BulkUpdateApartmentStatus, Idle
  <2>7. CASE \E r \in Requests : RejectedAdmin(r)
    BY <2>7 DEF RejectedAdmin, Rejected
  <2>8. CASE \E r \in Requests : AdminClean(r)
    BY <2>8 DEF AdminClean, Idle
  <2>9. CASE \E r \in Requests : AdminCleanFails(r) \/ Abort(r)
    BY <2>9 DEF AdminCleanFails, Abort, Idle
  <2>10. CASE UNCHANGED vars
    BY <2>10 DEF vars
  <2> QED
    BY <2>1, <2>2, <2>3, <2>4, <2>5, <2>6, <2>7, <2>8, <2>9, <2>10, Steps
<1> QED
  BY <1>1, <1>2, TypeCorrect, PTL DEF Spec

\* Only deleteAdmin removes a manager nobody has decided on.
THEOREM UndecidedAreSafe == Spec => UndecidedNotCleaned
<1> DEFINE Safe == \A a \in Admins :
              admin[a] = "PENDING" /\ admin'[a] = "DELETED" => DeleteAdmin(a)
<1>1. TypeOK /\ ListsDecided /\ [Next]_vars => [Safe]_vars
  <2> SUFFICES ASSUME TypeOK, ListsDecided, Next, NEW a \in Admins,
                      admin[a] = "PENDING", admin'[a] = "DELETED"
               PROVE  DeleteAdmin(a)
    OBVIOUS
  <2>1. CASE \E b \in Admins : CreateAdmin(b) \/ DeleteAdmin(b)
    BY <2>1 DEF CreateAdmin, DeleteAdmin, TypeOK
  <2>2. CASE \E b \in Admins, status \in Decisions : UpdateAdminStatus(b, status)
    BY <2>2 DEF UpdateAdminStatus, Decisions, TypeOK
  <2>3. CASE \E r \in Requests : BulkUpdateApartmentStatus(r)
    BY <2>3 DEF BulkUpdateApartmentStatus, TypeOK, Request, Decisions
  <2>4. CASE \E r \in Requests : AdminClean(r)
    BY <2>4 DEF AdminClean, ListsDecided, Decisions
  <2>5. CASE UNCHANGED admin
    BY <2>5
  <2> QED
    BY <2>1, <2>2, <2>3, <2>4, <2>5, Steps
       DEF Login, WriteComment, DeleteComments, GetPendingAdminApartmentIds,
           BulkUpdateAdminStatus, RejectedAdmin, AdminCleanFails, Abort
<1> QED
  BY <1>1, TypeCorrect, ListsAreDecided, PTL DEF Spec, UndecidedNotCleaned
=============================================================================
