-------------------------- MODULE ResidentRegistry --------------------------
(***************************************************************************)
(* The roster of an apartment and the accounts of its residents: sign-up   *)
(* (auth.service.ts createUser), entries by the manager, one by one, from  *)
(* a CSV file or from an account, edits, moving out (residents.service.ts) *)
(* and the decisions on accounts and their cleanup (auth.service.ts).      *)
(*                                                                         *)
(* A person is known by name and contact; the pair is abstracted to the    *)
(* contact, which is unique in both tables.  Ids are never used again.     *)
(* What an operation reads before it writes is read in an action of its    *)
(* own.  A transaction takes effect with its commit: the rows it wrote     *)
(* were locked until then, and what it reads again it reads under locks.   *)
(***************************************************************************)
EXTENDS Naturals, FiniteSets

CONSTANTS
  Contacts,       \* persons
  Units,          \* building and unit number
  Apartments,
  ApartmentOf,    \* ApartmentOf[u]: the apartment complex u is in
  Roles,          \* those entries are given
  Requests,       \* requests the server works on at one time
  MaxRows,        \* bound: roster entries in all
  MaxAccounts     \* bound: accounts in all

ASSUME ConstantsAssumption ==
  /\ ApartmentOf \in [Units -> Apartments]
  /\ "HOUSEHOLDER" \in Roles /\ Roles \subseteq {"HOUSEHOLDER", "MEMBER"}
  /\ IsFiniteSet(Contacts)    \* a file has so many lines
  /\ MaxRows \in Nat /\ MaxAccounts \in Nat

VARIABLES
  roster,     \* rows of Resident
  users,      \* rows of User with role USER
  rows,       \* roster entries made so far, also the last id
  accounts,   \* accounts made so far, also the last id
  standing,   \* apartments that exist
  request,    \* request[r]: the operation r is working on
  entered,    \* history: roster entries a manager made
  newcomers,  \* history: entries of sign-ups that nobody overtook or edited since
  decided,    \* history: accounts a manager decided on since they lost their entry
  excused,    \* history: accounts made or unlinked by overlapping operations
  abandoned   \* history: entries whose account a cleanup deleted

tables == <<roster, users, rows, accounts, standing>>
history == <<entered, newcomers, decided, excused, abandoned>>
vars == <<roster, users, rows, accounts, standing, request,
          entered, newcomers, decided, excused, abandoned>>

RowId == 1 .. MaxRows
UserId == 1 .. MaxAccounts
Statuses == {"PENDING", "APPROVED", "REJECTED"}

\* link is residentId, 0 for null.
Resident == [id : RowId, contact : Contacts, unit : Units, role : Roles, registered : BOOLEAN]
User == [id : UserId, contact : Contacts, unit : Units, status : Statuses,
         link : {0} \cup RowId, active : BOOLEAN]

Idle == [op |-> "idle"]
Request ==
  {Idle}
  \cup [op : {"checked", "matched"}, contact : Contacts, unit : Units, row : {0} \cup RowId,
        overtaken : BOOLEAN, edited : BOOLEAN]
  \cup [op : {"entering"}, contact : Contacts, unit : Units, role : Roles, registered : BOOLEAN]
  \cup [op : {"adopting"}, user : User]
  \cup [op : {"evicting"}, row : RowId, user : {0} \cup UserId]
  \cup [op : {"deciding"}, ids : SUBSET UserId, pendingOnly : BOOLEAN, status : Statuses]

UserIds == {u.id : u \in users}
Linked(i) == {u \in users : u.link = i}
\* Mutant: the unique constraint on the contact is missing.
FreeInAnyCase(c) == TRUE
FreeInRoster(c) == \A x \in roster : x.contact # c
FreeInUsers(c) == \A u \in users : u.contact # c
Holds(r, op) == request[r].op = op

Init ==
  /\ roster = {} /\ users = {} /\ rows = 0 /\ accounts = 0
  /\ standing = Apartments
  /\ request = [r \in Requests |-> Idle]
  /\ entered = {} /\ newcomers = {} /\ decided = {} /\ excused = {} /\ abandoned = {}

Becomes(r, call) == request' = [request EXCEPT ![r] = call]
Finish(r) == Becomes(r, Idle)

\* createResident of the repository: a row with the next id.
NewRow(c, u, role, registered) ==
  [id |-> rows + 1, contact |-> c, unit |-> u, role |-> role, registered |-> registered]

----------------------------------------------------------------------------
(* Sign-up.                                                                 *)

\* Mutant: only a householder whose account is approved counts.
JoinedApproved(unit) ==
  \E x \in roster : x.unit = unit /\ x.role = "HOUSEHOLDER" /\ x.registered
                    /\ \E u \in Linked(x.id) : u.status = "APPROVED"

\* checkHouseholderjoined.
HouseholderJoined(unit) ==
  \E x \in roster : x.unit = unit /\ x.role = "HOUSEHOLDER" /\ x.registered

\* createUser up to its first read in the transaction.  prepareRegistration
\* looked before whether the contact is taken; the insert checks it again.
CheckHouseholder(r, c, unit) ==
  /\ Holds(r, "idle")
  /\ FreeInUsers(c) /\ ApartmentOf[unit] \in standing
  /\ ~HouseholderJoined(unit)
  /\ Becomes(r, [op |-> "checked", contact |-> c, unit |-> unit, row |-> 0,
                 overtaken |-> FALSE, edited |-> FALSE])
  /\ UNCHANGED <<tables, history>>

\* findByNameAndContact: of any unit and any apartment.
MatchResident(r) ==
  /\ Holds(r, "checked")
  /\ \/ \E x \in roster : x.contact = request[r].contact
          /\ Becomes(r, [request[r] EXCEPT !.op = "matched", !.row = x.id])
     \/ FreeInRoster(request[r].contact)
          /\ Becomes(r, [request[r] EXCEPT !.op = "matched"])
  /\ UNCHANGED <<tables, history>>

NewUser(r, status, link) ==
  [id |-> accounts + 1, contact |-> request[r].contact, unit |-> request[r].unit,
   status |-> status, link |-> link, active |-> TRUE]

\* The entry found is marked as registered and its account approved at once.
\* The entry must still be there, without an account.
SignUpMatched(r) ==
  /\ Holds(r, "matched") /\ request[r].row # 0
  /\ accounts < MaxAccounts
  /\ FreeInUsers(request[r].contact) /\ Linked(request[r].row) = {}
  /\ \E x \in roster : x.id = request[r].row
       /\ roster' = (roster \ {x}) \cup {[x EXCEPT !.registered = TRUE]}
  /\ users' = users \cup {NewUser(r, "APPROVED", request[r].row)}
  /\ accounts' = accounts + 1
  /\ excused' = IF request[r].edited THEN excused \cup {accounts + 1} ELSE excused
  /\ Finish(r)
  /\ UNCHANGED <<rows, standing, entered, newcomers, decided, abandoned>>

\* Mutant: the account of a person without an entry is approved as well.
SignUpUnknownApproved(r) ==
  /\ Holds(r, "matched") /\ request[r].row = 0
  /\ accounts < MaxAccounts /\ rows < MaxRows
  /\ FreeInUsers(request[r].contact) /\ FreeInRoster(request[r].contact)
  /\ ApartmentOf[request[r].unit] \in standing
  /\ roster' = roster \cup {NewRow(request[r].contact, request[r].unit, "HOUSEHOLDER", TRUE)}
  /\ users' = users \cup {NewUser(r, "APPROVED", rows + 1)}
  /\ rows' = rows + 1 /\ accounts' = accounts + 1
  /\ Finish(r)
  /\ UNCHANGED <<standing, history>>

\* Nobody found: an entry is made for him as the householder of the unit he
\* names, and the account waits.  Sign-ups for the unit that have passed the
\* check are overtaken.
SignUpUnknown(r) ==
  /\ Holds(r, "matched") /\ request[r].row = 0
  /\ accounts < MaxAccounts /\ rows < MaxRows
  /\ FreeInUsers(request[r].contact) /\ FreeInRoster(request[r].contact)
  /\ ApartmentOf[request[r].unit] \in standing
  /\ roster' = roster \cup {NewRow(request[r].contact, request[r].unit, "HOUSEHOLDER", TRUE)}
  /\ users' = users \cup {NewUser(r, "PENDING", rows + 1)}
  /\ rows' = rows + 1 /\ accounts' = accounts + 1
  /\ newcomers' = IF request[r].overtaken THEN newcomers ELSE newcomers \cup {rows + 1}
  /\ request' = [q \in Requests |->
                   IF q = r THEN Idle
                   ELSE IF request[q].op \in {"checked", "matched"} /\ request[q].unit = request[r].unit
                        THEN [request[q] EXCEPT !.overtaken = TRUE] ELSE request[q]]
  /\ UNCHANGED <<standing, entered, decided, excused, abandoned>>

----------------------------------------------------------------------------
(* Entries by the manager.                                                  *)

\* createResident looks whether the person has an account; what it finds ends
\* up in isRegistered only, and the account is not linked.
FindAccount(r, c, unit, role) ==
  /\ Holds(r, "idle") /\ ApartmentOf[unit] \in standing
  /\ Becomes(r, [op |-> "entering", contact |-> c, unit |-> unit, role |-> role,
                 registered |-> ~FreeInUsers(c)])
  /\ UNCHANGED <<tables, history>>

CreateResident(r) ==
  /\ Holds(r, "entering") /\ rows < MaxRows
  /\ FreeInRoster(request[r].contact) /\ ApartmentOf[request[r].unit] \in standing
  /\ roster' = roster \cup {NewRow(request[r].contact, request[r].unit, request[r].role,
                                   request[r].registered)}
  /\ rows' = rows + 1 /\ entered' = entered \cup {rows + 1}
  /\ Finish(r)
  /\ UNCHANGED <<users, accounts, standing, newcomers, decided, excused, abandoned>>

\* processResidentCsv: every line an entry, all in one transaction.
ProcessResidentCsv(lines, role) ==
  /\ rows + Cardinality(DOMAIN lines) <= MaxRows
  /\ \A c \in DOMAIN lines : FreeInRoster(c) /\ ApartmentOf[lines[c]] \in standing
  /\ \E id \in [DOMAIN lines -> (rows + 1) .. (rows + Cardinality(DOMAIN lines))] :
       /\ \A c, d \in DOMAIN lines : id[c] = id[d] => c = d
       /\ roster' = roster \cup
            {[id |-> id[c], contact |-> c, unit |-> lines[c], role |-> role, registered |-> FALSE]
               : c \in DOMAIN lines}
       /\ entered' = entered \cup {id[c] : c \in DOMAIN lines}
  /\ rows' = rows + Cardinality(DOMAIN lines)
  /\ UNCHANGED <<users, accounts, standing, request, newcomers, decided, excused, abandoned>>

\* createResidentFromUser reads an account that has no entry ...
FindUser(r, u) ==
  /\ Holds(r, "idle") /\ u \in users /\ u.link = 0
  /\ Becomes(r, [op |-> "adopting", user |-> u])
  /\ UNCHANGED <<tables, history>>

\* ... and makes one from what it read, links and approves the account, if it
\* still exists.
CreateResidentFromUser(r) ==
  /\ Holds(r, "adopting") /\ rows < MaxRows
  /\ LET old == request[r].user IN
       /\ FreeInRoster(old.contact) /\ ApartmentOf[old.unit] \in standing
       /\ roster' = roster \cup {NewRow(old.contact, old.unit, "HOUSEHOLDER", TRUE)}
       /\ \E u \in users : u.id = old.id
            /\ users' = (users \ {u}) \cup {[u EXCEPT !.status = "APPROVED", !.link = rows + 1]}
            /\ excused' = IF u.contact = old.contact THEN excused ELSE excused \cup {old.id}
       /\ decided' = decided \cup {old.id}
  /\ rows' = rows + 1 /\ entered' = entered \cup {rows + 1}
  /\ Finish(r)
  /\ UNCHANGED <<accounts, standing, newcomers, abandoned>>

\* Mutant: the account keeps its contact.
UpdateResidentAlone(x, c, unit, role) ==
  /\ x \in roster
  /\ c = x.contact \/ FreeInRoster(c)
  /\ ApartmentOf[unit] = ApartmentOf[x.unit]
  /\ roster' = (roster \ {x}) \cup {[x EXCEPT !.contact = c, !.unit = unit, !.role = role]}
  /\ request' = [q \in Requests |->
                   IF Holds(q, "matched") /\ request[q].row = x.id
                   THEN [request[q] EXCEPT !.edited = TRUE] ELSE request[q]]
  /\ newcomers' = newcomers \ {x.id}
  /\ UNCHANGED <<users, rows, accounts, standing, entered, decided, excused, abandoned>>

\* updateResident: entry and account in one transaction; the account gets the
\* fields that were given, its unit only when that was among them.
UpdateResident(x, c, unit, role) ==
  /\ x \in roster
  /\ c = x.contact \/ FreeInRoster(c)
  /\ ApartmentOf[unit] = ApartmentOf[x.unit]
  /\ \A u \in Linked(x.id) : c = u.contact \/ FreeInUsers(c)
  /\ roster' = (roster \ {x}) \cup {[x EXCEPT !.contact = c, !.unit = unit, !.role = role]}
  /\ users' = {IF u.link = x.id
               THEN [u EXCEPT !.contact = IF c = x.contact THEN @ ELSE c,
                              !.unit = IF unit = x.unit THEN @ ELSE unit]
               ELSE u : u \in users}
  /\ request' = [q \in Requests |->
                   IF Holds(q, "matched") /\ request[q].row = x.id
                   THEN [request[q] EXCEPT !.edited = TRUE] ELSE request[q]]
  /\ newcomers' = newcomers \ {x.id}
  /\ UNCHANGED <<rows, accounts, standing, entered, decided, excused, abandoned>>

----------------------------------------------------------------------------
(* Moving out.                                                              *)

\* deleteResident reads the entry with its account ...
ReadResident(r, x) ==
  /\ Holds(r, "idle") /\ x \in roster
  /\ \/ \E u \in Linked(x.id) : Becomes(r, [op |-> "evicting", row |-> x.id, user |-> u.id])
     \/ Linked(x.id) = {} /\ Becomes(r, [op |-> "evicting", row |-> x.id, user |-> 0])
  /\ UNCHANGED <<tables, history>>

\* Mutant: the account is unlinked and nothing else.
DeleteResidentOnly(r) ==
  /\ Holds(r, "evicting")
  /\ \E x \in roster : x.id = request[r].row /\ roster' = roster \ {x}
  /\ request[r].user # 0 => request[r].user \in UserIds
  /\ users' = {IF u.link = request[r].row THEN [u EXCEPT !.link = 0] ELSE u : u \in users}
  /\ decided' = decided \ ({u.id : u \in Linked(request[r].row)} \cup {request[r].user})
  /\ excused' = excused \cup ({u.id : u \in Linked(request[r].row)} \ {request[r].user})
  /\ Finish(r)
  /\ UNCHANGED <<rows, accounts, standing, entered, newcomers, abandoned>>

\* ... and in one transaction revokes that account and deletes the entry, whose
\* account, by then perhaps another, loses its link.
DeleteResident(r) ==
  /\ Holds(r, "evicting")
  /\ \E x \in roster : x.id = request[r].row /\ roster' = roster \ {x}
  /\ request[r].user # 0 => request[r].user \in UserIds
  /\ users' = {[u EXCEPT !.link   = IF u.link = request[r].row THEN 0 ELSE @,
                         !.status = IF u.id = request[r].user THEN "REJECTED" ELSE @,
                         !.active = IF u.id = request[r].user THEN FALSE ELSE @] : u \in users}
  /\ decided' = decided \ ({u.id : u \in Linked(request[r].row)} \cup {request[r].user})
  /\ excused' = excused \cup ({u.id : u \in Linked(request[r].row)} \ {request[r].user})
  /\ Finish(r)
  /\ UNCHANGED <<rows, accounts, standing, entered, newcomers, abandoned>>

\* The apartment goes with its manager, the roster by cascade; accounts stay.
DeleteApartment(a) ==
  /\ a \in standing
  /\ standing' = standing \ {a}
  /\ LET gone == {x \in roster : ApartmentOf[x.unit] = a} IN
       /\ roster' = roster \ gone
       /\ users' = {IF \E x \in gone : x.id = u.link THEN [u EXCEPT !.link = 0] ELSE u : u \in users}
       /\ excused' = excused \cup {u.id : u \in {v \in users : \E x \in gone : x.id = v.link}}
  /\ UNCHANGED <<rows, accounts, request, entered, newcomers, decided, abandoned>>

----------------------------------------------------------------------------
(* Decisions.                                                               *)

\* updateResidentStatus finds the account by its own id or its entry's.
FindResidentUser(r, u, status) ==
  /\ Holds(r, "idle") /\ u \in users /\ u.status # status
  /\ Becomes(r, [op |-> "deciding", ids |-> {u.id}, pendingOnly |-> FALSE, status |-> status])
  /\ UNCHANGED <<tables, history>>

\* bulkUpdateResidentStatus reads the accounts of the roster first.
FindApartmentUsers(r, a, status) ==
  /\ Holds(r, "idle") /\ a \in standing
  /\ LET ids == {u.id : u \in {v \in users : \E x \in roster : x.id = v.link /\ ApartmentOf[x.unit] = a}} IN
       /\ ids # {}
       /\ Becomes(r, [op |-> "deciding", ids |-> ids, pendingOnly |-> TRUE, status |-> status])
  /\ UNCHANGED <<tables, history>>

\* Whom the update then meets: the one account whatever its status is by now,
\* of the many those that are pending still.
Met(r) == {u \in users : u.id \in request[r].ids /\ (request[r].pendingOnly => u.status = "PENDING")}

UpdateUserStatus(r) ==
  /\ Holds(r, "deciding")
  /\ users' = {IF u \in Met(r) THEN [u EXCEPT !.status = request[r].status] ELSE u : u \in users}
  /\ decided' = decided \cup {u.id : u \in Met(r)}
  /\ Finish(r)
  /\ UNCHANGED <<roster, rows, accounts, standing, entered, newcomers, excused, abandoned>>

\* residentClean deletes rejected accounts that have an entry in the
\* apartment, in one statement; the entries stay as they are.
ResidentClean(a) ==
  /\ a \in standing
  /\ users' = {u \in users : ~ (/\ u.status = "REJECTED"
                               /\ \E x \in roster : x.id = u.link /\ ApartmentOf[x.unit] = a)}
  /\ users' # users
  /\ abandoned' = abandoned \cup {u.link : u \in users \ users'}
  /\ UNCHANGED <<roster, rows, accounts, standing, request, entered, newcomers, decided, excused>>

\* A constraint that does not hold, a row that is gone or a lost connection:
\* the transaction is rolled back and the request ends.
Fail(r) ==
  /\ ~Holds(r, "idle")
  /\ Finish(r)
  /\ UNCHANGED <<tables, history>>

----------------------------------------------------------------------------
PersonStep(c) == \E r \in Requests, unit \in Units : CheckHouseholder(r, c, unit)

ManagerStep ==
  \/ \E r \in Requests, c \in Contacts, unit \in Units, role \in Roles : FindAccount(r, c, unit, role)
  \/ \E C \in SUBSET Contacts \ {{}}, role \in Roles : \E lines \in [C -> Units] :
       ProcessResidentCsv(lines, role)
  \/ \E r \in Requests, u \in users : FindUser(r, u)
  \/ \E x \in roster, c \in Contacts, unit \in Units, role \in Roles : UpdateResident(x, c, unit, role)
  \/ \E r \in Requests, x \in roster : ReadResident(r, x)
  \/ \E r \in Requests, u \in users, status \in {"APPROVED", "REJECTED"} : FindResidentUser(r, u, status)
  \/ \E r \in Requests, a \in Apartments, status \in {"APPROVED", "REJECTED"} :
       FindApartmentUsers(r, a, status)
  \/ \E a \in Apartments : ResidentClean(a) \/ DeleteApartment(a)

RequestStep(r) ==
  \/ MatchResident(r) \/ SignUpMatched(r) \/ SignUpUnknown(r)
  \/ CreateResident(r) \/ CreateResidentFromUser(r)
  \/ DeleteResident(r) \/ UpdateUserStatus(r) \/ Fail(r)

Next ==
  \/ \E c \in Contacts : PersonStep(c)
  \/ ManagerStep
  \/ \E r \in Requests : RequestStep(r)

Spec == Init /\ [][Next]_vars

----------------------------------------------------------------------------
(* Properties.                                                              *)

TypeOK ==
  /\ roster \subseteq Resident /\ users \subseteq User
  /\ \A x, y \in roster : x.id = y.id \/ x.contact = y.contact => x = y
  /\ \A u, v \in users : u.id = v.id \/ u.contact = v.contact => u = v
  /\ rows \in 0 .. MaxRows /\ accounts \in 0 .. MaxAccounts
  /\ standing \subseteq Apartments
  /\ request \in [Requests -> Request]
  /\ entered \subseteq RowId /\ newcomers \subseteq RowId
  /\ decided \subseteq UserId /\ excused \subseteq UserId /\ abandoned \subseteq RowId

\* An account that is linked is linked to an entry that is there, is marked as
\* registered, has its contact and no other account, whatever ran at the same
\* time; only a sign-up or an adoption that was at work while its person was
\* edited leaves two contacts (auth.service.ts:55-95, residents.service.ts:51-74).
LinkedAgree ==
  \A u \in users : u.link # 0 =>
    /\ \E x \in roster : /\ x.id = u.link /\ x.registered
                         /\ x.contact = u.contact \/ u.id \in excused
    /\ \A v \in users : v.link = u.link => v = u

\* Moving out takes the approval away: an approved account without an entry was
\* approved by a manager since it lost its entry, or it signed up between the
\* read and the deletion of its entry, or the whole apartment went
\* (residents.service.ts:253-264).
ApprovedHaveEntry ==
  \A u \in users : u.status = "APPROVED" /\ u.link = 0 => u.id \in decided \cup excused

\* Two people nobody had entered do not both become householder of a unit,
\* unless one of them was past the check when the other committed
\* (auth.service.ts:45).
OneNewcomerPerUnit ==
  \A x, y \in roster :
    x.id \in newcomers /\ y.id \in newcomers /\ x.unit = y.unit => x = y

\* Who is not on the roster waits for a decision: an approved account was
\* decided on by a manager, or a manager had entered the person, or its entry
\* is one that a cleanup left registered when it deleted a rejected account
\* (auth.service.ts:55-95, auth.repository.ts:242-246).
ApprovalByManager ==
  \A u \in users : u.status = "APPROVED" /\ u.link # 0 =>
    u.id \in decided \/ u.link \in entered \cup abandoned
=============================================================================
