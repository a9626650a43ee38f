----------------------- MODULE ResidentRegistryProofs -----------------------
(* Safety of the roster and the accounts of residents, for any numbers of     *)
(* persons, units, apartments, requests, entries and accounts.                *)
EXTENDS ResidentRegistry, FiniteSetTheorems, TLAPS

(* Both tables keep to their types and their unique columns, residentId one of
   them, and ids are the numbers given so far. *)
RosterOK ==
  /\ roster \subseteq Resident /\ rows \in 0 .. MaxRows
  /\ \A x, y \in roster : x.id = y.id \/ x.contact = y.contact => x = y
  /\ \A x \in roster : x.id <= rows
UsersOK ==
  /\ users \subseteq User /\ accounts \in 0 .. MaxAccounts
  /\ \A u, v \in users : u.id = v.id \/ u.contact = v.contact => u = v
  /\ \A u, v \in users : u.link = v.link /\ u.link # 0 => u = v
  /\ \A u \in users : u.id <= accounts /\ u.link <= rows
(* Requests keep to their types and know rows and accounts that were made. *)
SignsUp(k) == k.op \in {"checked", "matched"}
CallsOK ==
  /\ request \in [Requests -> Request]
  /\ \A r \in Requests :
       /\ SignsUp(request[r]) => request[r].row <= rows
       /\ request[r].op = "adopting" => request[r].user.id <= accounts
MarksOK ==
  /\ standing \subseteq Apartments
  /\ entered \subseteq RowId /\ newcomers \subseteq RowId
  /\ decided \subseteq UserId /\ excused \subseteq UserId /\ abandoned \subseteq RowId
  /\ \A i \in newcomers : i <= rows
Types == RosterOK /\ UsersOK /\ CallsOK /\ MarksOK

(* What a request of each kind carries. *)
LEMMA SignUpCall ==
  ASSUME NEW k \in Request, SignsUp(k)
  PROVE  /\ k \in [op : {"checked", "matched"}, contact : Contacts, unit : Units,
                   row : {0} \cup RowId, overtaken : BOOLEAN, edited : BOOLEAN]
         /\ k.contact \in Contacts /\ k.unit \in Units /\ k.row \in {0} \cup RowId
         /\ k.overtaken \in BOOLEAN /\ k.edited \in BOOLEAN
BY DEF Request, Idle, SignsUp

(* The manager's new entry, ... *)
LEMMA EnteringCall ==
  ASSUME NEW k \in Request, k.op = "entering"
  PROVE  /\ k.contact \in Contacts /\ k.unit \in Units /\ k.role \in Roles
         /\ k.registered \in BOOLEAN
BY DEF Request, Idle

(* ... the account he adopts, ... *)
LEMMA AdoptingCall == ASSUME NEW k \in Request, k.op = "adopting" PROVE k.user \in User
BY DEF Request, Idle

(* ... the entry he deletes with the account that had it, ... *)
LEMMA EvictingCall ==
  ASSUME NEW k \in Request, k.op = "evicting"
  PROVE  k.row \in RowId /\ k.user \in {0} \cup UserId
BY DEF Request, Idle

(* ... and the accounts he decides on. *)
LEMMA DecidingCall ==
  ASSUME NEW k \in Request, k.op = "deciding"
  PROVE  k.ids \in SUBSET UserId /\ k.pendingOnly \in BOOLEAN /\ k.status \in Statuses
BY DEF Request, Idle

(* A request that moves leaves the others alone. *)
LEMMA BecomesEffect ==
  ASSUME CallsOK, NEW r \in Requests, NEW k \in Request, Becomes(r, k),
         SignsUp(k) => k.row <= rows', k.op = "adopting" => k.user.id <= accounts',
         rows <= rows', accounts <= accounts', rows \in Nat, rows' \in Nat,
         accounts \in Nat, accounts' \in Nat
  PROVE  /\ CallsOK' /\ request'[r] = k
         /\ \A q \in Requests \ {r} : request'[q] = request[q]
<1>1. request'[r] = k /\ \A q \in Requests \ {r} : request'[q] = request[q]
  BY DEF CallsOK, Becomes
<1>2. request' \in [Requests -> Request]
  BY DEF CallsOK, Becomes
<1>3. ASSUME NEW q \in Requests
      PROVE  /\ SignsUp(request'[q]) => request'[q].row <= rows'
             /\ request'[q].op = "adopting" => request'[q].user.id <= accounts'
  <2>1. CASE q = r
    BY <1>1, <2>1
  <2>2. CASE q # r
    <3>1. request'[q] = request[q] /\ request[q] \in Request
      BY <1>1, <2>2 DEF CallsOK
    <3>2. SignsUp(request[q]) => request[q].row \in Nat /\ request[q].row <= rows
      BY <3>1, SignUpCall DEF CallsOK, RowId
    <3>3. request[q].op = "adopting" => request[q].user.id \in Nat /\ request[q].user.id <= accounts
      BY <3>1, AdoptingCall DEF CallsOK, User, UserId
    <3> QED
      BY <3>1, <3>2, <3>3
  <2> QED
    BY <2>1, <2>2
<1> QED
  BY <1>1, <1>2, <1>3 DEF CallsOK, SignsUp

(* A request that ends does, too. *)
LEMMA FinishEffect ==
  ASSUME CallsOK, NEW r \in Requests, Finish(r),
         rows <= rows', accounts <= accounts', rows \in Nat, rows' \in Nat,
         accounts \in Nat, accounts' \in Nat
  PROVE  /\ CallsOK' /\ request'[r] = Idle
         /\ \A q \in Requests \ {r} : request'[q] = request[q]
<1>1. Idle \in Request /\ ~SignsUp(Idle) /\ Idle.op # "adopting" /\ Becomes(r, Idle)
  BY DEF Request, Idle, SignsUp, Finish
<1> QED
  BY <1>1, BecomesEffect

-----------------------------------------------------------------------------
(* The tables. *)

(* A new entry has the next id and a free contact. *)
LEMMA RowAdded ==
  ASSUME RosterOK, NEW x \in Resident, rows < MaxRows, x.id = rows + 1, FreeInRoster(x.contact),
         roster' = roster \cup {x}, rows' = rows + 1
  PROVE  RosterOK'
<1>1. \A y \in roster : y.id \in Nat /\ y.id <= rows /\ y.contact # x.contact
  BY DEF RosterOK, FreeInRoster, Resident, RowId
<1> QED
  BY <1>1, ConstantsAssumption DEF RosterOK

(* An entry that is changed keeps its id, and its contact or takes a free one. *)
LEMMA RowChanged ==
  ASSUME RosterOK, NEW x \in roster, NEW y \in Resident, y.id = x.id,
         y.contact = x.contact \/ FreeInRoster(y.contact),
         roster' = (roster \ {x}) \cup {y}, rows' = rows
  PROVE  RosterOK'
<1>1. \A z \in roster \ {x} : z.id # y.id /\ z.contact # y.contact
  BY DEF RosterOK, FreeInRoster
<1> QED
  BY <1>1 DEF RosterOK

(* Entries may go. *)
LEMMA RowsGone == ASSUME RosterOK, roster' \subseteq roster, rows' = rows PROVE RosterOK'
BY DEF RosterOK

(* A new account has the next id, a free contact and an entry nobody has. *)
LEMMA UserAdded ==
  ASSUME UsersOK, NEW u \in User, accounts < MaxAccounts, u.id = accounts + 1, FreeInUsers(u.contact),
         Linked(u.link) = {}, u.link <= rows', rows \in Nat, rows' \in Nat, rows <= rows',
         users' = users \cup {u}, accounts' = accounts + 1
  PROVE  UsersOK'
<1>1. \A v \in users : /\ v.id \in Nat /\ v.id <= accounts /\ v.contact # u.contact
                       /\ v.link # u.link /\ v.link \in Nat /\ v.link <= rows
  BY DEF UsersOK, FreeInUsers, User, UserId, RowId, Linked
<1> QED
  BY <1>1, ConstantsAssumption DEF UsersOK

(* Accounts may go. *)
LEMMA UsersGone ==
  ASSUME UsersOK, users' \subseteq users, accounts' = accounts, rows' = rows
  PROVE  UsersOK'
BY DEF UsersOK

(* Accounts that only lose their link or change their status keep to the
   types: every new row comes from one old row, which decides it. *)
LEMMA UsersMarked ==
  ASSUME UsersOK, accounts' = accounts, rows' = rows, rows \in Nat,
         \A v \in users' :
            v \in User /\ \E u \in users : v.id = u.id /\ v.contact = u.contact /\ v.link \in {0, u.link},
         \A v, w \in users' : v.id = w.id => v = w
  PROVE  UsersOK'
<1> DEFINE Old(v, u) == v.id = u.id /\ v.contact = u.contact /\ v.link \in {0, u.link}
<1>1. \A v \in users' : v \in User /\ v.id <= accounts /\ v.link <= rows
  <2>1. \A u \in users : u.link \in Nat /\ 0 <= rows /\ u.id <= accounts /\ u.link <= rows
    BY DEF UsersOK, User, RowId
  <2>2. ASSUME NEW v \in users' PROVE v.id <= accounts /\ v.link <= rows
    <3>1. PICK u \in users : Old(v, u)
      OBVIOUS
    <3> QED
      BY <2>1, <3>1
  <2> QED
    BY <2>2
<1>2. ASSUME NEW v \in users', NEW w \in users',
             v.contact = w.contact \/ (v.link = w.link /\ v.link # 0)
      PROVE  v = w
  <2>1. PICK a \in users : Old(v, a)
    OBVIOUS
  <2>2. PICK b \in users : Old(w, b)
    OBVIOUS
  <2>3. a = b
    BY <1>2, <2>1, <2>2 DEF UsersOK
  <2> QED
    BY <2>1, <2>2, <2>3
<1> QED
  BY <1>1, <1>2 DEF UsersOK

(* So does the one account that gets the entry made for it. *)
LEMMA UserChanged ==
  ASSUME UsersOK, NEW u \in users, NEW v \in User, v.id = u.id, v.contact = u.contact,
         rows \in Nat, rows' = rows + 1, v.link = rows + 1,
         users' = (users \ {u}) \cup {v}, accounts' = accounts
  PROVE  UsersOK'
<1>1. \A w \in users : w.link \in Nat /\ w.link <= rows /\ w.link # v.link
  BY DEF UsersOK, User, RowId
<1> QED
  BY <1>1 DEF UsersOK

(* Numbers of rows and accounts. *)
LEMMA Numbers == ASSUME RosterOK, UsersOK
                 PROVE  rows \in Nat /\ accounts \in Nat /\ rows <= rows /\ accounts <= accounts
BY ConstantsAssumption DEF RosterOK, UsersOK

-----------------------------------------------------------------------------
(* Sign-up keeps the types. *)
LEMMA SignUpKeepsTypes ==
  ASSUME Types, NEW r \in Requests,
         \/ \E c \in Contacts, unit \in Units : CheckHouseholder(r, c, unit)
         \/ MatchResident(r) \/ SignUpMatched(r) \/ SignUpUnknown(r)
  PROVE  Types'
<1> USE DEF Types
<1>0. rows \in Nat /\ accounts \in Nat /\ request[r] \in Request
  BY Numbers DEF CallsOK
<1>1. ASSUME NEW c \in Contacts, NEW unit \in Units, CheckHouseholder(r, c, unit) PROVE Types'
  <2>1. PICK k : k = [op |-> "checked", contact |-> c, unit |-> unit, row |-> 0,
                      overtaken |-> FALSE, edited |-> FALSE]
    OBVIOUS
  <2>2. k \in Request /\ k.op = "checked" /\ k.row = 0
    BY <2>1 DEF Request
  <2>3. Becomes(r, k) /\ UNCHANGED <<tables, history>>
    BY <1>1, <2>1 DEF CheckHouseholder
  <2>4. CallsOK'
    BY <1>0, <2>2, <2>3, BecomesEffect DEF tables
  <2> QED
    BY <2>3, <2>4 DEF tables, history, RosterOK, UsersOK, MarksOK
<1>2. ASSUME MatchResident(r) PROVE Types'
  <2>1. /\ request[r].op = "checked" /\ UNCHANGED <<tables, history>>
        /\ request[r] \in [op : {"checked", "matched"}, contact : Contacts, unit : Units,
                           row : {0} \cup RowId, overtaken : BOOLEAN, edited : BOOLEAN]
        /\ request[r].row <= rows
    BY <1>0, <1>2, SignUpCall DEF MatchResident, Holds, SignsUp, CallsOK
  <2>2. ASSUME NEW i \in {0} \cup RowId, i <= rows, NEW k, k = [request[r] EXCEPT !.op = "matched", !.row = i],
               Becomes(r, k)
        PROVE  CallsOK'
    <3>1. PICK k0 : k0 = request[r]
      OBVIOUS
    <3>2. k0 \in [op : {"checked", "matched"}, contact : Contacts, unit : Units,
                  row : {0} \cup RowId, overtaken : BOOLEAN, edited : BOOLEAN]
      BY <2>1, <3>1
    <3>3. k = [k0 EXCEPT !.op = "matched", !.row = i]
      BY <2>2, <3>1
    <3>4. k \in Request /\ k.op = "matched" /\ k.row = i
      BY <2>2, <3>2, <3>3 DEF Request
    <3>5. rows' = rows /\ accounts' = accounts /\ i \in Nat
      BY <2>1, <2>2 DEF tables, RowId
    <3>6. k.row <= rows' /\ k.op # "adopting" /\ Becomes(r, k)
      BY <2>2, <3>4, <3>5
    <3> QED
      BY <1>0, <3>4, <3>5, <3>6, BecomesEffect
  <2>3. ASSUME NEW x \in roster, Becomes(r, [request[r] EXCEPT !.op = "matched", !.row = x.id])
        PROVE  CallsOK'
    <3>1. PICK i \in RowId : i = x.id /\ i <= rows
      BY DEF RosterOK, Resident
    <3> QED
      BY <2>2, <2>3, <3>1
  <2>4. ASSUME Becomes(r, [request[r] EXCEPT !.op = "matched"]) PROVE CallsOK'
    <3>1. PICK k : k = [request[r] EXCEPT !.op = "matched"]
      OBVIOUS
    <3>2. k \in Request /\ k.op = "matched" /\ k.row = request[r].row
      BY <2>1, <3>1 DEF Request
    <3> QED
      BY <1>0, <2>1, <2>4, <3>1, <3>2, BecomesEffect DEF tables
  <2>5. CallsOK'
    BY <1>2, <2>3, <2>4 DEF MatchResident
  <2> QED
    BY <2>1, <2>5 DEF tables, history, RosterOK, UsersOK, MarksOK
<1>3. ASSUME SignUpMatched(r) PROVE Types'
  <2>1. PICK x \in roster : x.id = request[r].row /\ roster' = (roster \ {x}) \cup {[x EXCEPT !.registered = TRUE]}
    BY <1>3 DEF SignUpMatched
  <2>2. /\ request[r].contact \in Contacts /\ request[r].unit \in Units /\ request[r].row \in RowId
    BY <1>0, <1>3, SignUpCall DEF SignUpMatched, Holds, SignsUp
  <2>3. x \in Resident
    BY DEF RosterOK
  <2>4. PICK y : y = [x EXCEPT !.registered = TRUE]
    OBVIOUS
  <2>5. y \in Resident /\ y.id = x.id /\ y.contact = x.contact
    BY <2>3, <2>4 DEF Resident
  <2>6. RosterOK'
    BY <1>3, <2>1, <2>4, <2>5, RowChanged DEF SignUpMatched
  <2>7. accounts < MaxAccounts /\ accounts + 1 \in UserId
    BY <1>0, <1>3, ConstantsAssumption DEF SignUpMatched, UserId
  <2>8. PICK u : u = NewUser(r, "APPROVED", request[r].row)
    OBVIOUS
  <2>9. u \in User /\ u.id = accounts + 1 /\ u.contact = request[r].contact
    BY <2>2, <2>7, <2>8 DEF NewUser, User, Statuses
  <2>10. UsersOK'
    <3>1. u.link = request[r].row /\ u.link <= rows /\ rows' = rows
      BY <1>3, <2>8, <2>1 DEF SignUpMatched, NewUser, RosterOK
    <3> QED
      BY <1>0, <1>3, <2>7, <2>8, <2>9, <3>1, UserAdded DEF SignUpMatched
  <2>11. MarksOK'
    BY <1>3, <2>7 DEF SignUpMatched, MarksOK
  <2>12. CallsOK'
    BY <1>0, <1>3, FinishEffect DEF SignUpMatched
  <2> QED
    BY <2>6, <2>10, <2>11, <2>12
<1>4. ASSUME SignUpUnknown(r) PROVE Types'
  <2>1. /\ request[r].contact \in Contacts /\ request[r].unit \in Units
    BY <1>0, <1>4, SignUpCall DEF SignUpUnknown, Holds, SignsUp
  <2>2. /\ accounts < MaxAccounts /\ accounts + 1 \in UserId /\ rows < MaxRows /\ rows + 1 \in RowId
    BY <1>0, <1>4, ConstantsAssumption DEF SignUpUnknown, UserId, RowId
  <2>3. PICK x : x = NewRow(request[r].contact, request[r].unit, "HOUSEHOLDER", TRUE)
    OBVIOUS
  <2>4. x \in Resident /\ x.id = rows + 1 /\ x.contact = request[r].contact
    BY <2>1, <2>2, <2>3, ConstantsAssumption DEF NewRow, Resident
  <2>5. RosterOK'
    BY <1>4, <2>2, <2>3, <2>4, RowAdded DEF SignUpUnknown
  <2>6. PICK u : u = NewUser(r, "PENDING", rows + 1)
    OBVIOUS
  <2>7. u \in User /\ u.id = accounts + 1 /\ u.contact = request[r].contact
    BY <2>1, <2>2, <2>6 DEF NewUser, User, Statuses
  <2>8. UsersOK'
    <3>1. u.link = rows + 1 /\ rows' = rows + 1
      BY <1>4, <2>6 DEF SignUpUnknown, NewUser
    <3>2. Linked(u.link) = {}
      BY <1>0, <3>1 DEF UsersOK, User, RowId, Linked
    <3> QED
      BY <1>0, <1>4, <2>2, <2>6, <2>7, <3>1, <3>2, UserAdded DEF SignUpUnknown
  <2>9. MarksOK'
    <3>1. \A i \in newcomers : i \in Nat /\ i <= rows
      BY DEF MarksOK, RowId
    <3> QED
      BY <1>0, <1>4, <2>2, <3>1 DEF SignUpUnknown, MarksOK
  <2>10. ASSUME NEW q \in Requests
         PROVE  /\ request'[q] \in Request
                /\ SignsUp(request'[q]) => request'[q].row <= rows'
                /\ request'[q].op = "adopting" => request'[q].user.id <= accounts'
    <3>1. rows' = rows + 1 /\ accounts' = accounts + 1
      BY <1>4 DEF SignUpUnknown
    <3>2. CASE request'[q] = Idle
      BY <3>2 DEF Idle, Request, SignsUp
    <3>3. CASE request'[q] = request[q]
      <4>1. request[q] \in Request
        BY DEF CallsOK
      <4>2. SignsUp(request[q]) => request[q].row \in Nat /\ request[q].row <= rows
        BY <4>1, SignUpCall DEF CallsOK, RowId
      <4>3. request[q].op = "adopting" => request[q].user.id \in Nat /\ request[q].user.id <= accounts
        BY <4>1, AdoptingCall DEF CallsOK, User, UserId
      <4> QED
        BY <1>0, <3>1, <3>3, <4>1, <4>2, <4>3
    <3>4. CASE SignsUp(request[q]) /\ request'[q] = [request[q] EXCEPT !.overtaken = TRUE]
      <4>1. request[q] \in [op : {"checked", "matched"}, contact : Contacts, unit : Units,
                           row : {0} \cup RowId, overtaken : BOOLEAN, edited : BOOLEAN]
            /\ request[q].row <= rows /\ request[q].row \in Nat
        BY <3>4, SignUpCall DEF CallsOK, RowId
      <4>2. PICK k0 : k0 = request[q]
        OBVIOUS
      <4>3. k0 \in [op : {"checked", "matched"}, contact : Contacts, unit : Units,
                    row : {0} \cup RowId, overtaken : BOOLEAN, edited : BOOLEAN]
            /\ k0.row <= rows /\ k0.row \in Nat
        BY <4>1, <4>2
      <4>4. PICK k : k = [k0 EXCEPT !.overtaken = TRUE]
        OBVIOUS
      <4>5. /\ k \in [op : {"checked", "matched"}, contact : Contacts, unit : Units,
                      row : {0} \cup RowId, overtaken : BOOLEAN, edited : BOOLEAN]
            /\ k.row = k0.row /\ k.op = k0.op
        BY <4>3, <4>4
      <4>6. k \in Request /\ k.op # "adopting"
        BY <4>5 DEF Request
      <4>7. request'[q] = k
        BY <3>4, <4>2, <4>4
      <4> QED
        BY <1>0, <3>1, <4>3, <4>5, <4>6, <4>7
    <3> QED
      BY <1>4, <3>2, <3>3, <3>4 DEF SignUpUnknown, SignsUp
  <2>11. CallsOK'
    BY <1>4, <2>10 DEF SignUpUnknown, CallsOK, SignsUp
  <2> QED
    BY <2>5, <2>8, <2>9, <2>11
<1> QED
  BY <1>1, <1>2, <1>3, <1>4

(* A request that only reads keeps the types. *)
LEMMA OnlyReads ==
  ASSUME Types, NEW r \in Requests, NEW k \in Request, Becomes(r, k), ~SignsUp(k),
         k.op = "adopting" => k.user.id <= accounts, UNCHANGED <<tables, history>>
  PROVE  Types'
<1>1. rows \in Nat /\ accounts \in Nat /\ rows' = rows /\ accounts' = accounts
  BY Numbers DEF Types, tables
<1>2. CallsOK'
  BY <1>1, BecomesEffect DEF Types
<1> QED
  BY <1>2 DEF Types, tables, history, RosterOK, UsersOK, MarksOK

(* What the manager looks up keeps the types. *)
LEMMA LookingUpKeepsTypes ==
  ASSUME Types, NEW r \in Requests,
         \/ \E c \in Contacts, unit \in Units, role \in Roles : FindAccount(r, c, unit, role)
         \/ \E u \in users : FindUser(r, u)
         \/ \E x \in roster : ReadResident(r, x)
         \/ \E u \in users, status \in {"APPROVED", "REJECTED"} : FindResidentUser(r, u, status)
         \/ \E a \in Apartments, status \in {"APPROVED", "REJECTED"} : FindApartmentUsers(r, a, status)
  PROVE  Types'
<1>1. ASSUME NEW c \in Contacts, NEW unit \in Units, NEW role \in Roles, FindAccount(r, c, unit, role)
      PROVE  Types'
  <2>1. PICK k : k = [op |-> "entering", contact |-> c, unit |-> unit, role |-> role,
                      registered |-> ~FreeInUsers(c)]
    OBVIOUS
  <2>2. (~FreeInUsers(c)) \in BOOLEAN
    BY Zenon
  <2>3. k \in Request /\ k.op = "entering"
    BY <2>1, <2>2 DEF Request
  <2> QED
    BY <1>1, <2>1, <2>3, OnlyReads DEF FindAccount, SignsUp
<1>2. ASSUME NEW u \in users, FindUser(r, u) PROVE Types'
  <2>1. u \in User /\ u.id <= accounts
    BY DEF Types, UsersOK
  <2>2. PICK k : k = [op |-> "adopting", user |-> u]
    OBVIOUS
  <2>3. k \in Request /\ k.op = "adopting" /\ k.user = u
    BY <2>1, <2>2 DEF Request
  <2> QED
    BY <1>2, <2>1, <2>2, <2>3, OnlyReads DEF FindUser, SignsUp
<1>3. ASSUME NEW x \in roster, ReadResident(r, x) PROVE Types'
  <2>1. PICK i \in {0} \cup UserId : Becomes(r, [op |-> "evicting", row |-> x.id, user |-> i])
    BY <1>3 DEF ReadResident, Types, UsersOK, User, Linked
  <2>2. PICK k : k = [op |-> "evicting", row |-> x.id, user |-> i]
    OBVIOUS
  <2>3. x.id \in RowId
    BY DEF Types, RosterOK, Resident
  <2>4. k \in Request /\ k.op = "evicting"
    BY <2>2, <2>3 DEF Request
  <2> QED
    BY <1>3, <2>1, <2>2, <2>4, OnlyReads DEF ReadResident, SignsUp
<1>4. ASSUME NEW u \in users, NEW status \in {"APPROVED", "REJECTED"}, FindResidentUser(r, u, status)
      PROVE  Types'
  <2>1. u.id \in UserId
    BY DEF Types, UsersOK, User
  <2>2. PICK k : k = [op |-> "deciding", ids |-> {u.id}, pendingOnly |-> FALSE, status |-> status]
    OBVIOUS
  <2>3. k \in Request /\ k.op = "deciding"
    BY <2>1, <2>2 DEF Request, Statuses
  <2> QED
    BY <1>4, <2>2, <2>3, OnlyReads DEF FindResidentUser, SignsUp
<1>5. ASSUME NEW a \in Apartments, NEW status \in {"APPROVED", "REJECTED"}, FindApartmentUsers(r, a, status)
      PROVE  Types'
  <2>1. PICK ids \in SUBSET UserId :
          Becomes(r, [op |-> "deciding", ids |-> ids, pendingOnly |-> TRUE, status |-> status])
    <3>1. \A v \in users : v.id \in UserId
      BY DEF Types, UsersOK, User
    <3>2. {u.id : u \in {v \in users : \E x \in roster : x.id = v.link /\ ApartmentOf[x.unit] = a}}
            \in SUBSET UserId
      BY <3>1
    <3> QED
      BY <1>5, <3>2 DEF FindApartmentUsers
  <2>2. PICK k : k = [op |-> "deciding", ids |-> ids, pendingOnly |-> TRUE, status |-> status]
    OBVIOUS
  <2>3. k \in Request /\ k.op = "deciding"
    BY <2>2 DEF Request, Statuses
  <2> QED
    BY <1>5, <2>1, <2>2, <2>3, OnlyReads DEF FindApartmentUsers, SignsUp
<1> QED
  BY <1>1, <1>2, <1>3, <1>4, <1>5

(* A request that was edited keeps to the types. *)
LEMMA EditedCalls ==
  ASSUME CallsOK, NEW i,
         request' = [q \in Requests |->
                       IF Holds(q, "matched") /\ request[q].row = i
                       THEN [request[q] EXCEPT !.edited = TRUE] ELSE request[q]],
         rows' = rows, accounts' = accounts
  PROVE  CallsOK'
<1>1. ASSUME NEW q \in Requests
      PROVE  /\ request'[q] \in Request
             /\ SignsUp(request'[q]) => request'[q].row <= rows'
             /\ request'[q].op = "adopting" => request'[q].user.id <= accounts'
  <2>1. CASE request'[q] = request[q]
    BY <2>1 DEF CallsOK, SignsUp
  <2>2. CASE SignsUp(request[q]) /\ request'[q] = [request[q] EXCEPT !.edited = TRUE]
    <3>1. PICK k0 : k0 = request[q]
      OBVIOUS
    <3>2. k0 \in [op : {"checked", "matched"}, contact : Contacts, unit : Units,
                  row : {0} \cup RowId, overtaken : BOOLEAN, edited : BOOLEAN]
          /\ k0.row <= rows
      BY <2>2, <3>1, SignUpCall DEF CallsOK
    <3>3. PICK k : k = [k0 EXCEPT !.edited = TRUE]
      OBVIOUS
    <3>4. /\ k \in [op : {"checked", "matched"}, contact : Contacts, unit : Units,
                    row : {0} \cup RowId, overtaken : BOOLEAN, edited : BOOLEAN]
          /\ k.row = k0.row /\ k.op = k0.op
      BY <3>2, <3>3
    <3>5. k \in Request /\ k.op # "adopting"
      BY <3>4 DEF Request
    <3>6. request'[q] = k
      BY <2>2, <3>1, <3>3
    <3> QED
      BY <3>2, <3>4, <3>5, <3>6
  <2> QED
    BY <2>1, <2>2 DEF Holds, SignsUp
<1> QED
  BY <1>1 DEF CallsOK, SignsUp

(* What the manager changes at once keeps the types. *)
LEMMA CsvKeepsTypes ==
  ASSUME Types, NEW C \in SUBSET Contacts, NEW role \in Roles, NEW lines \in [C -> Units],
         ProcessResidentCsv(lines, role)
  PROVE  Types'
<1> DEFINE n == Cardinality(C)
           made(id) == {[id |-> id[c], contact |-> c, unit |-> lines[c], role |-> role,
                         registered |-> FALSE] : c \in C}
<1>1. PICK id \in [C -> (rows + 1) .. (rows + n)] :
        /\ \A c, d \in C : id[c] = id[d] => c = d
        /\ roster' = roster \cup made(id)
        /\ entered' = entered \cup {id[c] : c \in C}
  BY DEF ProcessResidentCsv
<1>2. /\ rows' = rows + n /\ rows + n <= MaxRows /\ \A c \in C : FreeInRoster(c)
      /\ UNCHANGED <<users, accounts, standing, request, newcomers, decided, excused, abandoned>>
  BY DEF ProcessResidentCsv
<1>3. n \in Nat /\ rows \in Nat /\ \A y \in roster : y.id \in Nat /\ y.id <= rows
  BY FS_Subset, FS_CardinalityType, ConstantsAssumption, Numbers DEF Types, RosterOK, Resident, RowId
<1>4. \A c \in C : id[c] \in RowId /\ id[c] > rows /\ id[c] <= rows'
  BY <1>1, <1>2, <1>3, ConstantsAssumption DEF RowId
<1>5. ASSUME NEW x \in made(id)
      PROVE  x \in Resident /\ x.id > rows /\ x.id <= rows' /\ FreeInRoster(x.contact) /\ x.id = id[x.contact]
                /\ x.contact \in C
  <2>1. PICK c \in C : x = [id |-> id[c], contact |-> c, unit |-> lines[c], role |-> role,
                            registered |-> FALSE]
    OBVIOUS
  <2> QED
    BY <1>2, <1>4, <2>1, ConstantsAssumption DEF Resident
<1>6. \A x, y \in made(id) : x.id = y.id \/ x.contact = y.contact => x = y
  <2> SUFFICES ASSUME NEW x \in made(id), NEW y \in made(id), x.id = y.id \/ x.contact = y.contact
               PROVE  x = y
    OBVIOUS
  <2>1. x.contact = y.contact
    BY <1>1, <1>5
  <2>2. PICK c \in C : x = [id |-> id[c], contact |-> c, unit |-> lines[c], role |-> role,
                            registered |-> FALSE]
    OBVIOUS
  <2>3. PICK d \in C : y = [id |-> id[d], contact |-> d, unit |-> lines[d], role |-> role,
                            registered |-> FALSE]
    OBVIOUS
  <2>4. c = d
    BY <2>1, <2>2, <2>3
  <2> QED
    BY <2>2, <2>3, <2>4
<1>7. RosterOK'
  <2>1. roster' \subseteq Resident /\ rows' \in 0 .. MaxRows
    BY <1>1, <1>2, <1>3, <1>5, ConstantsAssumption DEF Types, RosterOK
  <2>2. \A x \in roster' : x.id <= rows'
    BY <1>1, <1>2, <1>3, <1>5
  <2>3. ASSUME NEW x \in roster', NEW y \in roster', x.id = y.id \/ x.contact = y.contact PROVE x = y
    <3>1. \A v \in roster, w \in made(id) : v.id # w.id /\ v.contact # w.contact
      <4> SUFFICES ASSUME NEW v \in roster, NEW w \in made(id) PROVE v.id # w.id /\ v.contact # w.contact
        OBVIOUS
      <4>1. w.id > rows /\ FreeInRoster(w.contact) /\ w \in Resident
        BY <1>5
      <4> QED
        BY <1>3, <4>1 DEF FreeInRoster, Resident, RowId
    <3>2. \A v, w \in roster : v.id = w.id \/ v.contact = w.contact => v = w
      BY DEF Types, RosterOK
    <3> HIDE DEF made
    <3> QED
      BY <1>1, <1>6, <2>3, <3>1, <3>2
  <2> QED
    BY <2>1, <2>2, <2>3 DEF RosterOK
<1>8. CallsOK'
  <2>1. ASSUME NEW q \in Requests, SignsUp(request[q]) PROVE request[q].row <= rows'
    <3>1. request[q].row \in Nat /\ request[q].row <= rows
      BY <2>1, SignUpCall DEF Types, CallsOK, RowId
    <3> QED
      BY <1>2, <1>3, <3>1
  <2> QED
    BY <1>2, <2>1 DEF Types, CallsOK, SignsUp
<1>9. MarksOK'
  <2>1. \A i \in newcomers : i \in Nat /\ i <= rows
    BY DEF Types, MarksOK, RowId
  <2>2. entered' \subseteq RowId
    BY <1>1, <1>4 DEF Types, MarksOK
  <2> QED
    BY <1>2, <1>3, <2>1, <2>2 DEF Types, MarksOK
<1>10. UsersOK'
  <2>1. \A u \in users : u.link \in Nat /\ u.link <= rows
    BY DEF Types, UsersOK, User, RowId
  <2> QED
    BY <1>2, <1>3, <2>1 DEF Types, UsersOK
<1> QED
  BY <1>7, <1>8, <1>9, <1>10 DEF Types

(* The manager's entries, one by one and from an account, keep the types. *)
LEMMA EnteringKeepsTypes ==
  ASSUME Types, NEW r \in Requests, CreateResident(r) \/ CreateResidentFromUser(r)
  PROVE  Types'
<1>0. rows \in Nat /\ accounts \in Nat /\ request[r] \in Request
  BY Numbers DEF Types, CallsOK
<1>1. rows < MaxRows /\ rows' = rows + 1 /\ accounts' = accounts /\ rows + 1 \in RowId /\ Finish(r)
  <2>1. CreateResident(r) => rows < MaxRows /\ rows' = rows + 1 /\ accounts' = accounts /\ Finish(r)
    BY DEF CreateResident
  <2>2. CreateResidentFromUser(r) => rows < MaxRows /\ rows' = rows + 1 /\ accounts' = accounts /\ Finish(r)
    BY DEF CreateResidentFromUser
  <2> QED
    BY <1>0, <2>1, <2>2, ConstantsAssumption DEF RowId
<1>2. CallsOK'
  BY <1>0, <1>1, FinishEffect DEF Types
<1>3. \A i \in newcomers : i \in Nat /\ i <= rows
  BY DEF Types, MarksOK, RowId
<1>4. ASSUME CreateResident(r) PROVE RosterOK' /\ UsersOK' /\ MarksOK'
  <2>1. /\ request[r].contact \in Contacts /\ request[r].unit \in Units /\ request[r].role \in Roles
        /\ request[r].registered \in BOOLEAN
    BY <1>0, <1>4, EnteringCall DEF CreateResident, Holds
  <2>2. PICK x : x = NewRow(request[r].contact, request[r].unit, request[r].role, request[r].registered)
    OBVIOUS
  <2>3. x \in Resident /\ x.id = rows + 1 /\ x.contact = request[r].contact
    BY <1>1, <2>1, <2>2 DEF NewRow, Resident
  <2>4. RosterOK'
    BY <1>1, <1>4, <2>2, <2>3, RowAdded DEF CreateResident, Types
  <2>5. UsersOK'
    <3>1. \A u \in users : u.link \in Nat /\ u.link <= rows
      BY DEF Types, UsersOK, User, RowId
    <3> QED
      BY <1>0, <1>1, <1>4, <3>1 DEF CreateResident, Types, UsersOK
  <2>6. MarksOK'
    BY <1>0, <1>1, <1>3, <1>4 DEF CreateResident, Types, MarksOK
  <2> QED
    BY <2>4, <2>5, <2>6
<1>5. ASSUME CreateResidentFromUser(r) PROVE RosterOK' /\ UsersOK' /\ MarksOK'
  <2>1. PICK old \in User : old = request[r].user
    BY <1>0, <1>5, AdoptingCall DEF CreateResidentFromUser, Holds
  <2>2. old.id \in UserId /\ old.contact \in Contacts /\ old.unit \in Units
    BY DEF User
  <2>3. PICK x : x = NewRow(old.contact, old.unit, "HOUSEHOLDER", TRUE)
    OBVIOUS
  <2>4. x \in Resident /\ x.id = rows + 1 /\ x.contact = old.contact
    BY <1>1, <2>2, <2>3, ConstantsAssumption DEF NewRow, Resident
  <2>5. FreeInRoster(old.contact) /\ roster' = roster \cup {x}
    BY <1>5, <2>1, <2>3 DEF CreateResidentFromUser
  <2>6. RosterOK'
    BY <1>1, <2>4, <2>5, RowAdded DEF Types
  <2>7. PICK u \in users :
          /\ u.id = old.id
          /\ users' = (users \ {u}) \cup {[u EXCEPT !.status = "APPROVED", !.link = rows + 1]}
          /\ excused' \in {excused, excused \cup {old.id}}
    BY <1>5, <2>1 DEF CreateResidentFromUser
  <2>8. PICK v : v = [u EXCEPT !.status = "APPROVED", !.link = rows + 1]
    OBVIOUS
  <2>9. u \in User
    BY DEF Types, UsersOK
  <2>10. v \in User /\ v.id = u.id /\ v.contact = u.contact /\ v.link = rows + 1
    BY <1>1, <2>8, <2>9 DEF User, Statuses
  <2>11. UsersOK'
    BY <1>0, <1>1, <2>7, <2>8, <2>10, UserChanged DEF Types
  <2>12. decided' = decided \cup {old.id} /\ entered' = entered \cup {rows + 1}
         /\ UNCHANGED <<standing, newcomers, abandoned>>
    BY <1>5, <2>1 DEF CreateResidentFromUser
  <2>13. MarksOK'
    BY <1>0, <1>1, <1>3, <2>2, <2>7, <2>12 DEF Types, MarksOK
  <2> QED
    BY <2>6, <2>11, <2>13
<1> QED
  BY <1>2, <1>4, <1>5 DEF Types

(* An edit keeps the types: the contact it gives is free in both tables, and
   at most one account has the entry. *)
LEMMA EditKeepsTypes ==
  ASSUME Types, NEW x \in roster, NEW c \in Contacts, NEW unit \in Units, NEW role \in Roles,
         UpdateResident(x, c, unit, role)
  PROVE  Types'
<1>0. rows \in Nat /\ accounts \in Nat /\ rows' = rows /\ accounts' = accounts
  BY Numbers DEF Types, UpdateResident
<1>1. RosterOK'
  <2>1. PICK y : y = [x EXCEPT !.contact = c, !.unit = unit, !.role = role]
    OBVIOUS
  <2>2. x \in Resident
    BY DEF Types, RosterOK
  <2>3. y \in Resident /\ y.id = x.id /\ y.contact = c
    BY <2>1, <2>2 DEF Resident
  <2> QED
    BY <1>0, <2>1, <2>3, RowChanged DEF Types, UpdateResident
<1>2. CallsOK'
  <2>1. PICK i : i = x.id
    OBVIOUS
  <2>2. request' = [q \in Requests |->
                      IF Holds(q, "matched") /\ request[q].row = i
                      THEN [request[q] EXCEPT !.edited = TRUE] ELSE request[q]]
    BY <2>1 DEF UpdateResident
  <2> QED
    BY <1>0, <2>2, EditedCalls DEF Types
<1>3. MarksOK'
  BY <1>0 DEF Types, MarksOK, UpdateResident
<1>4. UsersOK'
  <2> DEFINE New(u) == [u EXCEPT !.contact = IF c = x.contact THEN @ ELSE c,
                                 !.unit = IF unit = x.unit THEN @ ELSE unit]
             Of(u) == IF u.link = x.id THEN New(u) ELSE u
  <2>1. users' = {Of(u) : u \in users}
    BY DEF UpdateResident
  <2>2. ASSUME NEW u \in users
        PROVE  /\ Of(u) \in User /\ Of(u).id = u.id /\ Of(u).link = u.link
               /\ Of(u).contact = u.contact \/ (u.link = x.id /\ Of(u).contact = c /\ FreeInUsers(c))
    <3>1. u \in User
      BY DEF Types, UsersOK
    <3>2. CASE u.link # x.id
      BY <3>1, <3>2
    <3>3. CASE u.link = x.id
      <4>1. Of(u) = New(u) /\ New(u) \in User /\ New(u).id = u.id /\ New(u).link = u.link
            /\ New(u).contact \in {u.contact, c}
        BY <3>1, <3>3 DEF User
      <4>2. c = u.contact \/ FreeInUsers(c)
        BY <3>3 DEF UpdateResident, Linked
      <4> QED
        BY <3>3, <4>1, <4>2
    <3> QED
      BY <3>2, <3>3
  <2>3. ASSUME NEW u \in users, NEW v \in users,
               \/ u.id = v.id \/ Of(u).contact = Of(v).contact
               \/ u.link = v.link /\ u.link # 0
        PROVE  u = v
    <3>1. x.id # 0
      BY DEF Types, RosterOK, Resident, RowId
    <3> HIDE DEF Of
    <3> QED
      BY <2>2, <2>3, <3>1 DEF Types, UsersOK, FreeInUsers
  <2> HIDE DEF Of
  <2>4. \A v \in users' : v \in User /\ v.id <= accounts /\ v.link <= rows
    BY <2>1, <2>2 DEF Types, UsersOK
  <2>5. ASSUME NEW v \in users', NEW w \in users',
               v.id = w.id \/ v.contact = w.contact \/ (v.link = w.link /\ v.link # 0)
        PROVE  v = w
    <3>1. PICK a \in users : v = Of(a)
      BY <2>1
    <3>2. PICK b \in users : w = Of(b)
      BY <2>1
    <3>3. a = b
      BY <2>2, <2>3, <2>5, <3>1, <3>2
    <3> QED
      BY <3>1, <3>2, <3>3
  <2>6. accounts' \in 0 .. MaxAccounts
    BY <1>0 DEF Types, UsersOK
  <2> QED
    BY <1>0, <2>4, <2>5, <2>6 DEF UsersOK
<1> QED
  BY <1>1, <1>2, <1>3, <1>4 DEF Types

(* Moving out, decisions and cleanups keep the types. *)
LEMMA LeavingKeepsTypes ==
  ASSUME Types,
         \/ \E r \in Requests : DeleteResident(r) \/ UpdateUserStatus(r) \/ Fail(r)
         \/ \E a \in Apartments : DeleteApartment(a) \/ ResidentClean(a)
  PROVE  Types'
<1>0. /\ rows \in Nat /\ accounts \in Nat /\ rows' = rows /\ accounts' = accounts
      /\ newcomers' = newcomers /\ entered' = entered /\ standing' \subseteq Apartments
  BY Numbers DEF Types, MarksOK, DeleteResident, UpdateUserStatus, Fail, DeleteApartment,
     ResidentClean, tables, history
<1>1. CallsOK'
  <2>1. CASE \E r \in Requests : Finish(r)
    BY <1>0, <2>1, FinishEffect DEF Types
  <2>2. CASE request' = request
    BY <1>0, <2>2 DEF Types, CallsOK, SignsUp
  <2> QED
    BY <2>1, <2>2 DEF DeleteResident, UpdateUserStatus, Fail, DeleteApartment, ResidentClean
<1>2. RosterOK'
  <2>1. roster' \subseteq roster
    BY DEF DeleteResident, UpdateUserStatus, Fail, DeleteApartment, ResidentClean, tables
  <2> QED
    BY <1>0, <2>1, RowsGone DEF Types
<1>3. \A u \in users : u \in User /\ u.id \in UserId /\ u.link \in {0} \cup RowId /\ u.status \in Statuses
  BY DEF Types, UsersOK, User
<1>4. \A u, v \in users : u.id = v.id => u = v
  BY DEF Types, UsersOK
<1>5. ASSUME NEW r \in Requests, DeleteResident(r) PROVE UsersOK' /\ MarksOK'
  <2> DEFINE New(u) == [u EXCEPT !.link   = IF u.link = request[r].row THEN 0 ELSE @,
                                 !.status = IF u.id = request[r].user THEN "REJECTED" ELSE @,
                                 !.active = IF u.id = request[r].user THEN FALSE ELSE @]
  <2>1. users' = {New(u) : u \in users}
    BY <1>5 DEF DeleteResident
  <2>2. \A u \in users : /\ New(u) \in User /\ New(u).id = u.id /\ New(u).contact = u.contact
                         /\ New(u).link \in {0, u.link}
    <3> SUFFICES ASSUME NEW u \in users
                 PROVE  /\ New(u) \in User /\ New(u).id = u.id /\ New(u).contact = u.contact
                        /\ New(u).link \in {0, u.link}
      OBVIOUS
    <3>1. u \in User
      BY <1>3
    <3> QED
      BY <3>1 DEF User, Statuses
  <2> HIDE DEF New
  <2>3. UsersOK'
    BY <1>0, <1>4, <2>1, <2>2, UsersMarked DEF Types
  <2>4. decided' \subseteq decided /\ excused' \subseteq UserId /\ abandoned' = abandoned
    BY <1>3, <1>5 DEF DeleteResident, Linked, Types, MarksOK
  <2> QED
    BY <1>0, <2>3, <2>4 DEF Types, MarksOK
<1>6. ASSUME NEW r \in Requests, UpdateUserStatus(r) PROVE UsersOK' /\ MarksOK'
  <2>1. request[r].status \in Statuses
    BY <1>6, DecidingCall DEF UpdateUserStatus, Holds, Types, CallsOK
  <2> DEFINE New(u) == IF u \in Met(r) THEN [u EXCEPT !.status = request[r].status] ELSE u
  <2>2. users' = {New(u) : u \in users}
    BY <1>6 DEF UpdateUserStatus
  <2>3. \A u \in users : /\ New(u) \in User /\ New(u).id = u.id /\ New(u).contact = u.contact
                         /\ New(u).link \in {0, u.link}
    <3> SUFFICES ASSUME NEW u \in users
                 PROVE  /\ New(u) \in User /\ New(u).id = u.id /\ New(u).contact = u.contact
                        /\ New(u).link \in {0, u.link}
      OBVIOUS
    <3>1. u \in User
      BY <1>3
    <3> QED
      BY <2>1, <3>1 DEF User
  <2> HIDE DEF New
  <2>4. UsersOK'
    BY <1>0, <1>4, <2>2, <2>3, UsersMarked DEF Types
  <2>5. decided' \subseteq UserId /\ excused' = excused /\ abandoned' = abandoned
    BY <1>3, <1>6 DEF UpdateUserStatus, Met, Types, MarksOK
  <2> QED
    BY <1>0, <2>4, <2>5 DEF Types, MarksOK
<1>7. ASSUME NEW r \in Requests, Fail(r) PROVE UsersOK' /\ MarksOK'
  BY <1>7 DEF Fail, tables, history, Types, UsersOK, MarksOK
<1>8. ASSUME NEW a \in Apartments, DeleteApartment(a) PROVE UsersOK' /\ MarksOK'
  <2> DEFINE gone == {x \in roster : ApartmentOf[x.unit] = a}
             New(u) == IF \E x \in gone : x.id = u.link THEN [u EXCEPT !.link = 0] ELSE u
  <2>1. users' = {New(u) : u \in users}
    BY <1>8 DEF DeleteApartment
  <2>2. \A u \in users : /\ New(u) \in User /\ New(u).id = u.id /\ New(u).contact = u.contact
                         /\ New(u).link \in {0, u.link}
    <3> SUFFICES ASSUME NEW u \in users
                 PROVE  /\ New(u) \in User /\ New(u).id = u.id /\ New(u).contact = u.contact
                        /\ New(u).link \in {0, u.link}
      OBVIOUS
    <3>1. u \in User
      BY <1>3
    <3> QED
      BY <3>1 DEF User
  <2>3. excused' \subseteq UserId /\ decided' = decided /\ abandoned' = abandoned
    BY <1>3, <1>8 DEF DeleteApartment, Types, MarksOK
  <2> HIDE DEF New
  <2>4. UsersOK'
    BY <1>0, <1>4, <2>1, <2>2, UsersMarked DEF Types
  <2> QED
    BY <1>0, <2>3, <2>4 DEF Types, MarksOK
<1>9. ASSUME NEW a \in Apartments, ResidentClean(a) PROVE UsersOK' /\ MarksOK'
  <2>1. users' \subseteq users
    BY <1>9 DEF ResidentClean
  <2>2. UsersOK'
    BY <1>0, <2>1, UsersGone DEF Types
  <2>3. abandoned' \subseteq RowId
    <3>1. \A u \in users \ users' : u.link \in RowId
      <4>1. \A u \in users \ users' : \E x \in roster : x.id = u.link
        BY <1>9 DEF ResidentClean
      <4> QED
        BY <4>1 DEF Types, RosterOK, Resident
    <3> QED
      BY <1>9, <3>1 DEF ResidentClean, Types, MarksOK
  <2>4. decided' = decided /\ excused' = excused
    BY <1>9 DEF ResidentClean
  <2> QED
    BY <1>0, <2>2, <2>3, <2>4 DEF Types, MarksOK
<1> QED
  BY <1>1, <1>2, <1>5, <1>6, <1>7, <1>8, <1>9 DEF Types

(* Every step keeps the types. *)
LEMMA TypesKept == Types /\ [Next]_vars => Types'
<1> SUFFICES ASSUME Types, [Next]_vars PROVE Types'
  OBVIOUS
<1>1. CASE UNCHANGED vars
  BY <1>1 DEF vars, Types, RosterOK, UsersOK, CallsOK, MarksOK, SignsUp
<1>2. CASE \E c \in Contacts : PersonStep(c)
  BY <1>2, SignUpKeepsTypes DEF PersonStep
<1>3. CASE ManagerStep
  <2>1. ASSUME NEW C \in SUBSET Contacts \ {{}}, NEW role \in Roles, NEW lines \in [C -> Units],
               ProcessResidentCsv(lines, role)
        PROVE  Types'
    BY <2>1, CsvKeepsTypes
  <2> QED
    BY <1>3, <2>1, LookingUpKeepsTypes, EditKeepsTypes, LeavingKeepsTypes DEF ManagerStep
<1>4. CASE \E r \in Requests : RequestStep(r)
  BY <1>4, SignUpKeepsTypes, EnteringKeepsTypes, LeavingKeepsTypes DEF RequestStep
<1> QED
  BY <1>1, <1>2, <1>3, <1>4 DEF Next

(* They hold at first. *)
LEMMA TypesFirst == Init => Types
BY ConstantsAssumption DEF Init, Types, RosterOK, UsersOK, CallsOK, MarksOK, SignsUp, Idle, Request

(* Both tables, all requests and the histories keep to their types and unique
   columns (TypeOK). *)
THEOREM TypeCorrect == Spec => []TypeOK
<1>1. Types => TypeOK
  BY DEF Types, RosterOK, UsersOK, CallsOK, MarksOK, TypeOK
<1> QED
  BY <1>1, TypesFirst, TypesKept, PTL DEF Spec

-----------------------------------------------------------------------------
(* What a step does, told from its outcome. *)

(* The steps that change no table. *)
Quiet(r) ==
  \/ \E c \in Contacts, unit \in Units, role \in Roles : FindAccount(r, c, unit, role)
  \/ \E u \in users : FindUser(r, u)
  \/ \E x \in roster : ReadResident(r, x)
  \/ \E u \in users, status \in {"APPROVED", "REJECTED"} : FindResidentUser(r, u, status)
  \/ \E a \in Apartments, status \in {"APPROVED", "REJECTED"} : FindApartmentUsers(r, a, status)
  \/ Fail(r)
Edits == \E x \in roster, c \in Contacts, unit \in Units, role \in Roles : UpdateResident(x, c, unit, role)
Files == \E C \in SUBSET Contacts, role \in Roles : \E lines \in [C -> Units] : ProcessResidentCsv(lines, role)

(* Every step is one of these. *)
LEMMA Steps ==
  ASSUME Next
  PROVE  \/ \E r \in Requests :
              \/ \E c \in Contacts, unit \in Units : CheckHouseholder(r, c, unit)
              \/ MatchResident(r) \/ SignUpMatched(r) \/ SignUpUnknown(r) \/ Quiet(r)
              \/ CreateResident(r) \/ CreateResidentFromUser(r)
              \/ DeleteResident(r) \/ UpdateUserStatus(r)
         \/ Edits \/ Files
         \/ \E a \in Apartments : DeleteApartment(a) \/ ResidentClean(a)
<1>1. CASE \E c \in Contacts : PersonStep(c)
  BY <1>1 DEF PersonStep
<1>2. CASE ManagerStep
  BY <1>2 DEF ManagerStep, Quiet, Edits, Files
<1>3. CASE \E r \in Requests : RequestStep(r)
  BY <1>3 DEF RequestStep, Quiet
<1> QED
  BY <1>1, <1>2, <1>3 DEF Next

(* Quiet steps leave everything but one request alone, and that one is no
   sign-up afterwards. *)
LEMMA QuietEffect ==
  ASSUME CallsOK, NEW r \in Requests, Quiet(r)
  PROVE  /\ UNCHANGED <<tables, history>>
         /\ ~SignsUp(request'[r])
         /\ request'[r].op = "adopting" => \E u \in users : FindUser(r, u) /\ request'[r].user = u
         /\ \A q \in Requests \ {r} : request'[q] = request[q]
<1> DEFINE Goal == /\ UNCHANGED <<tables, history>>
                   /\ ~SignsUp(request'[r])
                   /\ request'[r].op = "adopting" => \E u \in users : FindUser(r, u) /\ request'[r].user = u
                   /\ \A q \in Requests \ {r} : request'[q] = request[q]
<1>0. \A k : Becomes(r, k) => request'[r] = k /\ \A q \in Requests \ {r} : request'[q] = request[q]
  BY DEF Becomes, CallsOK
<1>1. ASSUME NEW c \in Contacts, NEW unit \in Units, NEW role \in Roles, FindAccount(r, c, unit, role)
      PROVE  Goal
  BY <1>0, <1>1 DEF FindAccount, SignsUp
<1>2. ASSUME NEW u \in users, FindUser(r, u) PROVE Goal
  BY <1>0, <1>2 DEF FindUser, SignsUp
<1>3. ASSUME NEW x \in roster, ReadResident(r, x) PROVE Goal
  <2>1. PICK i : Becomes(r, [op |-> "evicting", row |-> x.id, user |-> i])
    BY <1>3 DEF ReadResident
  <2> QED
    BY <1>0, <1>3, <2>1 DEF ReadResident, SignsUp
<1>4. ASSUME NEW u \in users, NEW status, FindResidentUser(r, u, status) PROVE Goal
  BY <1>0, <1>4 DEF FindResidentUser, SignsUp
<1>5. ASSUME NEW a, NEW status, FindApartmentUsers(r, a, status) PROVE Goal
  <2>1. PICK ids : Becomes(r, [op |-> "deciding", ids |-> ids, pendingOnly |-> TRUE, status |-> status])
    BY <1>5 DEF FindApartmentUsers
  <2> QED
    BY <1>0, <1>5, <2>1 DEF FindApartmentUsers, SignsUp
<1>6. ASSUME Fail(r) PROVE Goal
  BY <1>0, <1>6 DEF Fail, Finish, Idle, SignsUp
<1> HIDE DEF Goal
<1>7. Goal
  BY <1>1, <1>2, <1>3, <1>4, <1>5, <1>6 DEF Quiet
<1> QED
  BY <1>7 DEF Goal

(* The histories only grow, but for the newcomers and the decisions. *)
LEMMA HistoryGrows ==
  ASSUME Types, Next
  PROVE  /\ entered \subseteq entered' /\ excused \subseteq excused' /\ abandoned \subseteq abandoned'
         /\ rows' \in Nat /\ rows <= rows'
         /\ newcomers' \subseteq newcomers
              \/ \E r \in Requests : SignUpUnknown(r) /\ newcomers' = newcomers \cup {rows + 1}
<1> DEFINE Goal == /\ entered \subseteq entered' /\ excused \subseteq excused' /\ abandoned \subseteq abandoned'
                   /\ newcomers' \subseteq newcomers
                        \/ \E r \in Requests : SignUpUnknown(r) /\ newcomers' = newcomers \cup {rows + 1}
<1>1. ASSUME NEW r \in Requests, Quiet(r) \/ \E c \in Contacts, unit \in Units : CheckHouseholder(r, c, unit)
      PROVE  Goal
  BY <1>1, QuietEffect DEF Types, CheckHouseholder, history
<1>2. ASSUME NEW r \in Requests, MatchResident(r) \/ SignUpMatched(r) PROVE Goal
  BY <1>2 DEF MatchResident, SignUpMatched, history
<1>3. ASSUME NEW r \in Requests, SignUpUnknown(r) PROVE Goal
  BY <1>3 DEF SignUpUnknown
<1>4. ASSUME NEW r \in Requests, CreateResident(r) \/ DeleteResident(r) \/ UpdateUserStatus(r) PROVE Goal
  BY <1>4 DEF CreateResident, DeleteResident, UpdateUserStatus
<1>5. ASSUME NEW r \in Requests, CreateResidentFromUser(r) PROVE Goal
  BY <1>5 DEF CreateResidentFromUser
<1>6. ASSUME Edits PROVE Goal
  BY <1>6 DEF Edits, UpdateResident
<1>7. ASSUME Files PROVE Goal
  BY <1>7 DEF Files, ProcessResidentCsv
<1>8. ASSUME NEW a, DeleteApartment(a) \/ ResidentClean(a) PROVE Goal
  BY <1>8 DEF DeleteApartment, ResidentClean
<1> HIDE DEF Goal
<1>9. Goal
  BY <1>1, <1>2, <1>3, <1>4, <1>5, <1>6, <1>7, <1>8, Steps
<1>10. rows' \in Nat /\ rows <= rows'
  <2>1. rows \in Nat /\ \A C \in SUBSET Contacts : Cardinality(C) \in Nat
    BY Numbers, FS_Subset, FS_CardinalityType, ConstantsAssumption DEF Types
  <2>2. rows' = rows \/ rows' = rows + 1 \/ \E n \in Nat : rows' = rows + n
    <3>1. ASSUME Files PROVE \E n \in Nat : rows' = rows + n
      BY <2>1, <3>1 DEF Files, ProcessResidentCsv
    <3>2. ASSUME NEW r \in Requests, Quiet(r) PROVE rows' = rows
      BY <3>2, QuietEffect DEF Types, tables
    <3> QED
      BY <3>1, <3>2, Steps DEF CheckHouseholder, MatchResident, SignUpMatched, SignUpUnknown, CreateResident,
         CreateResidentFromUser, DeleteResident, UpdateUserStatus, Edits, UpdateResident,
         DeleteApartment, ResidentClean, tables
  <2> QED
    BY <2>1, <2>2
<1> QED
  BY <1>9, <1>10 DEF Goal

(* Where an entry comes from: it was there with the same person and unit, it
   is new, or it was edited and the sign-ups that had found it know. *)
LEMMA RowsAfter ==
  ASSUME Types, Next, NEW y \in roster'
  PROVE  \/ \E x \in roster : /\ x.id = y.id /\ x.contact = y.contact /\ x.unit = y.unit
                              /\ x.role = y.role /\ (x.registered => y.registered)
         \/ y.id > rows
         \/ /\ \E x \in roster : x.id = y.id
            /\ y.id \notin newcomers'
            /\ \A q \in Requests : Holds(q, "matched") /\ request[q].row = y.id =>
                 request'[q] = [request[q] EXCEPT !.edited = TRUE]
<1> DEFINE Goal == \/ \E x \in roster : /\ x.id = y.id /\ x.contact = y.contact /\ x.unit = y.unit
                                        /\ x.role = y.role /\ (x.registered => y.registered)
                   \/ y.id > rows
                   \/ /\ \E x \in roster : x.id = y.id
                      /\ y.id \notin newcomers'
                      /\ \A q \in Requests : Holds(q, "matched") /\ request[q].row = y.id =>
                           request'[q] = [request[q] EXCEPT !.edited = TRUE]
<1>0. rows \in Nat /\ rows + 1 > rows
  BY Numbers DEF Types
<1>1. y \in roster => Goal
  OBVIOUS
<1>2. ASSUME NEW r \in Requests, SignUpMatched(r) PROVE Goal
  <2>1. PICK x \in roster : roster' = (roster \ {x}) \cup {[x EXCEPT !.registered = TRUE]}
    BY <1>2 DEF SignUpMatched
  <2>2. x \in Resident
    BY DEF Types, RosterOK
  <2>3. CASE y = [x EXCEPT !.registered = TRUE]
    BY <2>2, <2>3 DEF Resident
  <2> QED
    BY <1>1, <2>1, <2>3
<1>3. ASSUME NEW c, NEW u, NEW role, NEW reg, roster' = roster \cup {NewRow(c, u, role, reg)} PROVE Goal
  BY <1>0, <1>1, <1>3 DEF NewRow
<1>4. ASSUME Files PROVE Goal
  <2>1. PICK C \in SUBSET Contacts, role \in Roles : \E lines \in [C -> Units] : ProcessResidentCsv(lines, role)
    BY <1>4 DEF Files
  <2>2. PICK lines \in [C -> Units] : ProcessResidentCsv(lines, role)
    BY <2>1
  <2>3. PICK id \in [C -> (rows + 1) .. (rows + Cardinality(C))] :
          roster' = roster \cup {[id |-> id[c], contact |-> c, unit |-> lines[c], role |-> role,
                                  registered |-> FALSE] : c \in C}
    BY <2>2 DEF ProcessResidentCsv
  <2>4. \A c \in C : id[c] > rows
    <3>1. Cardinality(C) \in Nat
      BY FS_Subset, FS_CardinalityType, ConstantsAssumption
    <3> QED
      BY <1>0, <3>1
  <2> QED
    BY <1>1, <2>3, <2>4
<1>5. ASSUME NEW x \in roster, NEW c \in Contacts, NEW unit \in Units, NEW role \in Roles,
             UpdateResident(x, c, unit, role)
      PROVE  Goal
  <2>1. x \in Resident
    BY DEF Types, RosterOK
  <2>2. CASE y = [x EXCEPT !.contact = c, !.unit = unit, !.role = role]
    <3>1. y.id = x.id
      BY <2>1, <2>2 DEF Resident
    <3> QED
      BY <1>5, <3>1 DEF UpdateResident
  <2> QED
    BY <1>1, <1>5, <2>2 DEF UpdateResident
<1>6. ASSUME NEW r \in Requests,
             \/ MatchResident(r) \/ Quiet(r) \/ DeleteResident(r) \/ UpdateUserStatus(r)
             \/ \E c \in Contacts, unit \in Units : CheckHouseholder(r, c, unit)
      PROVE  Goal
  <2>1. roster' \subseteq roster
    BY <1>6, QuietEffect DEF Types, MatchResident, DeleteResident, UpdateUserStatus, CheckHouseholder, tables
  <2> QED
    BY <1>1, <2>1
<1>7. ASSUME NEW a, DeleteApartment(a) \/ ResidentClean(a) PROVE Goal
  BY <1>1, <1>7 DEF DeleteApartment, ResidentClean
<1>8. ASSUME NEW r \in Requests, SignUpUnknown(r) \/ CreateResident(r) \/ CreateResidentFromUser(r) PROVE Goal
  <2>1. CASE SignUpUnknown(r)
    BY <1>3, <2>1 DEF SignUpUnknown
  <2>2. CASE CreateResident(r)
    BY <1>3, <2>2 DEF CreateResident
  <2>3. CASE CreateResidentFromUser(r)
    <3>1. roster' = roster \cup {NewRow(request[r].user.contact, request[r].user.unit, "HOUSEHOLDER", TRUE)}
      BY <2>3 DEF CreateResidentFromUser
    <3> HIDE DEF Goal
    <3> QED
      BY <1>3, <3>1
  <2> QED
    BY <1>8, <2>1, <2>2, <2>3
<1> HIDE DEF Goal
<1>9. Goal
  <2>1. ASSUME Edits PROVE Goal
    BY <1>5, <2>1 DEF Edits
  <2> QED
    BY <1>2, <1>4, <1>6, <1>7, <1>8, <2>1, Steps
<1> QED
  BY <1>9 DEF Goal

(* Where a sign-up stands: it goes on with what it has, knowing more or less
   of what went on around it, it has just looked for a householder, or it has
   just looked for its entry. *)
LEMMA CallsAfter ==
  ASSUME Types, Next, NEW q \in Requests, SignsUp(request'[q])
  PROVE  \/ /\ SignsUp(request[q]) /\ request'[q].op = request[q].op
            /\ request'[q].contact = request[q].contact /\ request'[q].unit = request[q].unit
            /\ request'[q].row = request[q].row
            /\ (request[q].overtaken => request'[q].overtaken)
            /\ (request[q].edited => request'[q].edited)
         \/ /\ request'[q].op = "checked" /\ request'[q].row = 0
            /\ ~HouseholderJoined(request'[q].unit) /\ UNCHANGED <<tables, history>>
         \/ /\ request[q].op = "checked" /\ request'[q].op = "matched"
            /\ request'[q].contact = request[q].contact /\ request'[q].unit = request[q].unit
            /\ request'[q].overtaken = request[q].overtaken
            /\ UNCHANGED <<tables, history>>
            /\ \/ \E x \in roster : x.contact = request[q].contact /\ request'[q].row = x.id
               \/ request'[q].row = request[q].row
<1> DEFINE Goes ==
      /\ SignsUp(request[q]) /\ request'[q].op = request[q].op
      /\ request'[q].contact = request[q].contact /\ request'[q].unit = request[q].unit
      /\ request'[q].row = request[q].row
      /\ (request[q].overtaken => request'[q].overtaken)
      /\ (request[q].edited => request'[q].edited)
    Checks ==
      /\ request'[q].op = "checked" /\ request'[q].row = 0
      /\ ~HouseholderJoined(request'[q].unit) /\ UNCHANGED <<tables, history>>
    Matches ==
      /\ request[q].op = "checked" /\ request'[q].op = "matched"
      /\ request'[q].contact = request[q].contact /\ request'[q].unit = request[q].unit
      /\ request'[q].overtaken = request[q].overtaken
      /\ UNCHANGED <<tables, history>>
      /\ \/ \E x \in roster : x.contact = request[q].contact /\ request'[q].row = x.id
         \/ request'[q].row = request[q].row
<1>0. request[q] \in Request /\ \A r \in Requests : \A k : Becomes(r, k) =>
        request'[r] = k /\ \A p \in Requests \ {r} : request'[p] = request[p]
  BY DEF Becomes, Types, CallsOK
<1>1. request'[q] = request[q] => Goes
  OBVIOUS
<1>2. ASSUME NEW r \in Requests, NEW c \in Contacts, NEW unit \in Units, CheckHouseholder(r, c, unit)
      PROVE  Goes \/ Checks
  <2>1. CASE q = r
    <3>1. request'[q] = [op |-> "checked", contact |-> c, unit |-> unit, row |-> 0,
                         overtaken |-> FALSE, edited |-> FALSE]
      BY <1>0, <1>2, <2>1 DEF CheckHouseholder
    <3> QED
      BY <1>2, <3>1 DEF CheckHouseholder
  <2>2. CASE q # r
    BY <1>0, <1>1, <1>2, <2>2 DEF CheckHouseholder
  <2> QED
    BY <2>1, <2>2
<1>3. ASSUME NEW r \in Requests, MatchResident(r) PROVE Goes \/ Matches
  <2>1. CASE q = r
    <3>1. PICK k0 : k0 = request[q]
      OBVIOUS
    <3>2. k0.op = "checked" /\ k0 \in Request /\ UNCHANGED <<tables, history>>
      BY <1>0, <1>3, <2>1, <3>1 DEF MatchResident, Holds
    <3>3. k0 \in [op : {"checked", "matched"}, contact : Contacts, unit : Units,
                  row : {0} \cup RowId, overtaken : BOOLEAN, edited : BOOLEAN]
      BY <3>2, SignUpCall DEF SignsUp
    <3>4. PICK k : k = request'[q]
      OBVIOUS
    <3>5. \/ \E x \in roster : x.contact = k0.contact /\ k = [k0 EXCEPT !.op = "matched", !.row = x.id]
          \/ k = [k0 EXCEPT !.op = "matched"]
      BY <1>0, <1>3, <2>1, <3>1, <3>4 DEF MatchResident
    <3>6. /\ k.op = "matched" /\ k.contact = k0.contact /\ k.unit = k0.unit
          /\ k.overtaken = k0.overtaken
          /\ \/ \E x \in roster : x.contact = k0.contact /\ k.row = x.id
             \/ k.row = k0.row
      BY <3>3, <3>5
    <3> QED
      BY <3>1, <3>2, <3>4, <3>6
  <2>2. CASE q # r
    BY <1>0, <1>1, <1>3, <2>2 DEF MatchResident
  <2> QED
    BY <2>1, <2>2
<1>4. ASSUME request'[q] = [request[q] EXCEPT !.overtaken = TRUE] \/ request'[q] = [request[q] EXCEPT !.edited = TRUE],
             SignsUp(request[q])
      PROVE  Goes
  <2>1. PICK k0 : k0 = request[q]
    OBVIOUS
  <2>2. k0 \in [op : {"checked", "matched"}, contact : Contacts, unit : Units,
                row : {0} \cup RowId, overtaken : BOOLEAN, edited : BOOLEAN]
    BY <1>0, <1>4, <2>1, SignUpCall
  <2>3. PICK k : k = request'[q]
    OBVIOUS
  <2>4. /\ k.op = k0.op /\ k.contact = k0.contact /\ k.unit = k0.unit /\ k.row = k0.row
        /\ (k0.overtaken => k.overtaken) /\ (k0.edited => k.edited)
    BY <1>4, <2>1, <2>2, <2>3
  <2> QED
    BY <1>4, <2>1, <2>3, <2>4
<1>5. ASSUME NEW r \in Requests, SignUpUnknown(r) PROVE Goes
  BY <1>1, <1>4, <1>5 DEF SignUpUnknown, SignsUp, Idle
<1>6. ASSUME Edits PROVE Goes
  BY <1>1, <1>4, <1>6 DEF Edits, UpdateResident, SignsUp, Holds
<1>7. ASSUME NEW r \in Requests, Finish(r) PROVE Goes
  <2>1. CASE q = r
    BY <1>0, <1>7, <2>1 DEF Finish, Idle, SignsUp
  <2> QED
    BY <1>0, <1>1, <1>7, <2>1 DEF Finish
<1>8. ASSUME NEW r \in Requests, Quiet(r) PROVE Goes
  BY <1>1, <1>8, QuietEffect DEF Types
<1>9. ASSUME Files \/ \E a \in Apartments : DeleteApartment(a) \/ ResidentClean(a) PROVE Goes
  BY <1>1, <1>9 DEF Files, ProcessResidentCsv, DeleteApartment, ResidentClean
<1> HIDE DEF Goes, Checks, Matches
<1>10. Goes \/ Checks \/ Matches
  <2>1. ASSUME NEW r \in Requests,
               \/ SignUpMatched(r) \/ CreateResident(r) \/ CreateResidentFromUser(r)
               \/ DeleteResident(r) \/ UpdateUserStatus(r)
        PROVE  Goes
    BY <1>7, <2>1 DEF SignUpMatched, CreateResident, CreateResidentFromUser, DeleteResident, UpdateUserStatus
  <2> QED
    BY <1>2, <1>3, <1>5, <1>6, <1>8, <1>9, <2>1, Steps
<1> QED
  BY <1>10 DEF Goes, Checks, Matches

(* Where an account comes from: it was there with the same link, its status
   the same unless decided on or rejected; or it lost its link, rejected or
   excused; or it signed up; or the manager adopted it. *)
LEMMA UsersAfter ==
  ASSUME Types, Next, NEW v \in users'
  PROVE  \/ \E u \in users :
              /\ u.id = v.id /\ u.link = v.link
              /\ v.status = u.status \/ v.status = "REJECTED" \/ v.id \in decided'
              /\ u.id \in decided => v.id \in decided' \/ v.status = "REJECTED"
         \/ v.link = 0 /\ (v.status = "REJECTED" \/ v.id \in excused')
         \/ \E r \in Requests :
              /\ SignUpMatched(r) \/ SignUpUnknown(r)
              /\ v.id = accounts + 1 /\ v.link # 0
              /\ SignUpMatched(r) => v.link = request[r].row
              /\ SignUpUnknown(r) => v.status = "PENDING"
         \/ v.id \in decided' /\ v.link # 0 /\ v.link \in entered'
<1> DEFINE Stays == \E u \in users :
              /\ u.id = v.id /\ u.link = v.link
              /\ v.status = u.status \/ v.status = "REJECTED" \/ v.id \in decided'
              /\ u.id \in decided => v.id \in decided' \/ v.status = "REJECTED"
           Loses == v.link = 0 /\ (v.status = "REJECTED" \/ v.id \in excused')
           SignedUp == \E r \in Requests :
              /\ SignUpMatched(r) \/ SignUpUnknown(r)
              /\ v.id = accounts + 1 /\ v.link # 0
              /\ SignUpMatched(r) => v.link = request[r].row
              /\ SignUpUnknown(r) => v.status = "PENDING"
           Adopted == v.id \in decided' /\ v.link # 0 /\ v.link \in entered'
<1>0. /\ rows \in Nat /\ accounts \in Nat
      /\ \A u \in users : u \in User /\ u.link \in Nat
      /\ \A a, b \in users : a.id = b.id => a = b
  BY Numbers DEF Types, UsersOK, User, RowId
<1>1. v \in users /\ decided \subseteq decided' => Stays
  OBVIOUS
<1>2. ASSUME NEW r \in Requests, SignUpMatched(r) \/ SignUpUnknown(r) PROVE Stays \/ SignedUp
  <2>1. PICK status, link : /\ users' = users \cup {NewUser(r, status, link)} /\ link # 0
                            /\ SignUpMatched(r) => link = request[r].row
                            /\ SignUpUnknown(r) => status = "PENDING"
    <3>1. ~(SignUpMatched(r) /\ SignUpUnknown(r))
      BY DEF SignUpMatched, SignUpUnknown
    <3>2. CASE SignUpMatched(r)
      BY <3>1, <3>2 DEF SignUpMatched
    <3>3. CASE SignUpUnknown(r)
      <4>1. users' = users \cup {NewUser(r, "PENDING", rows + 1)} /\ rows + 1 # 0
        BY <1>0, <3>3 DEF SignUpUnknown
      <4> QED
        BY <3>1, <3>3, <4>1
    <3> QED
      BY <1>2, <3>2, <3>3
  <2>2. decided' = decided
    BY <1>2 DEF SignUpMatched, SignUpUnknown
  <2>3. CASE v = NewUser(r, status, link)
    <3>1. v.id = accounts + 1 /\ v.link = link /\ v.status = status
      BY <2>3 DEF NewUser
    <3> QED
      BY <1>2, <2>1, <3>1
  <2> QED
    BY <1>1, <2>1, <2>2, <2>3
<1>3. ASSUME NEW r \in Requests, CreateResidentFromUser(r) PROVE Stays \/ Adopted
  <2>1. PICK u \in users :
          /\ u.id = request[r].user.id
          /\ users' = (users \ {u}) \cup {[u EXCEPT !.status = "APPROVED", !.link = rows + 1]}
    BY <1>3 DEF CreateResidentFromUser
  <2>2. decided' = decided \cup {u.id} /\ rows + 1 \in entered' /\ rows + 1 # 0
    BY <1>0, <1>3, <2>1 DEF CreateResidentFromUser
  <2>3. CASE v = [u EXCEPT !.status = "APPROVED", !.link = rows + 1]
    <3>1. v.id = u.id /\ v.link = rows + 1
      BY <1>0, <2>3 DEF User
    <3> QED
      BY <2>2, <3>1
  <2> QED
    BY <1>1, <2>1, <2>2, <2>3
<1>4. ASSUME NEW x \in roster, NEW c, NEW unit, NEW role, UpdateResident(x, c, unit, role) PROVE Stays
  <2>1. PICK u \in users : v = IF u.link = x.id
               THEN [u EXCEPT !.contact = IF c = x.contact THEN @ ELSE c,
                              !.unit = IF unit = x.unit THEN @ ELSE unit]
               ELSE u
    BY <1>4 DEF UpdateResident
  <2>2. v.id = u.id /\ v.link = u.link /\ v.status = u.status
    BY <1>0, <2>1 DEF User
  <2>3. decided' = decided
    BY <1>4 DEF UpdateResident
  <2> QED
    BY <2>2, <2>3
<1>5. ASSUME NEW r \in Requests, DeleteResident(r) PROVE Stays \/ Loses
  <2>1. PICK u \in users :
          v = [u EXCEPT !.link   = IF u.link = request[r].row THEN 0 ELSE @,
                        !.status = IF u.id = request[r].user THEN "REJECTED" ELSE @,
                        !.active = IF u.id = request[r].user THEN FALSE ELSE @]
    BY <1>5 DEF DeleteResident
  <2>2. /\ v.id = u.id
        /\ v.link = IF u.link = request[r].row THEN 0 ELSE u.link
        /\ v.status = IF u.id = request[r].user THEN "REJECTED" ELSE u.status
    BY <1>0, <2>1 DEF User
  <2>3. decided' = decided \ ({a.id : a \in Linked(request[r].row)} \cup {request[r].user})
        /\ excused' = excused \cup ({a.id : a \in Linked(request[r].row)} \ {request[r].user})
    BY <1>5 DEF DeleteResident
  <2>4. CASE u.link = request[r].row
    <3>1. u.id \in {a.id : a \in Linked(request[r].row)}
      BY <2>4 DEF Linked
    <3> QED
      BY <2>2, <2>3, <2>4, <3>1
  <2>5. CASE u.link # request[r].row
    <3>1. u.id \notin {a.id : a \in Linked(request[r].row)}
      BY <1>0, <2>5 DEF Linked
    <3> QED
      BY <2>2, <2>3, <2>5, <3>1
  <2> QED
    BY <2>4, <2>5
<1>6. ASSUME NEW r \in Requests, UpdateUserStatus(r) PROVE Stays
  <2>1. PICK u \in users : v = IF u \in Met(r) THEN [u EXCEPT !.status = request[r].status] ELSE u
    BY <1>6 DEF UpdateUserStatus
  <2>2. v.id = u.id /\ v.link = u.link /\ (u \notin Met(r) => v.status = u.status)
    BY <1>0, <2>1 DEF User
  <2>3. decided' = decided \cup {a.id : a \in Met(r)}
    BY <1>6 DEF UpdateUserStatus
  <2> QED
    BY <2>2, <2>3
<1>7. ASSUME NEW a, DeleteApartment(a) PROVE Stays \/ Loses
  <2> DEFINE gone == {x \in roster : ApartmentOf[x.unit] = a}
  <2>1. PICK u \in users : v = IF \E x \in gone : x.id = u.link THEN [u EXCEPT !.link = 0] ELSE u
    BY <1>7 DEF DeleteApartment
  <2>2. decided' = decided /\ excused' = excused \cup {b.id : b \in {w \in users : \E x \in gone : x.id = w.link}}
    BY <1>7 DEF DeleteApartment
  <2>3. CASE \E x \in gone : x.id = u.link
    <3>1. v.id = u.id /\ v.link = 0
      BY <1>0, <2>1, <2>3 DEF User
    <3> QED
      BY <2>2, <2>3, <3>1
  <2> QED
    BY <1>1, <2>1, <2>2, <2>3
<1>8. ASSUME NEW r \in Requests,
             \/ MatchResident(r) \/ Quiet(r) \/ CreateResident(r)
             \/ \E c \in Contacts, unit \in Units : CheckHouseholder(r, c, unit)
      PROVE  Stays
  <2>1. users' = users /\ decided' = decided
    BY <1>8, QuietEffect DEF Types, MatchResident, CreateResident, CheckHouseholder, tables, history
  <2> QED
    BY <1>1, <2>1
<1>9. ASSUME Files \/ \E a \in Apartments : ResidentClean(a) PROVE Stays
  <2>1. users' \subseteq users /\ decided' = decided
    BY <1>9 DEF Files, ProcessResidentCsv, ResidentClean
  <2> QED
    BY <1>1, <2>1
<1> HIDE DEF Stays, Loses, SignedUp, Adopted
<1>10. Stays \/ Loses \/ SignedUp \/ Adopted
  <2>1. ASSUME Edits PROVE Stays
    BY <1>4, <2>1 DEF Edits
  <2> QED
    BY <1>2, <1>3, <1>5, <1>6, <1>7, <1>8, <1>9, <2>1, Steps
<1> QED
  BY <1>10 DEF Stays, Loses, SignedUp, Adopted

-----------------------------------------------------------------------------
(* An approved account without an entry stays one that was decided on or
   excused. *)
LEMMA ApprovedKept == Types /\ ApprovedHaveEntry /\ [Next]_vars => ApprovedHaveEntry'
<1> SUFFICES ASSUME Types, ApprovedHaveEntry, [Next]_vars PROVE ApprovedHaveEntry'
  OBVIOUS
<1>1. CASE UNCHANGED vars
  BY <1>1 DEF vars, ApprovedHaveEntry
<1>2. CASE Next
  <2>1. ASSUME NEW v \in users', v.status = "APPROVED", v.link = 0
        PROVE  v.id \in decided' \cup excused'
    BY <1>2, <2>1, UsersAfter, HistoryGrows DEF ApprovedHaveEntry
  <2> QED
    BY <2>1 DEF ApprovedHaveEntry
<1> QED
  BY <1>1, <1>2

(* Moving out takes the approval away, but for overlapping operations
   (ApprovedHaveEntry). *)
THEOREM EvictedLoseApproval == Spec => []ApprovedHaveEntry
<1>1. Init => ApprovedHaveEntry
  BY DEF Init, ApprovedHaveEntry
<1> QED
  BY <1>1, TypesFirst, TypesKept, ApprovedKept, PTL DEF Spec

(* A sign-up that is past the check knows of every newcomer of its unit, and a
   newcomer's entry counts for the check. *)
NewcomersKnown ==
  /\ \A x \in roster : x.id \in newcomers => x.role = "HOUSEHOLDER" /\ x.registered
  /\ \A r \in Requests : SignsUp(request[r]) =>
       \A x \in roster : x.id \in newcomers /\ x.unit = request[r].unit => request[r].overtaken

(* Steps keep that, and the newcomers of a unit one. *)
LEMMA NewcomersKept ==
  Types /\ NewcomersKnown /\ OneNewcomerPerUnit /\ [Next]_vars => NewcomersKnown' /\ OneNewcomerPerUnit'
<1> SUFFICES ASSUME Types, NewcomersKnown, OneNewcomerPerUnit, [Next]_vars
             PROVE  NewcomersKnown' /\ OneNewcomerPerUnit'
  OBVIOUS
<1>0. rows \in Nat /\ rows + 1 > rows /\ \A i \in newcomers : i \in Nat /\ i <= rows
  BY Numbers DEF Types, MarksOK, RowId
<1>1. CASE UNCHANGED vars
  BY <1>1 DEF vars, NewcomersKnown, OneNewcomerPerUnit, SignsUp
<1>2. ASSUME Next, newcomers' \subseteq newcomers PROVE NewcomersKnown' /\ OneNewcomerPerUnit'
  <2>1. ASSUME NEW y \in roster', y.id \in newcomers'
        PROVE  \E x \in roster : /\ x.id = y.id /\ x.id \in newcomers /\ x.unit = y.unit
                                 /\ x.role = y.role /\ (x.registered => y.registered)
    <3>1. y.id \in newcomers /\ ~(y.id > rows)
      BY <1>0, <1>2, <2>1
    <3> QED
      BY <1>2, <2>1, <3>1, RowsAfter
  <2>2. ASSUME NEW y \in roster', NEW z \in roster', y.id \in newcomers', z.id \in newcomers', y.unit = z.unit
        PROVE  y = z
    <3>1. PICK x \in roster : x.id = y.id /\ x.id \in newcomers /\ x.unit = y.unit
      BY <2>1, <2>2
    <3>2. PICK w \in roster : w.id = z.id /\ w.id \in newcomers /\ w.unit = z.unit
      BY <2>1, <2>2
    <3>3. y.id = z.id
      BY <2>2, <3>1, <3>2 DEF OneNewcomerPerUnit
    <3> QED
      BY <1>2, <3>3, TypesKept DEF Types, RosterOK
  <2>3. ASSUME NEW r \in Requests, SignsUp(request'[r]), NEW y \in roster',
               y.id \in newcomers', y.unit = request'[r].unit
        PROVE  request'[r].overtaken
    <3>1. PICK x \in roster : x.id = y.id /\ x.id \in newcomers /\ x.unit = y.unit
                              /\ x.role = "HOUSEHOLDER" /\ x.registered
      BY <2>1, <2>3 DEF NewcomersKnown
    <3>2. ~ ~HouseholderJoined(request'[r].unit)
      BY <2>3, <3>1 DEF HouseholderJoined
    <3>3. /\ SignsUp(request[r]) /\ request'[r].unit = request[r].unit
          /\ request[r].overtaken => request'[r].overtaken
      BY <1>2, <2>3, <3>2, CallsAfter DEF SignsUp
    <3> QED
      BY <2>3, <3>1, <3>3 DEF NewcomersKnown
  <2>4. \A y \in roster' : y.id \in newcomers' => y.role = "HOUSEHOLDER" /\ y.registered
    BY <2>1 DEF NewcomersKnown
  <2> QED
    BY <2>2, <2>3, <2>4 DEF NewcomersKnown, OneNewcomerPerUnit, SignsUp
<1>3. ASSUME NEW r \in Requests, SignUpUnknown(r), newcomers' = newcomers \cup {rows + 1}
      PROVE  NewcomersKnown' /\ OneNewcomerPerUnit'
  <2>1. PICK new : new = NewRow(request[r].contact, request[r].unit, "HOUSEHOLDER", TRUE)
    OBVIOUS
  <2>2. /\ new.id = rows + 1 /\ new.unit = request[r].unit /\ new.role = "HOUSEHOLDER" /\ new.registered
        /\ roster' = roster \cup {new} /\ SignsUp(request[r])
    BY <1>3, <2>1 DEF SignUpUnknown, NewRow, Holds, SignsUp
  <2>3. \A x \in roster : x.id \in Nat /\ x.id <= rows
    BY DEF Types, RosterOK, Resident, RowId
  <2>4. rows + 1 \notin newcomers
    BY <1>0
  <2>5. ~request[r].overtaken
    BY <1>3, <2>4 DEF SignUpUnknown
  <2>6. \A x \in roster : x.id \in newcomers => x.unit # request[r].unit
    BY <2>2, <2>5 DEF NewcomersKnown
  <2>7. \A x \in roster : x.id \in newcomers' => x.id \in newcomers
    BY <1>0, <1>3, <2>3
  <2>8. OneNewcomerPerUnit'
    BY <2>2, <2>6, <2>7 DEF OneNewcomerPerUnit
  <2>9. ASSUME NEW q \in Requests, SignsUp(request'[q]), NEW y \in roster',
               y.id \in newcomers', y.unit = request'[q].unit
        PROVE  request'[q].overtaken
    <3>1. q # r
      BY <1>3, <2>9 DEF SignUpUnknown, Idle, SignsUp
    <3>2. CASE SignsUp(request[q]) /\ request[q].unit = request[r].unit
      <4>1. PICK k0 : k0 = request[q]
        OBVIOUS
      <4>2. k0 \in [op : {"checked", "matched"}, contact : Contacts, unit : Units,
                    row : {0} \cup RowId, overtaken : BOOLEAN, edited : BOOLEAN]
        BY <3>2, <4>1, SignUpCall DEF Types, CallsOK
      <4>3. request'[q] = [k0 EXCEPT !.overtaken = TRUE]
        BY <1>3, <3>1, <3>2, <4>1 DEF SignUpUnknown, SignsUp
      <4> QED
        BY <4>2, <4>3
    <3>3. CASE ~(SignsUp(request[q]) /\ request[q].unit = request[r].unit)
      <4>1. request'[q] = request[q]
        BY <1>3, <3>1, <3>3 DEF SignUpUnknown, SignsUp
      <4>2. y \in roster /\ y.id \in newcomers
        BY <2>2, <2>7, <2>9, <3>3, <4>1
      <4> QED
        BY <2>9, <4>1, <4>2 DEF NewcomersKnown
    <3> QED
      BY <3>2, <3>3
  <2>10. \A y \in roster' : y.id \in newcomers' => y.role = "HOUSEHOLDER" /\ y.registered
    BY <2>2, <2>7 DEF NewcomersKnown
  <2> QED
    BY <2>8, <2>9, <2>10 DEF NewcomersKnown, SignsUp
<1> QED
  BY <1>1, <1>2, <1>3, HistoryGrows

(* Two people nobody had entered do not both become householder of a unit
   unless their sign-ups overlapped (OneNewcomerPerUnit). *)
THEOREM OneHouseholderUnlessOvertaken == Spec => []OneNewcomerPerUnit
<1>1. Init => NewcomersKnown /\ OneNewcomerPerUnit
  BY DEF Init, NewcomersKnown, OneNewcomerPerUnit
<1> QED
  BY <1>1, TypesFirst, TypesKept, NewcomersKept, PTL DEF Spec

-----------------------------------------------------------------------------
(* A sign-up that has looked for its entry has its own person's, unless that
   was edited since; one that has not looked has none. *)
FoundOwn ==
  \A r \in Requests :
    /\ Holds(r, "checked") => request[r].row = 0
    /\ Holds(r, "matched") /\ request[r].row # 0 =>
         request[r].edited \/ \A x \in roster : x.id = request[r].row => x.contact = request[r].contact

(* Steps keep that. *)
LEMMA FoundOwnKept == Types /\ FoundOwn /\ [Next]_vars => FoundOwn'
<1> SUFFICES ASSUME Types, FoundOwn, [Next]_vars PROVE FoundOwn'
  OBVIOUS
<1>1. CASE UNCHANGED vars
  BY <1>1 DEF vars, FoundOwn, Holds
<1>2. CASE Next
  <2> SUFFICES ASSUME NEW r \in Requests, SignsUp(request'[r])
               PROVE  /\ request'[r].op = "checked" => request'[r].row = 0
                      /\ request'[r].op = "matched" /\ request'[r].row # 0 =>
                           \/ request'[r].edited
                           \/ \A y \in roster' : y.id = request'[r].row => y.contact = request'[r].contact
    BY DEF FoundOwn, Holds, SignsUp
  <2>1. CASE /\ SignsUp(request[r]) /\ request'[r].op = request[r].op
             /\ request'[r].contact = request[r].contact /\ request'[r].row = request[r].row
             /\ (request[r].edited => request'[r].edited)
    <3>1. request'[r].op = "checked" => request'[r].row = 0
      BY <2>1 DEF FoundOwn, Holds
    <3>2. ASSUME request'[r].op = "matched", request'[r].row # 0, ~request'[r].edited,
                 NEW y \in roster', y.id = request'[r].row
          PROVE  y.contact = request'[r].contact
      <4>1. request[r].row \in Nat /\ request[r].row <= rows /\ rows \in Nat
        BY <2>1, SignUpCall, Numbers DEF Types, CallsOK, RowId
      <4>2. ~(y.id > rows)
        BY <2>1, <3>2, <4>1
      <4>3. CASE \E x \in roster : x.id = y.id /\ x.contact = y.contact
        BY <2>1, <3>2, <4>3 DEF FoundOwn, Holds
      <4>4. CASE request'[r] = [request[r] EXCEPT !.edited = TRUE]
        <5>1. PICK k0 : k0 = request[r]
          OBVIOUS
        <5>2. k0 \in [op : {"checked", "matched"}, contact : Contacts, unit : Units,
                      row : {0} \cup RowId, overtaken : BOOLEAN, edited : BOOLEAN]
          BY <2>1, <5>1, SignUpCall DEF Types, CallsOK
        <5>3. request'[r] = [k0 EXCEPT !.edited = TRUE]
          BY <4>4, <5>1
        <5> QED
          BY <3>2, <5>2, <5>3
      <4> QED
        BY <1>2, <2>1, <3>2, <4>2, <4>3, <4>4, RowsAfter DEF Holds
    <3> QED
      BY <3>1, <3>2
  <2>2. CASE request'[r].op = "checked" /\ request'[r].row = 0
    BY <2>2
  <2>3. CASE /\ request[r].op = "checked" /\ request'[r].op = "matched"
             /\ request'[r].contact = request[r].contact /\ UNCHANGED <<tables, history>>
             /\ \/ \E x \in roster : x.contact = request[r].contact /\ request'[r].row = x.id
                \/ request'[r].row = request[r].row
    <3>1. CASE request'[r].row = request[r].row
      BY <2>3, <3>1 DEF FoundOwn, Holds
    <3>2. CASE \E x \in roster : x.contact = request[r].contact /\ request'[r].row = x.id
      BY <2>3, <3>2 DEF Types, RosterOK, tables
    <3> QED
      BY <2>3, <3>1, <3>2
  <2> QED
    BY <1>2, <2>1, <2>2, <2>3, CallsAfter
<1> QED
  BY <1>1, <1>2

(* What a linked account and its entry have to do with each other. *)
Agree(u, x) == x.id = u.link /\ x.registered /\ (x.contact = u.contact \/ u.id \in excused)

(* An account and its entry that stay as they are still agree. *)
LEMMA StillAgree ==
  ASSUME Types, Next, NEW u \in users, NEW x \in roster, Agree(u, x), x \in roster'
  PROVE  \E y \in roster' : Agree(u, y)'
BY HistoryGrows DEF Agree

(* Steps keep linked accounts and their entries in agreement. *)
LEMMA LinkedKept == Types /\ FoundOwn /\ LinkedAgree /\ [Next]_vars => LinkedAgree'
<1> SUFFICES ASSUME Types, FoundOwn, LinkedAgree, [Next]_vars PROVE LinkedAgree'
  OBVIOUS
<1> DEFINE Fits(v) == v.link # 0 => \E y \in roster' : Agree(v, y)'
<1>0. /\ rows \in Nat /\ accounts \in Nat /\ rows + 1 # 0
      /\ \A u \in users : u \in User /\ (u.link # 0 => \E x \in roster : Agree(u, x))
      /\ \A x \in roster : x \in Resident /\ x.id \in RowId /\ x.id # 0
      /\ \A x, y \in roster : x.id = y.id => x = y
  BY Numbers DEF Types, UsersOK, RosterOK, Resident, RowId, LinkedAgree, Agree
<1>1. CASE UNCHANGED vars
  BY <1>1 DEF vars, LinkedAgree
<1>2. ASSUME Next, roster \subseteq roster', NEW v \in users PROVE Fits(v)
  BY <1>0, <1>2, StillAgree
<1>3. ASSUME NEW r \in Requests, NEW v \in users', SignUpMatched(r), Next PROVE Fits(v)
  <2>1. PICK x \in roster : x.id = request[r].row
                            /\ roster' = (roster \ {x}) \cup {[x EXCEPT !.registered = TRUE]}
    BY <1>3 DEF SignUpMatched
  <2>2. PICK y \in roster' : y = [x EXCEPT !.registered = TRUE]
    BY <2>1
  <2>3. y.id = x.id /\ y.contact = x.contact /\ y.registered
    BY <1>0, <2>2 DEF Resident
  <2>4. /\ Linked(x.id) = {} /\ request[r].op = "matched" /\ request[r].row # 0
        /\ users' = users \cup {NewUser(r, "APPROVED", request[r].row)}
        /\ request[r].edited => accounts + 1 \in excused'
    BY <1>3, <2>1 DEF SignUpMatched, Holds
  <2>5. CASE v \in users
    <3>1. ASSUME v.link # 0 PROVE \E z \in roster' : Agree(v, z)'
      <4>1. PICK z \in roster : Agree(v, z)
        BY <1>0, <2>5, <3>1
      <4>2. z # x
        BY <2>4, <2>5, <4>1 DEF Linked, Agree
      <4>3. z \in roster'
        BY <2>1, <4>2
      <4> QED
        BY <1>3, <2>5, <4>1, <4>3, StillAgree
    <3> QED
      BY <3>1
  <2>6. CASE v = NewUser(r, "APPROVED", request[r].row)
    <3>1. v.id = accounts + 1 /\ v.link = x.id /\ v.contact = request[r].contact
      BY <2>1, <2>6 DEF NewUser
    <3>2. request[r].edited \/ x.contact = request[r].contact
      BY <2>1, <2>4 DEF FoundOwn, Holds
    <3>3. v.id \in excused' \/ y.contact = v.contact
      BY <2>3, <2>4, <3>1, <3>2
    <3>4. Agree(v, y)'
      BY <2>3, <3>1, <3>3 DEF Agree
    <3> QED
      BY <3>4
  <2> QED
    BY <2>4, <2>5, <2>6
<1>4. ASSUME NEW r \in Requests, NEW v \in users', SignUpUnknown(r), Next PROVE Fits(v)
  <2>1. PICK x \in roster' : x = NewRow(request[r].contact, request[r].unit, "HOUSEHOLDER", TRUE)
    BY <1>4 DEF SignUpUnknown
  <2>2. CASE v = NewUser(r, "PENDING", rows + 1)
    <3>1. Agree(v, x)'
      BY <2>1, <2>2 DEF Agree, NewUser, NewRow
    <3> QED
      BY <3>1
  <2>3. users' = users \cup {NewUser(r, "PENDING", rows + 1)} /\ roster \subseteq roster'
    BY <1>4 DEF SignUpUnknown
  <2> QED
    BY <1>2, <1>4, <2>2, <2>3
<1>5. ASSUME NEW r \in Requests, NEW v \in users', CreateResidentFromUser(r), Next PROVE Fits(v)
  <2>1. PICK old : old = request[r].user
    OBVIOUS
  <2>2. PICK x \in roster' : x = NewRow(old.contact, old.unit, "HOUSEHOLDER", TRUE)
    BY <1>5, <2>1 DEF CreateResidentFromUser
  <2>3. PICK u \in users :
          /\ u.id = old.id
          /\ users' = (users \ {u}) \cup {[u EXCEPT !.status = "APPROVED", !.link = rows + 1]}
          /\ excused' = IF u.contact = old.contact THEN excused ELSE excused \cup {old.id}
    BY <1>5, <2>1 DEF CreateResidentFromUser
  <2>4. CASE v = [u EXCEPT !.status = "APPROVED", !.link = rows + 1]
    <3>1. v.id = u.id /\ v.contact = u.contact /\ v.link = rows + 1
      BY <1>0, <2>4 DEF User
    <3>2. x.id = rows + 1 /\ x.contact = old.contact /\ x.registered
      BY <2>2 DEF NewRow
    <3>3. Agree(v, x)'
      BY <2>3, <3>1, <3>2 DEF Agree
    <3> QED
      BY <3>3
  <2>5. roster \subseteq roster'
    BY <1>5 DEF CreateResidentFromUser
  <2> QED
    BY <1>2, <1>5, <2>3, <2>4, <2>5
<1>6. ASSUME NEW x \in roster, NEW c, NEW unit, NEW role, NEW v \in users',
             UpdateResident(x, c, unit, role), Next
      PROVE  Fits(v)
  <2>1. PICK y \in roster' : y = [x EXCEPT !.contact = c, !.unit = unit, !.role = role]
    BY <1>6 DEF UpdateResident
  <2>2. y.id = x.id /\ y.contact = c /\ y.registered = x.registered
    BY <1>0, <2>1 DEF Resident
  <2>3. PICK u \in users : v = IF u.link = x.id
               THEN [u EXCEPT !.contact = IF c = x.contact THEN @ ELSE c,
                              !.unit = IF unit = x.unit THEN @ ELSE unit]
               ELSE u
    BY <1>6 DEF UpdateResident
  <2>4. excused' = excused /\ roster' = (roster \ {x}) \cup {y}
    BY <1>6, <2>1 DEF UpdateResident
  <2>5. CASE u.link = x.id
    <3>1. v.id = u.id /\ v.link = x.id /\ v.contact = IF c = x.contact THEN u.contact ELSE c
      BY <1>0, <2>3, <2>5 DEF User
    <3>2. PICK z \in roster : Agree(u, z)
      BY <1>0, <2>5
    <3>3. z = x
      BY <1>0, <2>5, <3>2 DEF Agree
    <3>4. Agree(v, y)'
      BY <2>2, <2>4, <3>1, <3>2, <3>3 DEF Agree
    <3> QED
      BY <3>4
  <2>6. CASE u.link # x.id
    <3>1. ASSUME v.link # 0 PROVE \E z \in roster' : Agree(v, z)'
      <4>1. v = u
        BY <2>3, <2>6
      <4>2. PICK z \in roster : Agree(u, z)
        BY <1>0, <3>1, <4>1
      <4>3. z \in roster'
        BY <2>4, <2>6, <4>2 DEF Agree
      <4> QED
        BY <1>6, <4>1, <4>2, <4>3, StillAgree
    <3> QED
      BY <3>1
  <2> QED
    BY <2>5, <2>6
<1>7. ASSUME NEW r \in Requests, NEW v \in users', DeleteResident(r), Next PROVE Fits(v)
  <2>1. PICK u \in users :
          v = [u EXCEPT !.link   = IF u.link = request[r].row THEN 0 ELSE @,
                        !.status = IF u.id = request[r].user THEN "REJECTED" ELSE @,
                        !.active = IF u.id = request[r].user THEN FALSE ELSE @]
    BY <1>7 DEF DeleteResident
  <2>2. /\ v.id = u.id /\ v.contact = u.contact
        /\ v.link = IF u.link = request[r].row THEN 0 ELSE u.link
    BY <1>0, <2>1 DEF User
  <2>3. ASSUME v.link # 0 PROVE \E z \in roster' : Agree(v, z)'
    <3>1. u.link # request[r].row /\ v.link = u.link
      BY <2>2, <2>3
    <3>2. PICK z \in roster : Agree(u, z)
      BY <1>0, <2>3, <3>1
    <3>3. z \in roster' /\ excused \subseteq excused'
      BY <1>7, <3>1, <3>2 DEF DeleteResident, Agree
    <3>4. Agree(v, z)'
      BY <2>2, <3>1, <3>2, <3>3 DEF Agree
    <3> QED
      BY <3>3, <3>4
  <2> QED
    BY <2>3
<1>8. ASSUME NEW r \in Requests, NEW v \in users', UpdateUserStatus(r), Next PROVE Fits(v)
  <2>1. PICK u \in users : v = IF u \in Met(r) THEN [u EXCEPT !.status = request[r].status] ELSE u
    BY <1>8 DEF UpdateUserStatus
  <2>2. v.id = u.id /\ v.link = u.link /\ v.contact = u.contact
    BY <1>0, <2>1 DEF User
  <2>3. roster' = roster /\ excused' = excused
    BY <1>8 DEF UpdateUserStatus
  <2>4. ASSUME v.link # 0 PROVE \E z \in roster' : Agree(v, z)'
    <3>1. PICK z \in roster : Agree(u, z)
      BY <1>0, <2>2, <2>4
    <3>2. Agree(v, z)'
      BY <2>2, <2>3, <3>1 DEF Agree
    <3> QED
      BY <2>3, <3>2
  <2> QED
    BY <2>4
<1>9. ASSUME NEW a, NEW v \in users', DeleteApartment(a), Next PROVE Fits(v)
  <2> DEFINE gone == {x \in roster : ApartmentOf[x.unit] = a}
  <2>1. PICK u \in users : v = IF \E x \in gone : x.id = u.link THEN [u EXCEPT !.link = 0] ELSE u
    BY <1>9 DEF DeleteApartment
  <2>2. ASSUME v.link # 0 PROVE \E z \in roster' : Agree(v, z)'
    <3>1. v = u /\ ~\E x \in gone : x.id = u.link
      BY <1>0, <2>1, <2>2 DEF User
    <3>2. PICK z \in roster : Agree(u, z)
      BY <1>0, <2>2, <3>1
    <3>3. z \in roster'
      BY <1>9, <3>1, <3>2 DEF DeleteApartment, Agree
    <3> QED
      BY <1>9, <3>1, <3>2, <3>3, StillAgree
  <2> QED
    BY <2>2
<1>10. ASSUME NEW r \in Requests, NEW v \in users', Next,
              \/ MatchResident(r) \/ Quiet(r) \/ CreateResident(r)
              \/ \E c \in Contacts, unit \in Units : CheckHouseholder(r, c, unit)
       PROVE  Fits(v)
  <2>1. users' = users /\ roster \subseteq roster'
    BY <1>10, QuietEffect DEF Types, MatchResident, CreateResident, CheckHouseholder, tables
  <2> QED
    BY <1>2, <1>10, <2>1
<1>11. ASSUME Files \/ \E a \in Apartments : ResidentClean(a), NEW v \in users', Next PROVE Fits(v)
  <2>1. users' \subseteq users /\ roster \subseteq roster'
    BY <1>11 DEF Files, ProcessResidentCsv, ResidentClean
  <2> QED
    BY <1>2, <1>11, <2>1
<1>12. ASSUME Next, NEW v \in users' PROVE Fits(v)
  <2>1. ASSUME Edits PROVE Fits(v)
    <3>1. PICK x \in roster, c \in Contacts, unit \in Units, role \in Roles : UpdateResident(x, c, unit, role)
      BY <2>1 DEF Edits
    <3> QED
      BY <1>6, <1>12, <3>1
  <2> HIDE DEF Fits
  <2> QED
    BY <1>3, <1>4, <1>5, <1>7, <1>8, <1>9, <1>10, <1>11, <1>12, <2>1, Steps
<1>13. CASE Next
  <2>1. \A v \in users' : v.link # 0 => \E y \in roster' : Agree(v, y)'
    BY <1>12, <1>13
  <2>2. \A v, w \in users' : v.link = w.link /\ v.link # 0 => v = w
    BY <1>13, TypesKept DEF Types, UsersOK
  <2> QED
    BY <2>1, <2>2 DEF Agree, LinkedAgree
<1> QED
  BY <1>1, <1>13

(* A linked account and its entry agree whatever ran at the same time, but for
   edits of the person at work (LinkedAgree). *)
THEOREM LinksAgree == Spec => []LinkedAgree
<1>1. Init => FoundOwn /\ LinkedAgree
  BY DEF Init, FoundOwn, LinkedAgree, Holds, Idle
<1> QED
  BY <1>1, TypesFirst, TypesKept, FoundOwnKept, LinkedKept, PTL DEF Spec

-----------------------------------------------------------------------------
(* An account the manager is about to adopt and that has got an entry since he
   read it has got it from a manager. *)
AdoptedByManager ==
  \A r \in Requests : Holds(r, "adopting") =>
    \A u \in users : u.id = request[r].user.id /\ u.link # 0 => u.link \in entered

(* An entry nobody is linked to was made by a manager or left by a cleanup. *)
FreeAreEntered == \A x \in roster : Linked(x.id) = {} => x.id \in entered \cup abandoned

(* Steps keep the first. *)
LEMMA AdoptedKept == Types /\ AdoptedByManager /\ [Next]_vars => AdoptedByManager'
<1> SUFFICES ASSUME Types, AdoptedByManager, [Next]_vars PROVE AdoptedByManager'
  OBVIOUS
<1>1. CASE UNCHANGED vars
  BY <1>1 DEF vars, AdoptedByManager, Holds
<1>2. CASE Next
  <2> SUFFICES ASSUME NEW q \in Requests, request'[q].op = "adopting", NEW v \in users',
                      v.id = request'[q].user.id, v.link # 0
               PROVE  v.link \in entered'
    BY DEF AdoptedByManager, Holds
  <2>1. \/ request'[q] = request[q]
        \/ \E u \in users : FindUser(q, u) /\ request'[q].user = u /\ UNCHANGED <<tables, history>>
    <3>1. \A r \in Requests : \A k : Becomes(r, k) =>
            request'[r] = k /\ \A p \in Requests \ {r} : request'[p] = request[p]
      BY DEF Becomes, Types, CallsOK
    <3>2. ASSUME NEW r \in Requests, Quiet(r)
          PROVE  \/ request'[q] = request[q]
                 \/ \E u \in users : FindUser(q, u) /\ request'[q].user = u /\ UNCHANGED <<tables, history>>
      BY <3>2, QuietEffect DEF Types
    <3>3. ASSUME NEW r \in Requests, Finish(r) PROVE request'[q] = request[q]
      BY <3>1, <3>3 DEF Finish, Idle
    <3>4. ASSUME NEW r \in Requests, \E c \in Contacts, unit \in Units : CheckHouseholder(r, c, unit)
          PROVE  request'[q] = request[q]
      <4>1. PICK k : Becomes(r, k) /\ k.op = "checked"
        BY <3>4 DEF CheckHouseholder
      <4> QED
        BY <3>1, <4>1
    <3>5. ASSUME NEW r \in Requests, MatchResident(r) PROVE request'[q] = request[q]
      <4>1. PICK k : Becomes(r, k) /\ k.op = "matched"
        <5>1. PICK k0 : k0 = request[r]
          OBVIOUS
        <5>2. k0 \in [op : {"checked", "matched"}, contact : Contacts, unit : Units,
                      row : {0} \cup RowId, overtaken : BOOLEAN, edited : BOOLEAN]
          BY <3>5, <5>1, SignUpCall DEF MatchResident, Holds, SignsUp, Types, CallsOK
        <5>3. PICK k : /\ Becomes(r, k)
                       /\ \/ \E x \in roster : k = [k0 EXCEPT !.op = "matched", !.row = x.id]
                          \/ k = [k0 EXCEPT !.op = "matched"]
          BY <3>5, <5>1 DEF MatchResident
        <5>4. k.op = "matched"
          BY <5>2, <5>3
        <5> QED
          BY <5>3, <5>4
      <4> QED
        BY <3>1, <4>1
    <3>6. ASSUME NEW r \in Requests, SignUpUnknown(r) PROVE request'[q] = request[q]
      <4>1. CASE q # r /\ SignsUp(request[q]) /\ request[q].unit = request[r].unit
        <5>1. PICK k0 : k0 = request[q]
          OBVIOUS
        <5>2. k0 \in [op : {"checked", "matched"}, contact : Contacts, unit : Units,
                      row : {0} \cup RowId, overtaken : BOOLEAN, edited : BOOLEAN]
          BY <4>1, <5>1, SignUpCall DEF Types, CallsOK
        <5>3. request'[q] = [k0 EXCEPT !.overtaken = TRUE]
          BY <3>6, <4>1, <5>1 DEF SignUpUnknown, SignsUp
        <5>4. request'[q].op \in {"checked", "matched"}
          BY <5>2, <5>3
        <5> QED
          BY <5>4
      <4> QED
        BY <3>6, <4>1 DEF SignUpUnknown, SignsUp, Idle
    <3>7. ASSUME Edits PROVE request'[q] = request[q]
      <4>1. CASE request'[q] = [request[q] EXCEPT !.edited = TRUE] /\ SignsUp(request[q])
        <5>1. PICK k0 : k0 = request[q]
          OBVIOUS
        <5>2. k0 \in [op : {"checked", "matched"}, contact : Contacts, unit : Units,
                      row : {0} \cup RowId, overtaken : BOOLEAN, edited : BOOLEAN]
          BY <4>1, <5>1, SignUpCall DEF Types, CallsOK
        <5>3. request'[q] = [k0 EXCEPT !.edited = TRUE]
          BY <4>1, <5>1
        <5>4. request'[q].op \in {"checked", "matched"}
          BY <5>2, <5>3
        <5> QED
          BY <5>4
      <4> QED
        BY <3>7, <4>1 DEF Edits, UpdateResident, SignsUp, Holds
    <3>8. ASSUME NEW r \in Requests,
                 \/ SignUpMatched(r) \/ CreateResident(r) \/ CreateResidentFromUser(r)
                 \/ DeleteResident(r) \/ UpdateUserStatus(r)
          PROVE  request'[q] = request[q]
      BY <3>3, <3>8 DEF SignUpMatched, CreateResident, CreateResidentFromUser, DeleteResident, UpdateUserStatus
    <3>9. ASSUME Files \/ \E a \in Apartments : DeleteApartment(a) \/ ResidentClean(a)
          PROVE  request'[q] = request[q]
      BY <3>9 DEF Files, ProcessResidentCsv, DeleteApartment, ResidentClean
    <3> QED
      BY <1>2, <3>2, <3>4, <3>5, <3>6, <3>7, <3>8, <3>9, Steps
  <2>2. CASE request'[q] = request[q]
    <3>1. request[q].user.id <= accounts /\ request[q].user.id \in Nat /\ accounts \in Nat
      BY <2>2, AdoptingCall, Numbers DEF Types, CallsOK, User, UserId
    <3>2. \A u \in users : u.id = v.id /\ u.link # 0 => u.link \in entered'
      BY <1>2, <2>2, HistoryGrows DEF AdoptedByManager, Holds
    <3>3. ~(v.id = accounts + 1)
      BY <2>2, <3>1
    <3> QED
      BY <1>2, <3>2, <3>3, UsersAfter
  <2>3. CASE \E u \in users : FindUser(q, u) /\ request'[q].user = u /\ UNCHANGED <<tables, history>>
    BY <2>3 DEF FindUser, tables, Types, UsersOK
  <2> QED
    BY <2>1, <2>2, <2>3
<1> QED
  BY <1>1, <1>2

(* An account keeps its entry, or that entry was made by a manager, is left by
   a cleanup or gone. *)
LEMMA LinksAfter ==
  ASSUME Types, AdoptedByManager, Next, NEW u \in users, u.link # 0
  PROVE  \/ \E v \in users' : v.link = u.link
         \/ u.link \in entered' \cup abandoned'
         \/ \A y \in roster' : y.id # u.link
<1> DEFINE Keeps == \E v \in users' : v.link = u.link
           Left == u.link \in entered' \cup abandoned'
           Gone == \A y \in roster' : y.id # u.link
<1>0. \A w \in users : w \in User
  BY DEF Types, UsersOK
<1>1. users \subseteq users' => Keeps
  OBVIOUS
<1>2. ASSUME NEW r \in Requests, CreateResidentFromUser(r) PROVE Keeps \/ Left
  <2>1. PICK w \in users :
          /\ w.id = request[r].user.id
          /\ users' = (users \ {w}) \cup {[w EXCEPT !.status = "APPROVED", !.link = rows + 1]}
    BY <1>2 DEF CreateResidentFromUser
  <2>2. CASE u = w
    BY <1>2, <2>1, <2>2 DEF AdoptedByManager, CreateResidentFromUser
  <2> QED
    BY <2>1, <2>2
<1>3. ASSUME NEW x \in roster, NEW c, NEW unit, NEW role, UpdateResident(x, c, unit, role) PROVE Keeps
  <2>1. PICK v \in users' : v = IF u.link = x.id
               THEN [u EXCEPT !.contact = IF c = x.contact THEN @ ELSE c,
                              !.unit = IF unit = x.unit THEN @ ELSE unit]
               ELSE u
    BY <1>3 DEF UpdateResident
  <2>2. v.link = u.link
    BY <1>0, <2>1 DEF User
  <2> QED
    BY <2>2
<1>4. ASSUME NEW r \in Requests, DeleteResident(r) PROVE Keeps \/ Gone
  <2>1. PICK v \in users' :
          v = [u EXCEPT !.link   = IF u.link = request[r].row THEN 0 ELSE @,
                        !.status = IF u.id = request[r].user THEN "REJECTED" ELSE @,
                        !.active = IF u.id = request[r].user THEN FALSE ELSE @]
    BY <1>4 DEF DeleteResident
  <2>2. v.link = IF u.link = request[r].row THEN 0 ELSE u.link
    BY <1>0, <2>1 DEF User
  <2>3. PICK x \in roster : x.id = request[r].row /\ roster' = roster \ {x}
    BY <1>4 DEF DeleteResident
  <2> QED
    BY <2>2, <2>3 DEF Types, RosterOK
<1>5. ASSUME NEW r \in Requests, UpdateUserStatus(r) PROVE Keeps
  <2>1. PICK v \in users' : v = IF u \in Met(r) THEN [u EXCEPT !.status = request[r].status] ELSE u
    BY <1>5 DEF UpdateUserStatus
  <2>2. v.link = u.link
    BY <1>0, <2>1 DEF User
  <2> QED
    BY <2>2
<1>6. ASSUME NEW a, DeleteApartment(a) PROVE Keeps \/ Gone
  <2> DEFINE gone == {x \in roster : ApartmentOf[x.unit] = a}
  <2>1. PICK v \in users' : v = IF \E x \in gone : x.id = u.link THEN [u EXCEPT !.link = 0] ELSE u
    BY <1>6 DEF DeleteApartment
  <2>2. CASE \E x \in gone : x.id = u.link
    BY <1>6, <2>2 DEF DeleteApartment, Types, RosterOK
  <2> QED
    BY <2>1, <2>2
<1>7. ASSUME NEW a, ResidentClean(a) PROVE Keeps \/ Left
  BY <1>7 DEF ResidentClean
<1>8. ASSUME NEW r \in Requests,
             \/ MatchResident(r) \/ Quiet(r) \/ CreateResident(r) \/ SignUpMatched(r) \/ SignUpUnknown(r)
             \/ \E c \in Contacts, unit \in Units : CheckHouseholder(r, c, unit)
      PROVE  Keeps
  <2>1. users \subseteq users'
    BY <1>8, QuietEffect DEF Types, MatchResident, CreateResident, SignUpMatched, SignUpUnknown,
       CheckHouseholder, tables
  <2> QED
    BY <1>1, <2>1
<1>9. ASSUME Files PROVE Keeps
  BY <1>1, <1>9 DEF Files, ProcessResidentCsv
<1> HIDE DEF Keeps, Left, Gone
<1>10. Keeps \/ Left \/ Gone
  <2>1. ASSUME Edits PROVE Keeps
    BY <1>3, <2>1 DEF Edits
  <2> QED
    BY <1>2, <1>4, <1>5, <1>6, <1>7, <1>8, <1>9, <2>1, Steps
<1> QED
  BY <1>10 DEF Keeps, Left, Gone

(* A new entry is a manager's, or its newcomer is linked to it. *)
LEMMA NewRowsAfter ==
  ASSUME Types, Next, NEW y \in roster', y.id \notin {x.id : x \in roster}
  PROVE  y.id \in entered' \/ \E v \in users' : v.link = y.id
<1> DEFINE Goal == y.id \in entered' \/ \E v \in users' : v.link = y.id
<1>1. ASSUME NEW r \in Requests, SignUpMatched(r) PROVE FALSE
  <2>1. PICK x \in roster : roster' = (roster \ {x}) \cup {[x EXCEPT !.registered = TRUE]}
    BY <1>1 DEF SignUpMatched
  <2>2. x \in Resident
    BY DEF Types, RosterOK
  <2> QED
    BY <2>1, <2>2 DEF Resident
<1>2. ASSUME NEW r \in Requests, SignUpUnknown(r) PROVE Goal
  <2>1. y = NewRow(request[r].contact, request[r].unit, "HOUSEHOLDER", TRUE)
        /\ NewUser(r, "PENDING", rows + 1) \in users'
    BY <1>2 DEF SignUpUnknown
  <2>2. y.id = rows + 1 /\ NewUser(r, "PENDING", rows + 1).link = rows + 1
    BY <2>1 DEF NewRow, NewUser
  <2> QED
    BY <2>1, <2>2
<1>3. ASSUME NEW r \in Requests, CreateResident(r) PROVE Goal
  BY <1>3 DEF CreateResident, NewRow
<1>4. ASSUME NEW r \in Requests, CreateResidentFromUser(r) PROVE Goal
  BY <1>4 DEF CreateResidentFromUser, NewRow
<1>5. ASSUME Files PROVE Goal
  <2>1. PICK C \in SUBSET Contacts, role \in Roles : \E lines \in [C -> Units] : ProcessResidentCsv(lines, role)
    BY <1>5 DEF Files
  <2>2. PICK lines \in [C -> Units] : ProcessResidentCsv(lines, role)
    BY <2>1
  <2>3. PICK id \in [C -> (rows + 1) .. (rows + Cardinality(C))] :
          /\ roster' = roster \cup {[id |-> id[c], contact |-> c, unit |-> lines[c], role |-> role,
                                     registered |-> FALSE] : c \in C}
          /\ entered' = entered \cup {id[c] : c \in C}
    BY <2>2 DEF ProcessResidentCsv
  <2> QED
    BY <2>3
<1>6. ASSUME Edits PROVE FALSE
  <2>1. PICK x \in roster, c \in Contacts, unit \in Units, role \in Roles : UpdateResident(x, c, unit, role)
    BY <1>6 DEF Edits
  <2>2. x \in Resident
    BY DEF Types, RosterOK
  <2>3. [x EXCEPT !.contact = c, !.unit = unit, !.role = role].id = x.id
    BY <2>2 DEF Resident
  <2> QED
    BY <2>1, <2>3 DEF UpdateResident
<1>7. ASSUME NEW r \in Requests,
             \/ MatchResident(r) \/ Quiet(r) \/ DeleteResident(r) \/ UpdateUserStatus(r)
             \/ \E c \in Contacts, unit \in Units : CheckHouseholder(r, c, unit)
      PROVE  FALSE
  <2>1. roster' \subseteq roster
    BY <1>7, QuietEffect DEF Types, MatchResident, DeleteResident, UpdateUserStatus, CheckHouseholder, tables
  <2> QED
    BY <2>1
<1>8. ASSUME NEW a, DeleteApartment(a) \/ ResidentClean(a) PROVE FALSE
  BY <1>8 DEF DeleteApartment, ResidentClean
<1> HIDE DEF Goal
<1>9. Goal
  BY <1>1, <1>2, <1>3, <1>4, <1>5, <1>6, <1>7, <1>8, Steps
<1> QED
  BY <1>9 DEF Goal

(* Steps keep both, and approval the manager's. *)
LEMMA ApprovalKept ==
  Types /\ AdoptedByManager /\ FreeAreEntered /\ ApprovalByManager /\ [Next]_vars
    => FreeAreEntered' /\ ApprovalByManager'
<1> SUFFICES ASSUME Types, AdoptedByManager, FreeAreEntered, ApprovalByManager, [Next]_vars
             PROVE  FreeAreEntered' /\ ApprovalByManager'
  OBVIOUS
<1>1. CASE UNCHANGED vars
  BY <1>1 DEF vars, FreeAreEntered, ApprovalByManager, Linked
<1>2. CASE Next
  <2>1. ASSUME NEW y \in roster', \A v \in users' : v.link # y.id
        PROVE  y.id \in entered' \cup abandoned'
    <3>1. CASE y.id \notin {x.id : x \in roster}
      BY <1>2, <2>1, <3>1, NewRowsAfter
    <3>2. CASE \E x \in roster : x.id = y.id
      <4>1. PICK x \in roster : x.id = y.id
        BY <3>2
      <4>2. CASE Linked(x.id) = {}
        BY <1>2, <4>1, <4>2, HistoryGrows DEF FreeAreEntered
      <4>3. CASE \E u \in users : u.link = x.id
        <5>1. x.id # 0
          BY DEF Types, RosterOK, Resident, RowId
        <5> QED
          BY <1>2, <2>1, <4>1, <4>3, <5>1, LinksAfter
      <4> QED
        BY <4>2, <4>3 DEF Linked
    <3> QED
      BY <3>1, <3>2
  <2>2. FreeAreEntered'
    BY <2>1 DEF FreeAreEntered, Linked
  <2>3. ASSUME NEW v \in users', v.status = "APPROVED", v.link # 0
        PROVE  v.id \in decided' \/ v.link \in entered' \cup abandoned'
    <3>1. ASSUME NEW r \in Requests, SignUpMatched(r), v.link = request[r].row
          PROVE  v.link \in entered' \cup abandoned'
      <4>1. Linked(v.link) = {} /\ \E x \in roster : x.id = v.link
        BY <3>1 DEF SignUpMatched
      <4> QED
        BY <1>2, <4>1, HistoryGrows DEF FreeAreEntered
    <3>2. ASSUME NEW u \in users, u.id = v.id, u.link = v.link, v.status = u.status \/ v.id \in decided',
                 u.id \in decided => v.id \in decided'
          PROVE  v.id \in decided' \/ v.link \in entered' \cup abandoned'
      BY <1>2, <2>3, <3>2, HistoryGrows DEF ApprovalByManager
    <3> QED
      BY <1>2, <2>3, <3>1, <3>2, UsersAfter
  <2> QED
    BY <2>2, <2>3 DEF ApprovalByManager
<1> QED
  BY <1>1, <1>2

(* Who is not on the roster waits for a manager's decision, unless a cleanup
   left the entry (ApprovalByManager). *)
THEOREM ApprovalIsTheManagers == Spec => []ApprovalByManager
<1>1. Init => AdoptedByManager /\ FreeAreEntered /\ ApprovalByManager
  BY DEF Init, AdoptedByManager, FreeAreEntered, ApprovalByManager, Holds, Idle
<1> QED
  BY <1>1, TypesFirst, TypesKept, AdoptedKept, ApprovalKept, PTL DEF Spec
=============================================================================
