------------------------ MODULE SessionTokensProofs ------------------------
(* Safety of sessions, for any numbers of users, browsers, requests, logins  *)
(* and tokens, and for any lifetimes.                                        *)
EXTENDS SessionTokens, TLAPS

(* A request at work is about something; every session belongs to the user
   that the token or the request is about, and has begun. *)
Begun(s) == s[2] <= opened[s[1]]
Owned(t) == t.session[1] = t.user /\ Begun(t.session)
Known ==
  /\ \A r \in Requests : pc[r] # "idle" => call[r] \in Call /\ Owned(call[r])
  /\ \A c \in Clients : jar[c] # NoToken => Owned(jar[c])
  /\ \A x \in tokens : Owned(x.token)
  /\ \A s \in ended : Begun(s)
Types == TypeOK /\ Known

(* The rest of rotateTokens inserts a token of its user. *)
LEMMA SignedToken ==
  ASSUME Types, NEW r \in Requests, pc[r] # "idle"
  PROVE  /\ Signed(r) \in Token /\ Owned(Signed(r))
         /\ Signed(r).user = call[r].user /\ Signed(r).session = call[r].session
<1>1. call[r] \in Call /\ Owned(call[r]) /\ stamp[r] \in 0 .. MaxClock
  BY DEF Types, Known, TypeOK
<1>2. /\ call[r].user \in Users /\ call[r].scope \in BOOLEAN /\ call[r].session \in Session
  BY <1>1 DEF Call
<1>3. Signed(r) \in Token
  BY <1>1, <1>2 DEF Signed, Token
<1> QED
  BY <1>1, <1>3 DEF Signed, Owned

(* A marked row is a row still, and nothing but its mark has changed. *)
LEMMA OneMarked ==
  ASSUME Types, NEW x \in tokens, NEW marks, NEW y,
         y = IF x \in marks THEN [x EXCEPT !.late = TRUE] ELSE x
  PROVE  /\ y \in Row /\ y.token = x.token /\ y.id = x.id /\ y.rival = x.rival
         /\ (x \notin marks /\ y = x) \/ (x \in marks /\ y.late)
<1>1. x \in Row
  BY DEF Types, TypeOK
<1> QED
  BY <1>1 DEF Row

LEMMA MarkEffect ==
  ASSUME Types, NEW rows, rows \subseteq tokens, NEW marks, NEW y \in MarkLate(rows, marks)
  PROVE  \E x \in rows : /\ y \in Row /\ y.token = x.token /\ y.id = x.id /\ y.rival = x.rival
                         /\ (x \notin marks /\ y = x) \/ (x \in marks /\ y.late)
<1>1. PICK x \in rows : y = IF x \in marks THEN [x EXCEPT !.late = TRUE] ELSE x
  BY DEF MarkLate
<1> QED
  BY <1>1, OneMarked

(* A request that is over leaves the types of the work as they are. *)
LEMMA OverEffect ==
  ASSUME Types, NEW r \in Requests, Over(r)
  PROVE  /\ pc' \in [Requests -> {"idle", "checked", "deleting", "answer"}]
         /\ call' \in [Requests -> Call \cup {NoCall}]
         /\ stamp' \in [Requests -> 0 .. MaxClock]
         /\ seen' \in [Requests -> SUBSET (1 .. MaxRows)]
         /\ since' \in [Requests -> 0 .. MaxRows]
         /\ rival' = rival \ {r} /\ pc'[r] = "idle"
         /\ \A q \in Requests \ {r} :
              /\ pc'[q] = pc[q] /\ call'[q] = call[q] /\ seen'[q] = seen[q] /\ stamp'[q] = stamp[q]
              /\ since'[q] = since[q]
<1>1. 0 \in 0 .. MaxClock /\ 0 \in 0 .. MaxRows
  BY ConstantsAssumption
<1> QED
  BY <1>1 DEF Types, TypeOK, Over

(* So does one that starts. *)
LEMMA StartEffect ==
  ASSUME Types, NEW r \in Requests, NEW k \in Call, Start(r, k)
  PROVE  /\ pc' \in [Requests -> {"idle", "checked", "deleting", "answer"}]
         /\ call' \in [Requests -> Call \cup {NoCall}]
         /\ orderly' \subseteq Clients
         /\ pc'[r] = "checked" /\ call'[r] = k
         /\ \A q \in Requests \ {r} : pc'[q] = pc[q] /\ call'[q] = call[q]
BY DEF Types, TypeOK, Start, AsksEarly

(* Sessions that end have begun. *)
LEMMA EndEffect ==
  ASSUME Types, NEW gone, gone \subseteq Session, NEW done, End(gone, done)
  PROVE  ended' \subseteq Session /\ ended' = ended \cup gone /\ late' \subseteq Requests
BY DEF Types, TypeOK, End

(* What a starting request is about belongs to its user and has begun. *)
LEMMA StartKeepsKnown ==
  ASSUME Types, NEW r \in Requests, NEW k \in Call, Start(r, k),
         opened' \in [Users -> 0 .. MaxLogins], \A u \in Users : opened[u] <= opened'[u],
         k.session[1] = k.user, k.session[2] <= opened'[k.user],
         UNCHANGED <<jar, tokens, ended>>
  PROVE  Known'
<1>1. ASSUME NEW s \in Session, Begun(s) PROVE s[2] <= opened'[s[1]]
  <2>1. s[1] \in Users /\ s[2] \in Nat
    BY DEF Session
  <2>2. opened[s[1]] \in Nat /\ opened'[s[1]] \in Nat
    BY <2>1, ConstantsAssumption DEF Types, TypeOK
  <2> QED
    BY <1>1, <2>1, <2>2 DEF Begun
<1>2. ASSUME NEW q \in Requests, pc'[q] # "idle"
      PROVE  /\ call'[q] \in Call /\ call'[q].session[1] = call'[q].user
             /\ call'[q].session[2] <= opened'[call'[q].session[1]]
  <2>1. CASE q = r
    BY <2>1, StartEffect
  <2>2. CASE q # r
    <3>1. call'[q] = call[q] /\ call[q] \in Call /\ Owned(call[q])
      BY <1>2, <2>2, StartEffect DEF Types, Known
    <3>2. call[q].session \in Session
      BY <3>1 DEF Call
    <3> QED
      BY <1>1, <3>1, <3>2 DEF Owned
  <2> QED
    BY <2>1, <2>2
<1>3. ASSUME NEW c \in Clients, jar[c] # NoToken
      PROVE  jar[c].session[1] = jar[c].user /\ jar[c].session[2] <= opened'[jar[c].session[1]]
  BY <1>1, <1>3 DEF Types, TypeOK, Known, Owned, Token
<1>4. ASSUME NEW x \in tokens
      PROVE  x.token.session[1] = x.token.user /\ x.token.session[2] <= opened'[x.token.session[1]]
  <2>1. x.token \in Token /\ Owned(x.token)
    BY DEF Types, TypeOK, Known, Row
  <2> QED
    BY <1>1, <2>1 DEF Owned, Token
<1>5. ASSUME NEW s \in ended PROVE s[2] <= opened'[s[1]]
  BY <1>1 DEF Types, TypeOK, Known
<1> QED
  BY <1>2, <1>3, <1>4, <1>5 DEF Known, Owned, Begun

(* login, refresh and the two ways to change a password start. *)
LEMMA StartsKeepTypes ==
  ASSUME Types, NEW r \in Requests, NEW c \in Clients,
         \/ \E u \in Users : Login(r, c, u)
         \/ Refresh(r, c)
         \/ \E kind \in {"change", "profile"} : ChangePassword(r, c, kind)
  PROVE  Types'
<1>1. ASSUME NEW k \in Call, Start(r, k), UNCHANGED <<account, tokens, issued, clock, jar, stamp, seen, since, rival, ended>>,
             late' \subseteq late \cup {r}, opened' \in [Users -> 0 .. MaxLogins],
             \A u \in Users : opened[u] <= opened'[u],
             k.session[1] = k.user, k.session[2] <= opened'[k.user]
      PROVE  Types'
  <2>1. Known'
    BY <1>1, StartKeepsKnown
  <2>2. TypeOK'
    BY <1>1, StartEffect DEF Types, TypeOK
  <2> QED
    BY <2>1, <2>2 DEF Types
<1>2. ASSUME NEW u \in Users, Login(r, c, u) PROVE Types'
  <2>1. /\ opened[u] \in 0 .. MaxLogins /\ opened[u] < MaxLogins
        /\ account[u] \in Account
        /\ opened' = [opened EXCEPT ![u] = opened[u] + 1]
        /\ UNCHANGED <<account, tokens, issued, clock, jar, stamp, seen, since, ended, late, rival>>
    BY <1>2 DEF Login, Reading, Types, TypeOK
  <2>2. /\ <<u, opened[u] + 1>> \in Session /\ opened' \in [Users -> 0 .. MaxLogins]
        /\ \A v \in Users : opened[v] <= opened'[v]
        /\ opened'[u] = opened[u] + 1
    BY <2>1, ConstantsAssumption DEF Session, Types, TypeOK
  <2>3. PICK s \in Session : s = <<u, opened[u] + 1>>
    BY <2>2
  <2>4. PICK b \in BOOLEAN : b = (u \notin Residents \/ account[u].housed)
    OBVIOUS
  <2>5. PICK p \in Passwords : p = account[u].password
    BY <2>1 DEF Account
  <2> DEFINE k == [kind |-> "login", client |-> c, user |-> u, scope |-> b, session |-> s, password |-> p]
  <2>6. k \in Call /\ k.session = s /\ k.user = u
    BY DEF Call
  <2>7. Start(r, k)
    BY <1>2, <2>3, <2>4, <2>5 DEF Login
  <2>8. s[1] = u /\ s[2] = opened[u] + 1
    BY <2>3
  <2> HIDE DEF k
  <2>9. k.session[1] = k.user /\ k.session[2] <= opened'[k.user]
    BY <2>1, <2>2, <2>6, <2>8, ConstantsAssumption
  <2> QED
    BY <1>1, <2>1, <2>2, <2>6, <2>7, <2>9
<1>3. ASSUME Refresh(r, c) \/ \E kind \in {"change", "profile"} : ChangePassword(r, c, kind) PROVE Types'
  <2>1. PICK kind \in {"refresh", "change", "profile"}, b \in BOOLEAN :
          /\ jar[c] # NoToken
          /\ Start(r, [kind |-> kind, client |-> c, user |-> jar[c].user, scope |-> b,
                       session |-> jar[c].session, password |-> account[jar[c].user].password])
          /\ UNCHANGED <<account, tokens, issued, clock, jar, stamp, seen, since, rival, ended, opened>>
          /\ late' \subseteq late \cup {r}
    BY <1>3 DEF Refresh, ChangePassword, Reading, ScopeOnRefresh, Authorized
  <2>2. jar[c] \in Token /\ Owned(jar[c])
    BY <2>1 DEF Types, TypeOK, Known
  <2>3. PICK u \in Users : u = jar[c].user
    BY <2>2 DEF Token
  <2>4. PICK s \in Session : s = jar[c].session
    BY <2>2 DEF Token
  <2>5. account[u] \in Account
    BY DEF Types, TypeOK
  <2>6. PICK p \in Passwords : p = account[u].password
    BY <2>5 DEF Account
  <2> DEFINE k == [kind |-> kind, client |-> c, user |-> u, scope |-> b, session |-> s, password |-> p]
  <2>7. k \in Call /\ k.session = s /\ k.user = u
    BY DEF Call
  <2>8. Start(r, k)
    BY <2>1, <2>3, <2>4, <2>6
  <2> HIDE DEF k
  <2>9. opened' \in [Users -> 0 .. MaxLogins] /\ \A v \in Users : opened[v] <= opened'[v]
    BY <2>1, ConstantsAssumption DEF Types, TypeOK
  <2>10. k.session[1] = k.user /\ k.session[2] <= opened'[k.user]
    BY <2>1, <2>2, <2>3, <2>4, <2>7 DEF Owned, Begun
  <2> QED
    BY <1>1, <2>1, <2>7, <2>8, <2>9, <2>10
<1> QED
  BY <1>2, <1>3

(* A step that starts nothing keeps what is known of the requests. *)
LEMMA KnownKept ==
  ASSUME Types, UNCHANGED opened,
         \A q \in Requests : pc'[q] # "idle" => pc[q] # "idle" /\ call'[q] = call[q],
         \A c \in Clients : jar'[c] # NoToken => Owned(jar'[c]),
         \A x \in tokens' : Owned(x.token),
         \A s \in ended' : Begun(s)
  PROVE  Known'
BY DEF Types, Known, Owned, Begun

(* The sessions of rows have begun. *)
LEMMA SessionsBegun ==
  ASSUME Types, NEW rs, rs \subseteq tokens
  PROVE  Sessions(rs) \subseteq Session /\ \A s \in Sessions(rs) : Begun(s)
BY DEF Types, TypeOK, Known, Owned, Sessions, Row, Token

(* rotateTokens keeps the types. *)
LEMMA RotationKeepsTypes ==
  ASSUME Types, NEW r \in Requests, RotateDelete(r) \/ RotateCommit(r)
  PROVE  Types'
<1>1. CASE RotateDelete(r)
  <2>1. Ids(RowsOf(call[r].user)) \subseteq 1 .. MaxRows
    BY DEF Ids, RowsOf, Types, TypeOK, Row
  <2>2. TypeOK'
    BY <1>1, <2>1 DEF RotateDelete, server, history, Types, TypeOK
  <2>3. \A q \in Requests : pc'[q] # "idle" => pc[q] # "idle" /\ call'[q] = call[q]
    BY <1>1 DEF RotateDelete, Types, TypeOK
  <2>4. Known'
    BY <1>1, <2>3, KnownKept DEF RotateDelete, server, history, Types, Known
  <2> QED
    BY <2>2, <2>4 DEF Types
<1>2. CASE RotateCommit(r)
  <2>1. PICK new : new = [id |-> issued + 1, token |-> Signed(r), late |-> r \in late, rival |-> r \in rival]
    OBVIOUS
  <2>2. tokens' = Others(r) \cup {new} /\ Others(r) \subseteq tokens
    BY <1>2, <2>1 DEF RotateCommit, Others
  <2>3. Signed(r) \in Token /\ Owned(Signed(r)) /\ pc[r] # "idle"
    BY <1>2, SignedToken DEF RotateCommit
  <2>4. issued + 1 \in 1 .. MaxRows /\ issued' = issued + 1
    BY <1>2, ConstantsAssumption DEF RotateCommit, Types, TypeOK
  <2>5. new \in Row /\ Owned(new.token)
    <3>1. new \in Row
      BY <2>1, <2>3, <2>4 DEF Row
    <3>2. new.token = Signed(r)
      BY <2>1
    <3> QED
      BY <2>3, <3>1, <3>2
  <2>6. PICK gone : gone \subseteq Sessions(tokens) /\ End(gone, {})
    BY <1>2 DEF RotateCommit, Without, Sessions
  <2>7. gone \subseteq Session /\ \A s \in gone : Begun(s)
    BY <2>6, SessionsBegun
  <2>8. /\ ended' \subseteq Session /\ ended' = ended \cup gone /\ late' \subseteq Requests
    BY <2>6, <2>7, EndEffect
  <2>9. issued' \in 0 .. MaxRows
    BY <2>4, ConstantsAssumption
  <2>10. TypeOK'
    <3>1. rival' \subseteq Requests /\ pc' \in [Requests -> {"idle", "checked", "deleting", "answer"}]
      BY <1>2 DEF RotateCommit, InFlight, Types, TypeOK
    <3>2. UNCHANGED <<account, clock, jar, call, stamp, seen, since, opened, orderly>>
      BY <1>2 DEF RotateCommit
    <3>3. tokens' \subseteq Row
      BY <2>2, <2>5 DEF Types, TypeOK
    <3> QED
      BY <2>8, <2>9, <3>1, <3>2, <3>3 DEF Types, TypeOK
  <2>11. \A q \in Requests : pc'[q] # "idle" => pc[q] # "idle" /\ call'[q] = call[q]
    BY <1>2 DEF RotateCommit, Types, TypeOK
  <2>12. Known'
    <3>1. \A x \in tokens' : Owned(x.token)
      BY <2>2, <2>5 DEF Types, Known
    <3>2. \A s \in ended' : Begun(s)
      BY <2>7, <2>8 DEF Types, Known
    <3>3. UNCHANGED <<opened, jar>>
      BY <1>2 DEF RotateCommit
    <3> QED
      BY <2>11, <3>1, <3>2, <3>3, KnownKept DEF Types, Known
  <2> QED
    BY <2>10, <2>12 DEF Types
<1> QED
  BY <1>1, <1>2

(* Answers and failures keep the types. *)
LEMMA AnswersKeepTypes ==
  ASSUME Types, NEW r \in Requests, Fail(r) \/ Answer(r) \/ AnswerLost(r)
  PROVE  Types'
<1>1. Over(r) /\ late' \subseteq late /\ UNCHANGED <<account, tokens, issued, clock, opened, ended>>
  BY DEF Fail, Answer, AnswerLost, server
<1>2. orderly' \subseteq Clients
  <2>1. CASE Fail(r) \/ AnswerLost(r)
    BY <2>1 DEF Fail, AnswerLost, Types, TypeOK
  <2>2. CASE Answer(r)
    <3>1. call[r].client \in Clients
      BY <2>2 DEF Answer, Types, Known, Call
    <3> QED
      BY <2>2, <3>1 DEF Answer, Types, TypeOK
  <2> QED
    BY <2>1, <2>2
<1>3. jar' \in [Clients -> Token \cup {NoToken}] /\ \A c \in Clients : jar'[c] # NoToken => Owned(jar'[c])
  <2>1. CASE Fail(r) \/ AnswerLost(r)
    BY <2>1 DEF Fail, AnswerLost, Types, TypeOK, Known
  <2>2. CASE Answer(r)
    <3>1. Signed(r) \in Token /\ Owned(Signed(r))
      BY <2>2, SignedToken DEF Answer
    <3>2. jar' = [jar EXCEPT ![call[r].client] = Signed(r)]
      BY <2>2 DEF Answer
    <3> QED
      BY <3>1, <3>2 DEF Types, TypeOK, Known
  <2> QED
    BY <2>1, <2>2
<1>4. TypeOK'
  BY <1>1, <1>2, <1>3, OverEffect DEF Types, TypeOK
<1>5. \A q \in Requests : pc'[q] # "idle" => pc[q] # "idle" /\ call'[q] = call[q]
  BY <1>1, OverEffect
<1>6. Known'
  BY <1>1, <1>3, <1>5, KnownKept DEF Types, Known
<1> QED
  BY <1>4, <1>6 DEF Types

(* A logout keeps the types. *)
LEMMA LogoutKeepsTypes ==
  ASSUME Types, NEW c \in Clients, Logout(c)
  PROVE  Types'
<1>1. PICK rs : rs = {x \in tokens : SameString(x.token, jar[c])}
  OBVIOUS
<1>2. PICK marks : marks = {x \in tokens : x.token.session = jar[c].session /\ c \notin orderly'}
  OBVIOUS
<1>3. PICK gone : gone = Without(rs) \cup {jar[c].session}
  OBVIOUS
<1>4. /\ rs \subseteq tokens /\ tokens' = MarkLate(tokens \ rs, marks) /\ End(gone, {})
      /\ jar[c] # NoToken
  BY <1>1, <1>2, <1>3 DEF Logout, Authorized
<1>5. gone \subseteq Session /\ \A s \in gone : Begun(s)
  <2>1. jar[c] \in Token /\ Owned(jar[c])
    BY <1>4 DEF Types, TypeOK, Known
  <2>2. jar[c].session \in Session /\ Begun(jar[c].session)
    BY <2>1 DEF Token, Owned
  <2>3. Sessions(rs) \subseteq Session /\ \A s \in Sessions(rs) : Begun(s)
    BY <1>4, SessionsBegun
  <2> QED
    BY <1>3, <2>2, <2>3 DEF Without
<1>6. /\ ended' \subseteq Session /\ ended' = ended \cup gone /\ late' \subseteq Requests
  BY <1>4, <1>5, EndEffect
<1>7. ASSUME NEW y \in tokens' PROVE y \in Row /\ \E x \in tokens : y.token = x.token
  <2>1. tokens \ rs \subseteq tokens
    OBVIOUS
  <2>2. y \in MarkLate(tokens \ rs, marks)
    BY <1>4
  <2>3. PICK x \in tokens \ rs : y.token = x.token
    BY <2>1, <2>2, MarkEffect
  <2>4. y \in Row
    BY <2>1, <2>2, MarkEffect
  <2> QED
    BY <2>3, <2>4
<1>8. /\ jar' = [jar EXCEPT ![c] = NoToken] /\ orderly' \subseteq orderly
      /\ UNCHANGED <<account, issued, clock, pc, call, stamp, seen, since, opened, rival>>
  BY DEF Logout, AsksEarly, work
<1>9. TypeOK'
  <2>1. tokens' \subseteq Row
    BY <1>7
  <2> QED
    BY <1>6, <1>8, <2>1 DEF Types, TypeOK
<1>10. Known'
  <2>1. \A d \in Clients : jar'[d] # NoToken => Owned(jar'[d])
    BY <1>8 DEF Types, TypeOK, Known
  <2>2. \A s \in ended' : Begun(s)
    BY <1>5, <1>6 DEF Types, Known
  <2>3. \A y \in tokens' : Owned(y.token)
    BY <1>7 DEF Types, Known
  <2> QED
    BY <1>8, <2>1, <2>2, <2>3, KnownKept DEF Types, Known
<1> QED
  BY <1>9, <1>10 DEF Types

(* A password change keeps the types. *)
LEMMA ChangesKeepTypes ==
  ASSUME Types, NEW r \in Requests, ChangeDelete(r) \/ \E new \in Passwords : ChangeCommit(r, new)
  PROVE  Types'
<1>1. CASE ChangeDelete(r)
  <2>1. Ids(RowsOf(call[r].user)) \subseteq 1 .. MaxRows
    BY DEF Ids, RowsOf, Types, TypeOK, Row
  <2>2. TypeOK'
    BY <1>1, <2>1, ConstantsAssumption DEF ChangeDelete, server, history, Types, TypeOK
  <2>3. \A q \in Requests : pc'[q] # "idle" => pc[q] # "idle" /\ call'[q] = call[q]
    BY <1>1 DEF ChangeDelete, Types, TypeOK
  <2>4. Known'
    BY <1>1, <2>3, KnownKept DEF ChangeDelete, server, history, Types, Known
  <2> QED
    BY <2>2, <2>4 DEF Types
<1>2. ASSUME NEW new \in Passwords, ChangeCommit(r, new) PROVE Types'
  <2>1. PICK u \in Users : u = call[r].user
    BY <1>2 DEF ChangeCommit, Types, Known, Call
  <2>2. opened[u] \in 0 .. MaxLogins /\ MaxLogins \in Nat
    BY ConstantsAssumption DEF Types, TypeOK
  <2>3. /\ {u} \X (1 .. opened[u]) \subseteq Session /\ \A s \in {u} \X (1 .. opened[u]) : Begun(s)
    BY <2>2 DEF Session, Begun
  <2>4. End({u} \X (1 .. opened[u]), {r})
    BY <1>2, <2>1 DEF ChangeCommit
  <2>5. ended' \subseteq Session /\ ended' = ended \cup ({u} \X (1 .. opened[u])) /\ late' \subseteq Requests
    BY <2>3, <2>4, EndEffect
  <2>6. /\ Others(r) \subseteq tokens
        /\ \E marks : tokens' = MarkLate(Others(r), marks)
        /\ account' = [account EXCEPT ![u].password = new]
        /\ Over(r) /\ UNCHANGED <<issued, clock, jar, opened, orderly>>
    BY <1>2, <2>1 DEF ChangeCommit, Others
  <2>7. ASSUME NEW y \in tokens' PROVE y \in Row /\ Owned(y.token)
    <3>1. PICK marks : tokens' = MarkLate(Others(r), marks)
      BY <2>6
    <3>2. Others(r) \subseteq tokens /\ y \in MarkLate(Others(r), marks)
      BY <2>6, <3>1
    <3>3. PICK x \in Others(r) : y.token = x.token
      BY <3>2, MarkEffect
    <3>4. y \in Row
      BY <3>2, MarkEffect
    <3> QED
      BY <3>2, <3>3, <3>4 DEF Types, Known
  <2>8. account' \in [Users -> Account]
    BY <2>6 DEF Types, TypeOK, Account
  <2>9. TypeOK'
    BY <2>5, <2>6, <2>7, <2>8, OverEffect DEF Types, TypeOK
  <2>10. Known'
    <3>1. \A q \in Requests : pc'[q] # "idle" => pc[q] # "idle" /\ call'[q] = call[q]
      BY <2>6, OverEffect
    <3>2. \A s \in ended' : Begun(s)
      BY <2>3, <2>5 DEF Types, Known
    <3> QED
      BY <2>6, <2>7, <3>1, <3>2, KnownKept DEF Types, Known
  <2> QED
    BY <2>9, <2>10 DEF Types
<1> QED
  BY <1>1, <1>2

(* What happens to accounts, and time, keep the types. *)
LEMMA AccountsKeepTypes ==
  ASSUME Types, (\E u \in Users : AccountStep(u)) \/ Tick \/ UNCHANGED vars
  PROVE  Types'
<1>1. ASSUME NEW u \in Users, NEW status \in {"APPROVED", "REJECTED"}, Decide(u, status) PROVE Types'
  <2>1. account' \in [Users -> Account]
    BY <1>1 DEF Decide, Types, TypeOK, Account
  <2> QED
    BY <1>1, <2>1 DEF Decide, work, history, Types, TypeOK, Known, Owned, Begun
<1>2. ASSUME NEW u \in Users, MoveOut(u) PROVE Types'
  <2>1. account' \in [Users -> Account]
    BY <1>2 DEF MoveOut, Types, TypeOK, Account
  <2> QED
    BY <1>2, <2>1 DEF MoveOut, work, history, Types, TypeOK, Known, Owned, Begun
<1>3. ASSUME NEW u \in Users, DeleteUser(u) PROVE Types'
  <2>1. account' \in [Users -> Account]
    BY <1>3 DEF DeleteUser, Types, TypeOK, Account
  <2>2. PICK gone : gone \subseteq Sessions(tokens) /\ End(gone, {})
    BY <1>3 DEF DeleteUser, RowsOf, Sessions
  <2>3. gone \subseteq Session /\ \A s \in gone : Begun(s)
    BY <2>2, SessionsBegun
  <2>4. /\ ended' \subseteq Session /\ ended' = ended \cup gone /\ late' \subseteq Requests
    BY <2>2, <2>3, EndEffect
  <2>5. tokens' \subseteq tokens
        /\ UNCHANGED <<issued, clock, jar, pc, call, stamp, seen, since, opened, rival, orderly>>
    BY <1>3 DEF DeleteUser, work
  <2>6. TypeOK'
    BY <2>1, <2>4, <2>5 DEF Types, TypeOK
  <2>7. Known'
    <3>1. \A s \in ended' : Begun(s)
      BY <2>3, <2>4 DEF Types, Known
    <3> QED
      BY <2>5, <3>1, KnownKept DEF Types, Known
  <2> QED
    BY <2>6, <2>7 DEF Types
<1>4. CASE Tick
  <2>1. clock' \in 0 .. MaxClock
    BY <1>4, ConstantsAssumption DEF Tick, Types, TypeOK
  <2> QED
    BY <1>4, <2>1 DEF Tick, work, history, Types, TypeOK, Known, Owned, Begun
<1>5. CASE UNCHANGED vars
  BY <1>5 DEF vars, Types, TypeOK, Known, Owned, Begun
<1> QED
  BY <1>1, <1>2, <1>3, <1>4, <1>5 DEF AccountStep

(* Every step keeps the types. *)
LEMMA TypesKept == Types /\ [Next]_vars => Types'
<1> SUFFICES ASSUME Types, [Next]_vars PROVE Types'
  OBVIOUS
<1>1. ASSUME NEW c \in Clients, ClientStep(c) PROVE Types'
  BY <1>1, StartsKeepTypes, LogoutKeepsTypes DEF ClientStep
<1>2. ASSUME NEW r \in Requests, RequestStep(r) PROVE Types'
  BY <1>2, RotationKeepsTypes, AnswersKeepTypes, ChangesKeepTypes DEF RequestStep
<1>3. CASE (\E u \in Users : AccountStep(u)) \/ Tick \/ UNCHANGED vars
  BY <1>3, AccountsKeepTypes
<1> QED
  BY <1>1, <1>2, <1>3 DEF Next

(* At first nobody is logged in. *)
LEMMA TypesFirst == Init => Types
<1> SUFFICES ASSUME Init PROVE Types
  OBVIOUS
<1> DEFINE New == {[status |-> "PENDING", password |-> p, housed |-> TRUE] : p \in Passwords}
<1>1. account \in [Users -> Account]
  <2>1. account \in [Users -> New]
    BY ZenonT(30) DEF Init
  <2>2. \A u \in Users : account[u] \in New
    BY <2>1
  <2>3. \A p \in Passwords : [status |-> "PENDING", password |-> p, housed |-> TRUE] \in Account
    BY DEF Account
  <2>4. New \subseteq Account
    BY <2>3
  <2> HIDE DEF New
  <2> QED
    BY <2>1, <2>2, <2>4
<1>2. 0 \in 0 .. MaxClock /\ 0 \in 0 .. MaxRows /\ 0 \in 0 .. MaxLogins
  BY ConstantsAssumption
<1> QED
  BY <1>1, <1>2 DEF Init, Types, TypeOK, Known

(* Tokens, cookies, requests and the history keep to their types (TypeOK). *)
THEOREM TypeCorrect == Spec => []TypeOK
<1>1. Types => TypeOK
  BY DEF Types
<1> QED
  BY <1>1, TypesFirst, TypesKept, PTL DEF Spec

-----------------------------------------------------------------------------
(* One token for a user. *)

Rotates(r) == call[r].kind \in {"login", "refresh"}

(* The DELETE of a rotation has found all tokens of the user that are there
   still, unless another rotation has committed since. *)
FoundAll ==
  \A r \in Requests : pc[r] = "deleting" /\ Rotates(r) =>
    \A x \in tokens : x.token.user = call[r].user => x.id \in seen[r] \/ r \in rival

(* Rows that go, and work that ends, do not disturb this. *)
LEMMA FewerRows ==
  ASSUME Types, FoundAll, OneTokenPerUser, tokens' \subseteq tokens,
         \A q \in Requests : pc'[q] = "deleting" /\ call'[q].kind \in {"login", "refresh"} =>
           /\ pc[q] = "deleting" /\ call'[q] = call[q] /\ seen'[q] = seen[q]
           /\ q \in rival => q \in rival'
  PROVE  FoundAll' /\ OneTokenPerUser'
<1>1. OneTokenPerUser'
  BY DEF OneTokenPerUser
<1>2. FoundAll'
  BY DEF FoundAll, Rotates
<1> QED
  BY <1>1, <1>2

(* A rotation that commits leaves its own token, and those it did not find. *)
LEMMA RotationLeavesOne ==
  ASSUME Types, FoundAll, OneTokenPerUser, NEW r \in Requests, RotateCommit(r)
  PROVE  FoundAll' /\ OneTokenPerUser'
<1>1. PICK new : new = [id |-> issued + 1, token |-> Signed(r), late |-> r \in late, rival |-> r \in rival]
  OBVIOUS
<1>2. /\ tokens' = Others(r) \cup {new}
      /\ pc[r] = "deleting" /\ Rotates(r)
      /\ rival' = rival \cup {q \in InFlight(call[r].user) \ {r} : pc[q] = "deleting"}
      /\ pc' = [pc EXCEPT ![r] = "answer"]
      /\ UNCHANGED <<call, seen>>
  BY <1>1 DEF RotateCommit, Rotates
<1>3. new.token.user = call[r].user /\ new.rival = (r \in rival)
  <2>1. new.token = Signed(r) /\ new.rival = (r \in rival)
    BY <1>1
  <2> QED
    BY <1>2, <2>1, SignedToken
<1>4. \A x \in Others(r) : x \in tokens /\ (x.token.user = call[r].user => r \in rival)
  BY <1>2 DEF Others, FoundAll
<1>5. ASSUME NEW x \in tokens', NEW y \in tokens', x.token.user = y.token.user, x # y
      PROVE  x.rival \/ y.rival
  <2>1. CASE x = new \/ y = new
    BY <1>2, <1>3, <1>4, <1>5, <2>1
  <2>2. CASE x # new /\ y # new
    BY <1>2, <1>4, <1>5, <2>2 DEF OneTokenPerUser
  <2> QED
    BY <2>1, <2>2
<1>6. ASSUME NEW q \in Requests, pc'[q] = "deleting", call'[q].kind \in {"login", "refresh"},
             NEW x \in tokens', x.token.user = call'[q].user
      PROVE  x.id \in seen'[q] \/ q \in rival'
  <2>1. q # r /\ pc[q] = "deleting" /\ Rotates(q)
    BY <1>2, <1>6 DEF Types, TypeOK, Rotates
  <2>2. CASE x = new
    BY <1>2, <1>3, <1>6, <2>1, <2>2 DEF InFlight
  <2>3. CASE x # new
    BY <1>2, <1>4, <1>6, <2>1, <2>3 DEF FoundAll
  <2> QED
    BY <2>2, <2>3
<1> QED
  BY <1>5, <1>6 DEF FoundAll, OneTokenPerUser, Rotates

(* A step that only marks the rows it leaves does not disturb this either. *)
LEMMA MarkedRows ==
  ASSUME Types, FoundAll, OneTokenPerUser,
         NEW rows, rows \subseteq tokens, NEW marks, tokens' = MarkLate(rows, marks),
         \A q \in Requests : pc'[q] = "deleting" /\ call'[q].kind \in {"login", "refresh"} =>
           /\ pc[q] = "deleting" /\ call'[q] = call[q] /\ seen'[q] = seen[q]
           /\ q \in rival => q \in rival'
  PROVE  FoundAll' /\ OneTokenPerUser'
<1> DEFINE Marked(x) == IF x \in marks THEN [x EXCEPT !.late = TRUE] ELSE x
<1>1. ASSUME NEW y \in tokens'
      PROVE  \E x \in tokens : /\ y = Marked(x)
                              /\ y.token = x.token /\ y.id = x.id /\ y.rival = x.rival
  <2>1. PICK x \in rows : y = IF x \in marks THEN [x EXCEPT !.late = TRUE] ELSE x
    BY <1>1 DEF MarkLate
  <2>2. x \in tokens
    OBVIOUS
  <2>3. y.token = x.token /\ y.id = x.id /\ y.rival = x.rival
    BY <2>1, <2>2, OneMarked
  <2> QED
    BY <2>1, <2>2, <2>3
<1> HIDE DEF Marked
<1>2. ASSUME NEW y \in tokens', NEW z \in tokens', y.token.user = z.token.user, y # z
      PROVE  y.rival \/ z.rival
  <2>1. PICK x \in tokens : y = Marked(x) /\ y.token = x.token /\ y.rival = x.rival
    BY <1>1
  <2>2. PICK w \in tokens : z = Marked(w) /\ z.token = w.token /\ z.rival = w.rival
    BY <1>1
  <2>3. x # w
    BY <1>2, <2>1, <2>2
  <2> QED
    BY <1>2, <2>1, <2>2, <2>3 DEF OneTokenPerUser
<1>3. ASSUME NEW q \in Requests, pc'[q] = "deleting", call'[q].kind \in {"login", "refresh"},
             NEW y \in tokens', y.token.user = call'[q].user
      PROVE  y.id \in seen'[q] \/ q \in rival'
  BY <1>1, <1>3 DEF FoundAll, Rotates
<1> QED
  BY <1>2, <1>3 DEF FoundAll, OneTokenPerUser, Rotates

(* Every step keeps FoundAll and OneTokenPerUser. *)
LEMMA OneTokenKept == Types /\ FoundAll /\ OneTokenPerUser /\ [Next]_vars
                      => FoundAll' /\ OneTokenPerUser'
<1> SUFFICES ASSUME Types, FoundAll, OneTokenPerUser, [Next]_vars
             PROVE  FoundAll' /\ OneTokenPerUser'
  OBVIOUS
<1>1. ASSUME NEW c \in Clients, ClientStep(c) PROVE FoundAll' /\ OneTokenPerUser'
  <2>1. CASE Logout(c)
    <3>1. PICK rows, marks : rows \subseteq tokens /\ tokens' = MarkLate(rows, marks)
      BY <2>1 DEF Logout
    <3>2. UNCHANGED <<pc, call, seen, rival>>
      BY <2>1 DEF Logout, work
    <3> QED
      BY <3>1, <3>2, MarkedRows
  <2>2. ASSUME NEW r \in Requests, NEW k, Start(r, k), UNCHANGED <<tokens, seen, rival>>
        PROVE  FoundAll' /\ OneTokenPerUser'
    BY <2>2, FewerRows DEF Start, Types, TypeOK
  <2> QED
    BY <1>1, <2>1, <2>2 DEF ClientStep, Login, Refresh, ChangePassword, Reading
<1>2. ASSUME NEW r \in Requests, RequestStep(r) PROVE FoundAll' /\ OneTokenPerUser'
  <2>1. CASE RotateDelete(r)
    <3>1. /\ seen'[r] = Ids(RowsOf(call[r].user)) /\ UNCHANGED <<tokens, call, rival>>
          /\ \A q \in Requests \ {r} : pc'[q] = pc[q] /\ seen'[q] = seen[q]
      BY <2>1 DEF RotateDelete, server, history, Types, TypeOK
    <3>2. \A x \in tokens : x.token.user = call[r].user => x.id \in seen'[r]
      BY <3>1 DEF Ids, RowsOf
    <3> QED
      BY <3>1, <3>2 DEF FoundAll, OneTokenPerUser, Rotates
  <2>2. CASE RotateCommit(r)
    BY <2>2, RotationLeavesOne
  <2>3. CASE ChangeDelete(r)
    <3>1. /\ call[r].kind \in {"change", "profile"} /\ UNCHANGED <<tokens, call, rival>>
          /\ \A q \in Requests \ {r} : pc'[q] = pc[q] /\ seen'[q] = seen[q]
      BY <2>3 DEF ChangeDelete, server, history, Types, TypeOK
    <3> QED
      BY <3>1, FewerRows
  <2>4. CASE \E new \in Passwords : ChangeCommit(r, new)
    <3>1. PICK rows, marks : rows \subseteq tokens /\ tokens' = MarkLate(rows, marks)
      BY <2>4 DEF ChangeCommit, Others
    <3>2. Over(r)
      BY <2>4 DEF ChangeCommit
    <3> QED
      BY <3>1, <3>2, MarkedRows, OverEffect
  <2>5. CASE Fail(r) \/ Answer(r) \/ AnswerLost(r)
    <3>1. Over(r) /\ UNCHANGED tokens
      BY <2>5 DEF Fail, Answer, AnswerLost, server
    <3> QED
      BY <3>1, FewerRows, OverEffect
  <2> QED
    BY <1>2, <2>1, <2>2, <2>3, <2>4, <2>5 DEF RequestStep
<1>3. CASE (\E u \in Users : AccountStep(u)) \/ Tick \/ UNCHANGED vars
  <2>1. tokens' \subseteq tokens /\ UNCHANGED <<pc, call, seen, rival>>
    BY <1>3 DEF AccountStep, Decide, MoveOut, DeleteUser, Tick, work, history, vars
  <2> QED
    BY <2>1, FewerRows
<1> QED
  BY <1>1, <1>2, <1>3 DEF Next

(* Two tokens of one user show that two rotations met between DELETE and commit
   (OneTokenPerUser), for any number of browsers and requests. *)
THEOREM OneTokenUnlessRivals == Spec => []OneTokenPerUser
<1>1. Init => FoundAll /\ OneTokenPerUser
  BY DEF Init, FoundAll, OneTokenPerUser
<1> QED
  BY <1>1, TypesFirst, TypesKept, OneTokenKept, PTL DEF Spec

-----------------------------------------------------------------------------
(* Browsers keep their sessions. *)

(* A DELETE finds only rows of its user, that of a password change all of those issued
   before it, and ids are not used again. *)
Numbered ==
  /\ \A x \in tokens : x.id <= issued
  /\ \A x, y \in tokens : x.id = y.id => x.token.user = y.token.user
  /\ \A r \in Requests : pc[r] = "deleting" =>
       /\ \A i \in seen[r] : i <= issued
       /\ \A x \in tokens : x.id \in seen[r] => x.token.user = call[r].user
       /\ ~Rotates(r) => /\ since[r] <= issued
                         /\ \A x \in tokens : x.token.user = call[r].user /\ x.id <= since[r]
                                              => x.id \in seen[r]

(* A session belongs to the browser that logged in and, until its login is answered,
   to that request alone. *)
Owners ==
  /\ \A c, d \in Clients :
       jar[c] # NoToken /\ jar[d] # NoToken /\ jar[c].session = jar[d].session => c = d
  /\ \A r \in Requests, c \in Clients :
       pc[r] # "idle" /\ jar[c] # NoToken /\ call[r].session = jar[c].session
         => call[r].client = c /\ call[r].kind # "login"
  /\ \A r, q \in Requests :
       r # q /\ pc[r] # "idle" /\ pc[q] # "idle" /\ call[r].session = call[q].session
         => call[r].client = call[q].client /\ call[r].kind # "login"

(* A browser that waits for its answers has at most one request at work. *)
Waiting == \A c \in orderly : \A r, q \in Pending(c) : r = q

(* The session s is over, or t is the one token of it in the table. *)
Sole(s, t) ==
  s \in ended \/ \E x \in tokens : x.token = t /\ \A y \in tokens : y.token.session = s <=> y = x

(* What becomes of the session of r: a login has no row before it commits, the DELETE of
   a refresh has found every row, and the answer carries the only row there is. *)
Carried(r) ==
  /\ call[r].kind = "login" /\ pc[r] \in {"checked", "deleting"}
       => call[r].session \in ended \/ \A x \in tokens : x.token.session # call[r].session
  /\ call[r].kind = "refresh" /\ pc[r] = "deleting" /\ call[r].client \in orderly
       => call[r].session \in ended
          \/ \A x \in tokens : x.token.session = call[r].session => x.id \in seen[r]
  /\ pc[r] = "answer" /\ (call[r].kind = "login" \/ call[r].client \in orderly)
       => Sole(call[r].session, Signed(r))

(* What the cookies of c are worth while no new ones are on their way. *)
Kept(c) ==
  jar[c] # NoToken /\ (\A r \in Pending(c) : pc[r] # "answer") => Sole(jar[c].session, jar[c])

SessionsCarried ==
  /\ \A r \in Requests : pc[r] # "idle" => Carried(r)
  /\ \A c \in orderly : Kept(c)

(* A step of another request leaves r as it is. *)
Same(r) == pc'[r] = pc[r] /\ call'[r] = call[r] /\ stamp'[r] = stamp[r] /\ seen'[r] = seen[r]

(* The steps of a request say which one it is and leave the others alone. *)
LEMMA OthersSame ==
  ASSUME Types, NEW r \in Requests,
         \/ \E k : Start(r, k) /\ Reading
         \/ RotateDelete(r) \/ RotateCommit(r) \/ ChangeDelete(r) \/ Over(r)
  PROVE  \A q \in Requests \ {r} : Same(q)
<1>1. ASSUME NEW k, Start(r, k), Reading PROVE \A q \in Requests \ {r} : Same(q)
  BY <1>1 DEF Start, Reading, Types, TypeOK, Same
<1>2. CASE RotateDelete(r)
  BY <1>2 DEF RotateDelete, Types, TypeOK, Same
<1>3. CASE RotateCommit(r)
  BY <1>3 DEF RotateCommit, Types, TypeOK, Same
<1>4. CASE ChangeDelete(r)
  BY <1>4 DEF ChangeDelete, Types, TypeOK, Same
<1>5. CASE Over(r)
  BY <1>5, OverEffect DEF Same
<1> QED
  BY <1>1, <1>2, <1>3, <1>4, <1>5

(* Everything else leaves all requests as they are. *)
LEMMA NoRequestSteps ==
  ASSUME \/ \E c \in Clients : Logout(c)
         \/ \E u \in Users : AccountStep(u)
         \/ Tick \/ UNCHANGED vars
  PROVE  UNCHANGED <<pc, call, stamp, seen, since, issued>>
BY DEF Logout, AccountStep, Decide, MoveOut, DeleteUser, Tick, vars, work

(* How the requests that start begin. *)
LEMMA Starts ==
  ASSUME NEW c \in Clients, ClientStep(c), ~Logout(c)
  PROVE  \E r, k :
           /\ r \in Requests /\ pc[r] = "idle" /\ Start(r, k) /\ k.client = c /\ Reading /\ UNCHANGED ended
           /\ \/ jar[c] # NoToken /\ k.session = jar[c].session /\ k.kind # "login"
              \/ /\ k.kind = "login"
                 /\ \E u \in Users : k.session = <<u, opened[u] + 1>>
<1>1. ASSUME NEW r \in Requests, NEW u \in Users, Login(r, c, u)
      PROVE  \E k : /\ pc[r] = "idle" /\ Start(r, k) /\ k.client = c /\ Reading /\ UNCHANGED ended
                    /\ k.kind = "login" /\ k.session = <<u, opened[u] + 1>>
  <2>1. PICK k : k = [kind |-> "login", client |-> c, user |-> u,
                      scope |-> u \notin Residents \/ account[u].housed,
                      session |-> <<u, opened[u] + 1>>, password |-> account[u].password]
    OBVIOUS
  <2>2. k.client = c /\ k.kind = "login" /\ k.session = <<u, opened[u] + 1>>
    BY <2>1
  <2>3. pc[r] = "idle" /\ Start(r, k) /\ Reading /\ UNCHANGED ended
    BY <1>1, <2>1 DEF Login
  <2> QED
    BY <2>2, <2>3
<1>2. ASSUME NEW r \in Requests, Refresh(r, c)
      PROVE  \E k : /\ pc[r] = "idle" /\ Start(r, k) /\ k.client = c /\ Reading /\ UNCHANGED ended
                    /\ jar[c] # NoToken /\ k.session = jar[c].session /\ k.kind # "login"
  <2>1. PICK k : k = [kind |-> "refresh", client |-> c, user |-> jar[c].user,
                      scope |-> ScopeOnRefresh(jar[c].user),
                      session |-> jar[c].session, password |-> account[jar[c].user].password]
    OBVIOUS
  <2>2. k.client = c /\ k.kind # "login" /\ k.session = jar[c].session
    BY <2>1
  <2>3. pc[r] = "idle" /\ Start(r, k) /\ Reading /\ UNCHANGED ended /\ jar[c] # NoToken
    BY <1>2, <2>1 DEF Refresh
  <2> QED
    BY <2>2, <2>3
<1>3. ASSUME NEW r \in Requests, NEW kind \in {"change", "profile"}, ChangePassword(r, c, kind)
      PROVE  \E k : /\ pc[r] = "idle" /\ Start(r, k) /\ k.client = c /\ Reading /\ UNCHANGED ended
                    /\ jar[c] # NoToken /\ k.session = jar[c].session /\ k.kind # "login"
  <2>1. PICK k : k = [kind |-> kind, client |-> c, user |-> jar[c].user, scope |-> FALSE,
                      session |-> jar[c].session, password |-> account[jar[c].user].password]
    OBVIOUS
  <2>2. k.client = c /\ k.kind # "login" /\ k.session = jar[c].session
    BY <2>1
  <2>3. pc[r] = "idle" /\ Start(r, k) /\ Reading /\ UNCHANGED ended /\ jar[c] # NoToken
    BY <1>3, <2>1 DEF ChangePassword, Authorized
  <2> QED
    BY <2>2, <2>3
<1> QED
  BY <1>1, <1>2, <1>3 DEF ClientStep

(* A session nobody has opened is unknown to the browsers, the requests and the table. *)
LEMMA NewSession ==
  ASSUME Types, NEW u \in Users, NEW s, s = <<u, opened[u] + 1>>
  PROVE  /\ s \notin ended
         /\ \A x \in tokens : x.token.session # s
         /\ \A c \in Clients : jar[c] # NoToken => jar[c].session # s
         /\ \A r \in Requests : pc[r] # "idle" => call[r].session # s
<1>1. ~Begun(s)
  BY ConstantsAssumption DEF Begun, Types, TypeOK
<1> QED
  BY <1>1 DEF Types, Known, Owned

(* The rows of s stay as they are, and s gets no other. *)
Spared(s) ==
  /\ \A x \in tokens' : x.token.session = s => x \in tokens
  /\ (\E x \in tokens : x.token.session = s) => \E x \in tokens' : x.token.session = s

(* A deletion that does not end s leaves it a row. *)
LEMMA Spares ==
  ASSUME NEW rs, rs \subseteq tokens, tokens \ rs \subseteq tokens',
         NEW s, s \notin ended', ended \subseteq ended', s \in Without(rs) => s \in ended',
         \A x \in tokens' : x.token.session = s => x \in tokens
  PROVE  s \notin ended /\ Spared(s)
<1>1. ASSUME NEW x \in tokens, x.token.session = s PROVE \E y \in tokens' : y.token.session = s
  <2>1. s \notin Without(rs)
    OBVIOUS
  <2> QED
    BY <1>1, <2>1 DEF Without, Sessions
<1> QED
  BY <1>1 DEF Spared

(* A password change leaves the sessions of the other users alone. *)
LEMMA ChangeSpares ==
  ASSUME Types, Numbered, NEW r \in Requests, NEW new \in Passwords, ChangeCommit(r, new),
         NEW s, s \notin ended'
  PROVE  s \notin ended /\ Spared(s)
<1>1. PICK u : u = call[r].user
  OBVIOUS
<1>2. PICK marks : marks = {x \in RowsOf(u) : x.id > since[r]}
  OBVIOUS
<1>6. /\ pc[r] = "deleting" /\ Others(r) \subseteq tokens
       /\ tokens' = MarkLate(Others(r), marks)
       /\ ended' = ended \cup ({u} \X (1 .. opened[u]))
  BY <1>1, <1>2 DEF ChangeCommit, End, Others
<1>3. ASSUME NEW x \in tokens, x.token.session = s PROVE x.token.user # u
  <2>1. x.token \in Token /\ Owned(x.token)
    BY DEF Types, TypeOK, Known, Row
  <2>2. PICK t \in Session : t = s /\ t[1] = x.token.user /\ t[2] <= opened[t[1]]
    BY <1>3, <2>1 DEF Token, Owned, Begun
  <2>3. ASSUME x.token.user = u PROVE t \in {u} \X (1 .. opened[u])
    <3>1. t[1] = u /\ t[2] \in 1 .. MaxLogins /\ t[2] <= opened[u] /\ t = <<t[1], t[2]>>
      BY <2>2, <2>3 DEF Session
    <3>2. opened[u] \in Nat
      BY <2>2, <2>3, ConstantsAssumption DEF Types, TypeOK, Session
    <3>3. t[2] \in 1 .. opened[u]
      BY <3>1, <3>2, ConstantsAssumption
    <3> QED
      BY <3>1, <3>3
  <2> QED
    BY <1>6, <2>2, <2>3
<1>4. ASSUME NEW x \in tokens, x.token.session = s PROVE x \in tokens'
  <2>1. x \in Others(r)
    BY <1>1, <1>6, <1>3, <1>4 DEF Numbered, Others
  <2>2. x \notin marks
    BY <1>2, <1>3, <1>4 DEF RowsOf
  <2> QED
    BY <1>6, <2>1, <2>2 DEF MarkLate
<1>5. ASSUME NEW y \in tokens', y.token.session = s PROVE y \in tokens
  <2>1. PICK x \in tokens : y.token = x.token /\ (y = x \/ x \in marks)
    BY <1>6, MarkEffect
  <2> QED
    BY <1>2, <1>3, <1>5, <2>1 DEF RowsOf
<1> QED
  BY <1>6, <1>4, <1>5 DEF Spared

(* A logout marks no row but those of the session it ends. *)
LEMMA LogoutSpares ==
  ASSUME Types, NEW c \in Clients, Logout(c), NEW s, s \notin ended'
  PROVE  s \notin ended /\ Spared(s)
<1>1. PICK rs : rs = {x \in tokens : SameString(x.token, jar[c])}
  OBVIOUS
<1>2. PICK marks : marks = {x \in tokens : x.token.session = jar[c].session /\ c \notin orderly'}
  OBVIOUS
<1>3. /\ rs \subseteq tokens /\ tokens' = MarkLate(tokens \ rs, marks)
      /\ ended' = ended \cup (Without(rs) \cup {jar[c].session})
  BY <1>1, <1>2 DEF Logout, End
<1>4. ASSUME NEW y \in tokens', y.token.session = s PROVE y \in tokens
  <2>1. tokens \ rs \subseteq tokens /\ y \in MarkLate(tokens \ rs, marks)
    BY <1>3
  <2>2. PICK x \in tokens \ rs : y.token = x.token /\ (y = x \/ x \in marks)
    BY <2>1, MarkEffect
  <2> QED
    BY <1>2, <1>3, <1>4, <2>2
<1>5. ASSUME NEW x \in tokens, x.token.session = s PROVE \E y \in tokens' : y.token.session = s
  <2>1. PICK z \in tokens \ rs : z.token.session = s
    BY <1>3, <1>5 DEF Without, Sessions
  <2>2. z \notin marks
    BY <1>2, <1>3, <2>1
  <2> QED
    BY <1>3, <2>1, <2>2 DEF MarkLate
<1> QED
  BY <1>3, <1>4, <1>5 DEF Spared

(* What can happen to the rows of a session that is not over. *)
LEMMA RowFates ==
  ASSUME Types, Numbered, [Next]_vars, NEW s, s \notin ended'
  PROVE  /\ s \notin ended
         /\ Spared(s) \/ \E r \in Requests : RotateCommit(r) /\ call[r].session = s
<1>1. CASE UNCHANGED <<tokens, ended>>
  BY <1>1 DEF Spared
<1>2. ASSUME NEW c \in Clients, Logout(c) PROVE s \notin ended /\ Spared(s)
  BY <1>2, LogoutSpares
<1>3. ASSUME NEW r \in Requests, RotateCommit(r), call[r].session # s PROVE s \notin ended /\ Spared(s)
  <2>1. PICK new : new = [id |-> issued + 1, token |-> Signed(r), late |-> r \in late, rival |-> r \in rival]
    OBVIOUS
  <2>2. new.token.session = call[r].session
    BY <2>1 DEF Signed
  <2>3. PICK rs : rs = tokens \ Others(r)
    OBVIOUS
  <2>4. /\ rs \subseteq tokens /\ tokens' = (tokens \ rs) \cup {new}
        /\ ended' = ended \cup (Without(rs) \ {call[r].session})
    BY <1>3, <2>1, <2>3 DEF RotateCommit, End, Others
  <2> QED
    BY <1>3, <2>2, <2>4, Spares
<1>4. ASSUME NEW u \in Users, DeleteUser(u) PROVE s \notin ended /\ Spared(s)
  <2>1. /\ RowsOf(u) \subseteq tokens /\ tokens' = tokens \ RowsOf(u)
        /\ ended' = ended \cup Sessions(RowsOf(u))
    BY <1>4 DEF DeleteUser, End, RowsOf
  <2> QED
    BY <2>1, Spares DEF Without
<1>5. ASSUME NEW r \in Requests, RequestStep(r)
      PROVE  \/ UNCHANGED <<tokens, ended>> \/ RotateCommit(r)
             \/ \E new \in Passwords : ChangeCommit(r, new)
  BY <1>5 DEF RequestStep, RotateDelete, ChangeDelete, Fail, Answer, AnswerLost, server, history
<1>6. ASSUME NEW c \in Clients, ClientStep(c) PROVE UNCHANGED <<tokens, ended>> \/ Logout(c)
  BY <1>6 DEF ClientStep, Login, Refresh, ChangePassword, Reading
<1>7. ASSUME NEW u \in Users, AccountStep(u) PROVE UNCHANGED <<tokens, ended>> \/ DeleteUser(u)
  BY <1>7 DEF AccountStep, Decide, MoveOut, history
<1>8. CASE Tick \/ UNCHANGED vars
  BY <1>1, <1>8 DEF Tick, vars, history
<1>9. CASE \E r \in Requests : RequestStep(r)
  <2>1. PICK r \in Requests : RequestStep(r)
    BY <1>9
  <2>2. CASE \E new \in Passwords : ChangeCommit(r, new)
    BY <2>2, ChangeSpares
  <2>3. CASE RotateCommit(r) /\ call[r].session = s
    BY <2>3 DEF RotateCommit, End
  <2> QED
    BY <1>1, <1>3, <1>5, <2>1, <2>2, <2>3
<1>10. CASE \E c \in Clients : ClientStep(c)
  BY <1>1, <1>2, <1>6, <1>10
<1>11. CASE \E u \in Users : AccountStep(u)
  BY <1>1, <1>4, <1>7, <1>11
<1> QED
  BY <1>8, <1>9, <1>10, <1>11 DEF Next

(* The one row of a spared session is still the one. *)
LEMMA SparedSole ==
  ASSUME NEW s, NEW t, Sole(s, t), s \notin ended, Spared(s)
  PROVE  \E x \in tokens' : x.token = t /\ \A y \in tokens' : y.token.session = s <=> y = x
<1>1. PICK x \in tokens : x.token = t /\ \A y \in tokens : y.token.session = s <=> y = x
  BY DEF Sole
<1>2. x.token.session = s
  BY <1>1
<1>3. PICK z \in tokens' : z.token.session = s
  BY <1>2 DEF Spared
<1>4. z = x
  BY <1>1, <1>3 DEF Spared
<1> QED
  BY <1>1, <1>2, <1>3, <1>4 DEF Spared

(* Rows keep their numbers, and no DELETE sees another row. *)
LEMMA NumberedStays ==
  ASSUME Numbered, UNCHANGED issued,
         \A y \in tokens' : \E x \in tokens : y.id = x.id /\ y.token = x.token,
         \A q \in Requests : pc'[q] = "deleting" =>
           pc[q] = "deleting" /\ seen'[q] = seen[q] /\ since'[q] = since[q] /\ call'[q] = call[q]
  PROVE  Numbered'
<1>1. \A y \in tokens' : y.id <= issued'
  BY DEF Numbered
<1>2. ASSUME NEW y \in tokens', NEW z \in tokens', y.id = z.id PROVE y.token.user = z.token.user
  BY <1>2 DEF Numbered
<1>3. ASSUME NEW q \in Requests, pc'[q] = "deleting"
      PROVE  /\ \A i \in seen'[q] : i <= issued'
             /\ \A y \in tokens' : y.id \in seen'[q] => y.token.user = call'[q].user
             /\ call'[q].kind \notin {"login", "refresh"} =>
                  /\ since'[q] <= issued'
                  /\ \A y \in tokens' : y.token.user = call'[q].user /\ y.id <= since'[q]
                                        => y.id \in seen'[q]
  BY <1>3 DEF Numbered, Rotates
<1> QED
  BY <1>1, <1>2, <1>3 DEF Numbered, Rotates

LEMMA NumberedKept == Types /\ Numbered /\ [Next]_vars => Numbered'
<1> SUFFICES ASSUME Types, Numbered, [Next]_vars PROVE Numbered'
  OBVIOUS
<1>1. ASSUME NEW r \in Requests, RotateDelete(r) \/ ChangeDelete(r) PROVE Numbered'
  <2>1. /\ UNCHANGED <<tokens, issued, call>> /\ seen'[r] = Ids(RowsOf(call[r].user))
        /\ \A q \in Requests \ {r} : pc'[q] = pc[q] /\ seen'[q] = seen[q] /\ since'[q] = since[q]
        /\ ~Rotates(r) => since'[r] = issued
    BY <1>1 DEF RotateDelete, ChangeDelete, Rotates, server, Types, TypeOK
  <2>2. \A i \in seen'[r] : \E x \in tokens : x.id = i /\ x.token.user = call[r].user
    BY <2>1 DEF Ids, RowsOf
  <2>3. \A i \in seen'[r] : i <= issued
    BY <2>2 DEF Numbered
  <2>4. \A x \in tokens : x.id \in seen'[r] => x.token.user = call[r].user
    BY <2>2 DEF Numbered
  <2>5. ASSUME NEW q \in Requests, pc'[q] = "deleting"
        PROVE  /\ \A i \in seen'[q] : i <= issued'
               /\ \A y \in tokens' : y.id \in seen'[q] => y.token.user = call'[q].user
               /\ call'[q].kind \notin {"login", "refresh"} =>
                    /\ since'[q] <= issued'
                    /\ \A y \in tokens' : y.token.user = call'[q].user /\ y.id <= since'[q]
                                          => y.id \in seen'[q]
    <3>1. CASE q = r
      <4>1. \A x \in tokens : x.token.user = call[r].user => x.id \in seen'[r]
        BY <2>1 DEF Ids, RowsOf
      <4>2. issued <= issued
        BY DEF Types, TypeOK
      <4> QED
        BY <2>1, <2>3, <2>4, <3>1, <4>1, <4>2 DEF Rotates
    <3>2. CASE q # r
      BY <2>1, <2>5, <3>2 DEF Numbered, Rotates
    <3> QED
      BY <3>1, <3>2
  <2> QED
    BY <2>1, <2>5 DEF Numbered, Rotates
<1>2. ASSUME NEW r \in Requests, RotateCommit(r) PROVE Numbered'
  <2>1. PICK new : new = [id |-> issued + 1, token |-> Signed(r), late |-> r \in late, rival |-> r \in rival]
    OBVIOUS
  <2>2. new.id = issued + 1
    BY <2>1
  <2>3. /\ tokens' = Others(r) \cup {new} /\ issued' = issued + 1 /\ UNCHANGED <<seen, since, call>>
        /\ \A q \in Requests : pc'[q] = "deleting" => pc[q] = "deleting"
    BY <1>2, <2>1 DEF RotateCommit, Types, TypeOK
  <2>4. issued \in Nat /\ \A x \in tokens : x.id \in Nat
    BY ConstantsAssumption DEF Types, TypeOK, Row
  <2>5. \A q \in Requests : \A i \in seen[q] : i \in Nat
    BY DEF Types, TypeOK
  <2>6. \A y \in tokens' : y = new \/ y \in tokens
    BY <2>3 DEF Others
  <2>7. \A y \in tokens' : y.id <= issued'
    BY <2>2, <2>3, <2>4, <2>6 DEF Numbered
  <2>8. \A x \in tokens : x.id # new.id
    BY <2>2, <2>4 DEF Numbered
  <2>9. ASSUME NEW y \in tokens', NEW z \in tokens', y.id = z.id PROVE y.token.user = z.token.user
    BY <2>6, <2>8, <2>9 DEF Numbered
  <2>10. ASSUME NEW q \in Requests, pc'[q] = "deleting"
         PROVE  /\ \A i \in seen'[q] : i <= issued'
                /\ \A y \in tokens' : y.id \in seen'[q] => y.token.user = call'[q].user
                /\ call'[q].kind \notin {"login", "refresh"} =>
                     /\ since'[q] <= issued'
                     /\ \A y \in tokens' : y.token.user = call'[q].user /\ y.id <= since'[q]
                                           => y.id \in seen'[q]
    <3>1. \A i \in seen[q] : i <= issued
      BY <2>3, <2>10 DEF Numbered
    <3>2. new.id \notin seen[q]
      BY <2>2, <2>4, <3>1
    <3>3. \A i \in seen[q] : i <= issued + 1
      BY <2>4, <2>5, <3>1
    <3>4. ASSUME call[q].kind \notin {"login", "refresh"}
          PROVE  /\ since[q] <= issued + 1 /\ ~(new.id <= since[q])
                 /\ \A x \in tokens : x.token.user = call[q].user /\ x.id <= since[q] => x.id \in seen[q]
      <4>1. /\ since[q] <= issued
            /\ \A x \in tokens : x.token.user = call[q].user /\ x.id <= since[q] => x.id \in seen[q]
        BY <2>3, <2>10, <3>4 DEF Numbered, Rotates
      <4>2. since[q] \in Nat
        BY ConstantsAssumption DEF Types, TypeOK
      <4> QED
        BY <2>2, <2>4, <4>1, <4>2
    <3>5. \A y \in tokens' : y.id \in seen'[q] => y.token.user = call'[q].user
      BY <2>3, <2>6, <2>10, <3>2 DEF Numbered
    <3> QED
      BY <2>3, <2>6, <3>3, <3>4, <3>5
  <2> QED
    BY <2>7, <2>9, <2>10 DEF Numbered, Rotates
<1>3. ASSUME NEW r \in Requests, NEW new \in Passwords, ChangeCommit(r, new) PROVE Numbered'
  <2>1. Over(r) /\ UNCHANGED issued /\ \E marks : tokens' = MarkLate(Others(r), marks)
    BY <1>3 DEF ChangeCommit
  <2>2. ASSUME NEW y \in tokens' PROVE \E x \in tokens : y.id = x.id /\ y.token = x.token
    <3>1. Others(r) \subseteq tokens
      BY DEF Others
    <3> QED
      BY <2>1, <3>1, MarkEffect
  <2>3. \A q \in Requests : pc'[q] = "deleting" =>
          pc[q] = "deleting" /\ seen'[q] = seen[q] /\ since'[q] = since[q] /\ call'[q] = call[q]
    BY <2>1, OverEffect
  <2> QED
    BY <2>1, <2>2, <2>3, NumberedStays
<1>4. ASSUME NEW r \in Requests, Fail(r) \/ Answer(r) \/ AnswerLost(r) PROVE Numbered'
  <2>1. Over(r) /\ UNCHANGED <<tokens, issued>>
    BY <1>4 DEF Fail, Answer, AnswerLost, server
  <2>2. \A q \in Requests : pc'[q] = "deleting" =>
          pc[q] = "deleting" /\ seen'[q] = seen[q] /\ since'[q] = since[q] /\ call'[q] = call[q]
    BY <2>1, OverEffect
  <2> QED
    BY <2>1, <2>2, NumberedStays
<1>5. ASSUME NEW c \in Clients, ClientStep(c), ~Logout(c) PROVE Numbered'
  <2>1. PICK r, k : r \in Requests /\ Start(r, k) /\ Reading
    BY <1>5, Starts
  <2>2. UNCHANGED <<tokens, issued, seen, since>> /\ \A q \in Requests : pc'[q] = "deleting" => pc[q] = "deleting" /\ call'[q] = call[q]
    BY <2>1 DEF Start, Reading, Types, TypeOK
  <2> QED
    BY <2>2, NumberedStays
<1>6. CASE \/ \E c \in Clients : Logout(c)
           \/ \E u \in Users : AccountStep(u)
           \/ Tick \/ UNCHANGED vars
  <2>1. UNCHANGED <<pc, call, seen, since, issued>>
    BY <1>6, NoRequestSteps
  <2>2. ASSUME NEW y \in tokens' PROVE \E x \in tokens : y.id = x.id /\ y.token = x.token
    <3>1. CASE \E c \in Clients : Logout(c)
      <4>1. PICK rows, marks : rows \subseteq tokens /\ tokens' = MarkLate(rows, marks)
        BY <3>1 DEF Logout
      <4>2. PICK x \in rows : y.id = x.id /\ y.token = x.token
        BY <4>1, MarkEffect
      <4> QED
        BY <4>1, <4>2
    <3>2. CASE ~ \E c \in Clients : Logout(c)
      BY <1>6, <3>2 DEF AccountStep, Decide, MoveOut, DeleteUser, Tick, vars
    <3> QED
      BY <3>1, <3>2
  <2> QED
    BY <2>1, <2>2, NumberedStays
<1> QED
  BY <1>1, <1>2, <1>3, <1>4, <1>5, <1>6 DEF Next, RequestStep

(* Only a new login gives a session to a request, and only its answer to a browser. *)
LEMMA OwnersKept == Types /\ Owners /\ [Next]_vars => Owners'
<1> SUFFICES ASSUME Types, Owners, [Next]_vars PROVE Owners'
  OBVIOUS
<1>1. ASSUME \A q \in Requests : pc'[q] # "idle" => pc[q] # "idle" /\ call'[q] = call[q],
             \A c \in Clients : jar'[c] # NoToken => jar'[c] = jar[c]
      PROVE  Owners'
  BY <1>1 DEF Owners
<1>2. ASSUME NEW r \in Requests, NEW k, NEW c \in Clients,
             pc[r] = "idle", Start(r, k), k.client = c, Reading,
             \A d \in Clients : jar[d] # NoToken /\ jar[d].session = k.session
                                => d = c /\ k.kind # "login",
             \A q \in Requests : pc[q] # "idle" /\ call[q].session = k.session
                                => call[q].client = c /\ call[q].kind # "login" /\ k.kind # "login"
      PROVE  Owners'
  <2>1. /\ UNCHANGED jar /\ call'[r] = k
        /\ \A q \in Requests \ {r} : pc'[q] = pc[q] /\ call'[q] = call[q]
    BY <1>2 DEF Start, Reading, Types, TypeOK
  <2>2. ASSUME NEW q \in Requests, NEW d \in Clients,
               pc'[q] # "idle", jar'[d] # NoToken, call'[q].session = jar'[d].session
        PROVE  call'[q].client = d /\ call'[q].kind # "login"
    <3>1. CASE q = r
      BY <1>2, <2>1, <2>2, <3>1
    <3>2. CASE q # r
      BY <2>1, <2>2, <3>2 DEF Owners
    <3> QED
      BY <3>1, <3>2
  <2>3. ASSUME NEW q \in Requests, NEW p \in Requests, q # p,
               pc'[q] # "idle", pc'[p] # "idle", call'[q].session = call'[p].session
        PROVE  call'[q].client = call'[p].client /\ call'[q].kind # "login"
    <3>1. CASE q = r
      BY <1>2, <2>1, <2>3, <3>1
    <3>2. CASE p = r
      BY <1>2, <2>1, <2>3, <3>2
    <3>3. CASE q # r /\ p # r
      BY <2>1, <2>3, <3>3 DEF Owners
    <3> QED
      BY <3>1, <3>2, <3>3
  <2> QED
    BY <2>1, <2>2, <2>3 DEF Owners
<1>3. ASSUME NEW c \in Clients, ClientStep(c), ~Logout(c) PROVE Owners'
  <2>1. PICK r, k :
          /\ r \in Requests /\ pc[r] = "idle"
          /\ Start(r, k) /\ k.client = c /\ Reading
          /\ \/ jar[c] # NoToken /\ k.session = jar[c].session /\ k.kind # "login"
             \/ \E u \in Users : k.session = <<u, opened[u] + 1>>
    BY <1>3, Starts
  <2>2. CASE jar[c] # NoToken /\ k.session = jar[c].session /\ k.kind # "login"
    BY <1>2, <2>1, <2>2 DEF Owners
  <2>3. CASE \E u \in Users : k.session = <<u, opened[u] + 1>>
    <3>1. /\ \A d \in Clients : jar[d] # NoToken => jar[d].session # k.session
          /\ \A q \in Requests : pc[q] # "idle" => call[q].session # k.session
      BY <2>3, NewSession
    <3> QED
      BY <1>2, <2>1, <3>1
  <2> QED
    BY <2>1, <2>2, <2>3
<1>4. ASSUME NEW r \in Requests, Answer(r) PROVE Owners'
  <2>1. PICK c \in Clients : c = call[r].client
    BY <1>4 DEF Answer, Types, Known, Call
  <2>2. /\ Over(r) /\ pc[r] # "idle" /\ jar' = [jar EXCEPT ![c] = Signed(r)]
    BY <1>4, <2>1 DEF Answer
  <2>3. /\ jar'[c].session = call[r].session
        /\ \A d \in Clients \ {c} : jar'[d] = jar[d]
    BY <2>2 DEF Signed, Types, TypeOK
  <2>4. \A q \in Requests : pc'[q] # "idle" => q # r /\ pc[q] # "idle" /\ call'[q] = call[q]
    BY <2>2, OverEffect
  <2>5. ASSUME NEW d \in Clients, NEW e \in Clients,
               jar'[d] # NoToken, jar'[e] # NoToken, jar'[d].session = jar'[e].session
        PROVE  d = e
    <3>1. CASE d # c /\ e # c
      BY <2>3, <2>5, <3>1 DEF Owners
    <3>2. \A f \in Clients \ {c} : jar[f] # NoToken => jar[f].session # call[r].session
      BY <2>1, <2>2 DEF Owners
    <3> QED
      BY <2>3, <2>5, <3>1, <3>2
  <2>6. ASSUME NEW q \in Requests, NEW d \in Clients,
               pc'[q] # "idle", jar'[d] # NoToken, call'[q].session = jar'[d].session
        PROVE  call'[q].client = d /\ call'[q].kind # "login"
    <3>1. CASE d = c
      BY <2>1, <2>2, <2>3, <2>4, <2>6, <3>1 DEF Owners
    <3>2. CASE d # c
      BY <2>3, <2>4, <2>6, <3>2 DEF Owners
    <3> QED
      BY <3>1, <3>2
  <2> QED
    BY <2>4, <2>5, <2>6 DEF Owners
<1>5. ASSUME NEW r \in Requests, RequestStep(r), ~Answer(r) PROVE Owners'
  <2>1. UNCHANGED jar
    BY <1>5 DEF RequestStep, RotateDelete, RotateCommit, ChangeDelete, ChangeCommit, Fail, AnswerLost
  <2>2. CASE RotateDelete(r) \/ RotateCommit(r) \/ ChangeDelete(r)
    <3>1. UNCHANGED call /\ \A q \in Requests : pc'[q] # "idle" => pc[q] # "idle"
      BY <2>2 DEF RotateDelete, RotateCommit, ChangeDelete, Types, TypeOK
    <3> QED
      BY <1>1, <2>1, <3>1
  <2>3. CASE Over(r)
    BY <1>1, <2>1, <2>3, OverEffect
  <2> QED
    BY <1>5, <2>2, <2>3 DEF RequestStep, ChangeCommit, Fail, AnswerLost
<1>6. CASE \/ \E c \in Clients : Logout(c)
           \/ \E u \in Users : AccountStep(u)
           \/ Tick \/ UNCHANGED vars
  <2>1. UNCHANGED <<pc, call>>
    BY <1>6, NoRequestSteps
  <2>2. \A c \in Clients : jar'[c] # NoToken => jar'[c] = jar[c]
    BY <1>6 DEF Logout, AccountStep, Decide, MoveOut, DeleteUser, Tick, vars, Types, TypeOK
  <2> QED
    BY <1>1, <2>1, <2>2
<1> QED
  BY <1>3, <1>4, <1>5, <1>6 DEF Next

(* A browser that asks early, or misses an answer, no longer counts as waiting. *)
LEMMA WaitingKept == Types /\ Waiting /\ [Next]_vars => Waiting'
<1> SUFFICES ASSUME Types, Waiting, [Next]_vars PROVE Waiting'
  OBVIOUS
<1>1. ASSUME orderly' \subseteq orderly,
             \A q \in Requests : pc'[q] # "idle" => pc[q] # "idle" /\ call'[q] = call[q]
      PROVE  Waiting'
  BY <1>1 DEF Waiting, Pending
<1>2. ASSUME NEW c \in Clients, ClientStep(c), ~Logout(c) PROVE Waiting'
  <2>1. PICK r, k : r \in Requests /\ pc[r] = "idle" /\ Start(r, k) /\ k.client = c
    BY <1>2, Starts
  <2>2. /\ call'[r] = k
        /\ \A q \in Requests \ {r} : pc'[q] = pc[q] /\ call'[q] = call[q]
        /\ AsksEarly(c)
    BY <2>1 DEF Start, Types, TypeOK
  <2>3. ASSUME NEW d \in Clients, d \in orderly',
               NEW p \in Requests, pc'[p] # "idle", call'[p].client = d,
               NEW q \in Requests, pc'[q] # "idle", call'[q].client = d
        PROVE  p = q
    <3>1. d \in orderly /\ (d = c => Pending(c) = {})
      BY <2>2, <2>3 DEF AsksEarly
    <3>2. CASE d = c
      BY <2>2, <2>3, <3>1, <3>2 DEF Pending
    <3>3. CASE d # c
      BY <2>1, <2>2, <2>3, <3>1, <3>3 DEF Waiting, Pending
    <3> QED
      BY <3>2, <3>3
  <2>4. orderly' \subseteq Clients
    BY <2>2 DEF AsksEarly, Types, TypeOK
  <2> QED
    BY <2>3, <2>4 DEF Waiting, Pending
<1>3. ASSUME NEW r \in Requests, Answer(r) PROVE Waiting'
  <2>1. \A q \in Requests : pc'[q] # "idle" => q # r /\ pc[q] # "idle" /\ call'[q] = call[q]
    BY <1>3, OverEffect DEF Answer
  <2>2. ASSUME NEW d, d \in orderly', d \notin orderly
        PROVE  d = call[r].client /\ Pending(call[r].client) = {r}
    BY <1>3, <2>2 DEF Answer
  <2>3. ASSUME NEW d, d \in orderly',
               NEW p \in Requests, pc'[p] # "idle", call'[p].client = d,
               NEW q \in Requests, pc'[q] # "idle", call'[q].client = d
        PROVE  p = q
    <3>1. p \in Pending(d) /\ q \in Pending(d) /\ p # r
      BY <2>1, <2>3 DEF Pending
    <3>2. d \in orderly
      BY <2>2, <2>3, <3>1
    <3> QED
      BY <3>1, <3>2 DEF Waiting
  <2> QED
    BY <2>3 DEF Waiting, Pending
<1>4. ASSUME NEW r \in Requests, RequestStep(r), ~Answer(r) PROVE Waiting'
  <2>1. orderly' \subseteq orderly
    BY <1>4 DEF RequestStep, RotateDelete, RotateCommit, ChangeDelete, ChangeCommit, Fail, AnswerLost, history
  <2>2. CASE RotateDelete(r) \/ RotateCommit(r) \/ ChangeDelete(r)
    <3>1. UNCHANGED call /\ \A q \in Requests : pc'[q] # "idle" => pc[q] # "idle"
      BY <2>2 DEF RotateDelete, RotateCommit, ChangeDelete, Types, TypeOK
    <3> QED
      BY <1>1, <2>1, <3>1
  <2>3. CASE Over(r)
    BY <1>1, <2>1, <2>3, OverEffect
  <2> QED
    BY <1>4, <2>2, <2>3 DEF RequestStep, ChangeCommit, Fail, AnswerLost
<1>5. CASE \/ \E c \in Clients : Logout(c)
           \/ \E u \in Users : AccountStep(u)
           \/ Tick \/ UNCHANGED vars
  <2>1. UNCHANGED <<pc, call>>
    BY <1>5, NoRequestSteps
  <2>2. orderly' \subseteq orderly
    BY <1>5 DEF Logout, AsksEarly, AccountStep, Decide, MoveOut, DeleteUser, Tick, vars, history
  <2> QED
    BY <1>1, <2>1, <2>2
<1> QED
  BY <1>2, <1>3, <1>4, <1>5 DEF Next

(* A request at work goes on as before when another one takes a step. *)
LEMMA BystanderKept ==
  ASSUME Types, Numbered, Owners, Waiting, [Next]_vars,
         NEW q \in Requests, pc[q] # "idle", Same(q), Carried(q),
         call[q].client \in orderly' => call[q].client \in orderly
  PROVE  Carried(q)'
<1>1. PICK s : s = call[q].session
  OBVIOUS
<1>2. PICK t : t = Signed(q)
  OBVIOUS
<1>3. call'[q] = call[q] /\ pc'[q] = pc[q] /\ seen'[q] = seen[q] /\ Signed(q)' = t
  BY <1>2 DEF Same, Signed
<1>4. CASE s \in ended'
  BY <1>1, <1>3, <1>4 DEF Carried, Sole
<1>5. CASE s \notin ended' /\ Spared(s)
  <2>1. s \notin ended
    BY <1>5, RowFates
  <2>2. (\A x \in tokens : x.token.session # s) => \A x \in tokens' : x.token.session # s
    BY <1>5 DEF Spared
  <2>3. (\A x \in tokens : x.token.session = s => x.id \in seen[q])
        => \A x \in tokens' : x.token.session = s => x.id \in seen[q]
    BY <1>5 DEF Spared
  <2>4. Sole(s, t) => \E x \in tokens' : x.token = t /\ \A y \in tokens' : y.token.session = s <=> y = x
    BY <1>5, <2>1, SparedSole
  <2>5. /\ call[q].kind = "login" /\ pc[q] \in {"checked", "deleting"} =>
             \A x \in tokens : x.token.session # s
        /\ call[q].kind = "refresh" /\ pc[q] = "deleting" /\ call[q].client \in orderly =>
             \A x \in tokens : x.token.session = s => x.id \in seen[q]
        /\ pc[q] = "answer" /\ (call[q].kind = "login" \/ call[q].client \in orderly) => Sole(s, t)
    BY <1>1, <1>2, <2>1 DEF Carried
  <2> QED
    BY <1>1, <1>3, <2>2, <2>3, <2>4, <2>5 DEF Carried, Sole
<1>6. ASSUME NEW r \in Requests, RotateCommit(r), call[r].session = s PROVE Carried(q)'
  <2>1. pc[r] # "idle" /\ r # q
    BY <1>6 DEF RotateCommit, Same, Types, TypeOK
  <2>2. call[q].client = call[r].client /\ call[q].kind # "login"
    BY <1>1, <1>6, <2>1 DEF Owners
  <2>3. call[q].client \notin orderly
    BY <2>1, <2>2 DEF Waiting, Pending
  <2> QED
    BY <1>3, <2>2, <2>3 DEF Carried
<1> QED
  BY <1>4, <1>5, <1>6, RowFates

(* So do the cookies of a browser that gets no answer now. *)
LEMMA ClientKept ==
  ASSUME Types, Numbered, Owners, [Next]_vars,
         NEW c \in Clients, Kept(c), jar'[c] = jar[c],
         (\A r \in Requests : pc'[r] # "idle" /\ call'[r].client = c => pc'[r] # "answer")
           => \A r \in Requests : pc[r] # "idle" /\ call[r].client = c => pc[r] # "answer"
  PROVE  Kept(c)'
<1> SUFFICES ASSUME jar[c] # NoToken,
                    \A r \in Requests : pc'[r] # "idle" /\ call'[r].client = c => pc'[r] # "answer"
             PROVE  \/ jar[c].session \in ended'
                    \/ \E x \in tokens' : /\ x.token = jar[c]
                                         /\ \A y \in tokens' : y.token.session = jar[c].session <=> y = x
  BY DEF Kept, Sole, Pending
<1>1. PICK t : t = jar[c]
  OBVIOUS
<1>2. PICK s : s = t.session
  OBVIOUS
<1>3. Sole(s, t)
  BY <1>1, <1>2 DEF Kept, Pending
<1>4. CASE s \notin ended' /\ Spared(s)
  <2>1. \E x \in tokens' : x.token = t /\ \A y \in tokens' : y.token.session = s <=> y = x
    BY <1>3, <1>4, RowFates, SparedSole
  <2> QED
    BY <1>1, <1>2, <2>1
<1>5. ASSUME NEW r \in Requests, RotateCommit(r), call[r].session = s PROVE FALSE
  <2>1. pc[r] # "idle" /\ pc'[r] = "answer" /\ call'[r] = call[r]
    BY <1>5 DEF RotateCommit, Types, TypeOK
  <2>2. call[r].client = c
    BY <1>1, <1>2, <1>5, <2>1 DEF Owners
  <2> QED
    BY <2>1, <2>2
<1>6. s \notin ended' => Spared(s)
  BY <1>5, RowFates
<1> QED
  BY <1>1, <1>2, <1>4, <1>6

(* A rotation leaves its session one row, which the answer carries. *)
LEMMA RotationCarries ==
  ASSUME Types, NEW r \in Requests, Carried(r), RotateDelete(r) \/ RotateCommit(r)
  PROVE  Carried(r)'
<1>1. PICK s : s = call[r].session
  OBVIOUS
<1>2. CASE RotateDelete(r)
  <2>1. /\ pc[r] = "checked" /\ pc'[r] = "deleting" /\ seen'[r] = Ids(RowsOf(call[r].user))
        /\ UNCHANGED <<tokens, ended, call, orderly>>
    BY <1>2 DEF RotateDelete, server, history, Types, TypeOK
  <2>2. ASSUME NEW x \in tokens, x.token.session = s PROVE x.id \in seen'[r]
    <3>1. x.token.user = call[r].user
      BY <1>1, <2>1, <2>2 DEF Types, Known, Owned
    <3> QED
      BY <2>1, <3>1 DEF Ids, RowsOf
  <2> QED
    BY <1>1, <2>1, <2>2 DEF Carried
<1>3. CASE RotateCommit(r)
  <2>1. PICK new : new = [id |-> issued + 1, token |-> Signed(r), late |-> r \in late, rival |-> r \in rival]
    OBVIOUS
  <2>2. new.token = Signed(r) /\ new.token.session = s
    BY <1>1, <2>1 DEF Signed
  <2>3. /\ pc[r] = "deleting" /\ pc'[r] = "answer" /\ call[r].kind \in {"login", "refresh"}
        /\ tokens' = Others(r) \cup {new} /\ ended \subseteq ended'
        /\ UNCHANGED <<call, stamp, orderly>>
    BY <1>3, <2>1 DEF RotateCommit, End, Types, TypeOK
  <2>4. PICK t : t = Signed(r)
    OBVIOUS
  <2>5. Signed(r)' = t
    BY <2>3, <2>4 DEF Signed
  <2>6. ASSUME call[r].kind = "login" \/ call[r].client \in orderly, s \notin ended'
        PROVE  \A y \in tokens' : y.token.session = s <=> y = new
    <3>1. \A x \in tokens : x.token.session = s => x.id \in seen[r]
      BY <1>1, <2>3, <2>6 DEF Carried
    <3> QED
      BY <2>2, <2>3, <3>1 DEF Others
  <2>7. ASSUME call[r].kind = "login" \/ call[r].client \in orderly, s \notin ended'
        PROVE  \E x \in tokens' : x.token = t /\ \A y \in tokens' : y.token.session = s <=> y = x
    BY <2>2, <2>3, <2>4, <2>6, <2>7
  <2>8. call'[r] = call[r] /\ orderly' = orderly
    BY <2>3
  <2> QED
    BY <1>1, <2>3, <2>5, <2>7, <2>8 DEF Carried, Sole
<1> QED
  BY <1>2, <1>3

(* Every step keeps SessionsCarried. *)
LEMMA CarriedKept ==
  Types /\ Numbered /\ Owners /\ Waiting /\ SessionsCarried /\ [Next]_vars => SessionsCarried'
<1> SUFFICES ASSUME Types, Numbered, Owners, Waiting, SessionsCarried, [Next]_vars
             PROVE  SessionsCarried'
  OBVIOUS
<1>1. ASSUME \A q \in Requests : pc'[q] # "idle" => Same(q), orderly' \subseteq orderly,
             \A c \in Clients : c \in orderly' /\ jar'[c] # NoToken => jar'[c] = jar[c],
             \A q \in Requests : pc[q] = "answer" /\ pc'[q] = "idle" => call[q].client \notin orderly'
      PROVE  SessionsCarried'
  <2>1. ASSUME NEW q \in Requests, pc'[q] # "idle" PROVE Carried(q)'
    <3>1. Same(q) /\ pc[q] # "idle" /\ Carried(q)
      BY <1>1, <2>1 DEF Same, SessionsCarried
    <3> QED
      BY <1>1, <3>1, BystanderKept
  <2>2. ASSUME NEW c \in Clients, c \in orderly', jar'[c] # NoToken PROVE Kept(c)'
    <3>1. Kept(c) /\ jar'[c] = jar[c]
      BY <1>1, <2>2 DEF SessionsCarried
    <3>2. ASSUME NEW q \in Requests, pc[q] = "answer", call[q].client = c
          PROVE  pc'[q] = "answer" /\ call'[q].client = c
      BY <1>1, <2>2, <3>2 DEF Same
    <3> QED
      BY <3>1, <3>2, ClientKept
  <2>3. \A c \in Clients : jar'[c] = NoToken => Kept(c)'
    BY DEF Kept
  <2>4. orderly' \subseteq Clients
    BY <1>1 DEF Types, TypeOK
  <2> QED
    BY <2>1, <2>2, <2>3, <2>4 DEF SessionsCarried
<1>2. ASSUME NEW r \in Requests, \A q \in Requests \ {r} : Same(q), orderly' \subseteq orderly,
             UNCHANGED jar, pc'[r] # "idle" => Carried(r)',
             pc[r] # "answer" \/ call[r].client \notin orderly'
      PROVE  SessionsCarried'
  <2>1. ASSUME NEW q \in Requests, pc'[q] # "idle" PROVE Carried(q)'
    <3>1. CASE q # r
      <4>1. Same(q) /\ pc[q] # "idle" /\ Carried(q)
        BY <1>2, <2>1, <3>1 DEF Same, SessionsCarried
      <4> QED
        BY <1>2, <4>1, BystanderKept
    <3> QED
      BY <1>2, <2>1, <3>1
  <2>2. ASSUME NEW c \in Clients, c \in orderly' PROVE Kept(c)'
    <3>1. Kept(c) /\ jar'[c] = jar[c]
      BY <1>2, <2>2 DEF SessionsCarried
    <3>2. ASSUME NEW q \in Requests, pc[q] = "answer", call[q].client = c
          PROVE  pc'[q] = "answer" /\ call'[q].client = c
      BY <1>2, <2>2, <3>2 DEF Same
    <3> QED
      BY <3>1, <3>2, ClientKept
  <2>3. orderly' \subseteq Clients
    BY <1>2 DEF Types, TypeOK
  <2> QED
    BY <2>1, <2>2, <2>3 DEF SessionsCarried
<1>3. ASSUME NEW c \in Clients, ClientStep(c), ~Logout(c) PROVE SessionsCarried'
  <2>1. PICK r, k :
          /\ r \in Requests /\ pc[r] = "idle"
          /\ Start(r, k) /\ k.client = c /\ Reading /\ UNCHANGED ended
          /\ \/ k.kind # "login"
             \/ \E u \in Users : k.session = <<u, opened[u] + 1>>
    BY <1>3, Starts
  <2>2. /\ call'[r] = k /\ pc'[r] = "checked" /\ orderly' \subseteq orderly
        /\ UNCHANGED <<tokens, ended, jar>>
    BY <2>1 DEF Start, AsksEarly, Reading, Types, TypeOK
  <2>3. k.kind = "login" => \A x \in tokens : x.token.session # k.session
    BY <2>1, NewSession
  <2>4. Carried(r)'
    BY <2>2, <2>3 DEF Carried
  <2>5. \A q \in Requests \ {r} : Same(q)
    BY <2>1, OthersSame
  <2> QED
    BY <1>2, <2>1, <2>2, <2>4, <2>5
<1>4. ASSUME NEW r \in Requests, RotateDelete(r) \/ RotateCommit(r) PROVE SessionsCarried'
  <2>1. /\ pc[r] = "checked" \/ pc[r] = "deleting"
        /\ UNCHANGED <<jar, orderly>>
    BY <1>4 DEF RotateDelete, RotateCommit, history
  <2>2. Carried(r)
    BY <2>1 DEF SessionsCarried
  <2>3. Carried(r)'
    BY <1>4, <2>2, RotationCarries
  <2>4. \A q \in Requests \ {r} : Same(q)
    BY <1>4, OthersSame
  <2> QED
    BY <1>2, <2>1, <2>3, <2>4
<1>5. ASSUME NEW r \in Requests, ChangeDelete(r) PROVE SessionsCarried'
  <2>1. /\ pc[r] = "checked" /\ pc'[r] = "deleting" /\ call'[r].kind \in {"change", "profile"}
        /\ UNCHANGED <<jar, orderly>>
    BY <1>5 DEF ChangeDelete, history, Types, TypeOK
  <2>2. Carried(r)'
    BY <2>1 DEF Carried
  <2>3. \A q \in Requests \ {r} : Same(q)
    BY <1>5, OthersSame
  <2> QED
    BY <1>2, <2>1, <2>2, <2>3
<1>6. ASSUME NEW r \in Requests,
             AnswerLost(r) \/ Fail(r) \/ \E new \in Passwords : ChangeCommit(r, new)
      PROVE  SessionsCarried'
  <2>1. /\ Over(r) /\ UNCHANGED jar /\ orderly' \subseteq orderly
        /\ pc[r] # "answer" \/ call[r].client \notin orderly'
    BY <1>6 DEF AnswerLost, Fail, ChangeCommit
  <2>2. pc'[r] = "idle" /\ \A q \in Requests \ {r} : Same(q)
    BY <2>1, OverEffect, OthersSame
  <2> QED
    BY <1>2, <2>1, <2>2
<1>7. ASSUME NEW r \in Requests, Answer(r) PROVE SessionsCarried'
  <2>1. PICK c \in Clients : c = call[r].client
    BY <1>7 DEF Answer, Types, Known, Call
  <2>2. /\ Over(r) /\ pc[r] = "answer" /\ UNCHANGED <<tokens, ended>>
        /\ jar' = [jar EXCEPT ![c] = Signed(r)]
    BY <1>7, <2>1 DEF Answer, server
  <2>3. ASSUME NEW d, d \in orderly', d \notin orderly
        PROVE  d = c /\ call[r].kind = "login" /\ Pending(c) = {r}
    BY <1>7, <2>1, <2>3 DEF Answer
  <2>4. pc'[r] = "idle" /\ \A q \in Requests \ {r} : Same(q)
    BY <2>2, OverEffect, OthersSame
  <2>5. ASSUME NEW q \in Requests, pc'[q] # "idle" PROVE Carried(q)'
    <3>1. q # r /\ Same(q) /\ pc[q] # "idle" /\ Carried(q)
      BY <2>4, <2>5 DEF Same, SessionsCarried
    <3>2. call[q].client \in orderly' => call[q].client \in orderly
      BY <2>3, <3>1 DEF Pending
    <3> QED
      BY <3>1, <3>2, BystanderKept
  <2>6. ASSUME NEW d \in Clients, d \in orderly', d # c PROVE Kept(d)'
    <3>1. Kept(d) /\ jar'[d] = jar[d]
      BY <2>2, <2>3, <2>6 DEF SessionsCarried, Types, TypeOK
    <3>2. ASSUME NEW q \in Requests, pc[q] = "answer", call[q].client = d
          PROVE  pc'[q] = "answer" /\ call'[q].client = d
      BY <2>1, <2>4, <2>6, <3>2 DEF Same
    <3> QED
      BY <3>1, <3>2, ClientKept
  <2>7. ASSUME c \in orderly' PROVE Kept(c)'
    <3>1. PICK t : t = Signed(r)
      OBVIOUS
    <3>2. call[r].kind = "login" \/ c \in orderly
      BY <2>3, <2>7
    <3>3. Sole(call[r].session, t)
      BY <2>1, <2>2, <3>1, <3>2 DEF SessionsCarried, Carried
    <3>4. jar'[c] = t /\ t.session = call[r].session
      BY <2>2, <3>1 DEF Signed, Types, TypeOK
    <3> QED
      BY <2>2, <3>3, <3>4 DEF Kept, Sole
  <2>8. orderly' \subseteq Clients
    BY <2>1, <2>3 DEF Types, TypeOK
  <2> QED
    BY <2>5, <2>6, <2>7, <2>8 DEF SessionsCarried
<1>8. CASE \/ \E c \in Clients : Logout(c)
           \/ \E u \in Users : AccountStep(u)
           \/ Tick \/ UNCHANGED vars
  <2>1. \A q \in Requests : Same(q)
    BY <1>8, NoRequestSteps DEF Same
  <2>2. orderly' \subseteq orderly
    BY <1>8 DEF Logout, AsksEarly, AccountStep, Decide, MoveOut, DeleteUser, Tick, vars, history
  <2>3. \A c \in Clients : c \in orderly' /\ jar'[c] # NoToken => jar'[c] = jar[c]
    BY <1>8 DEF Logout, AccountStep, Decide, MoveOut, DeleteUser, Tick, vars, Types, TypeOK
  <2>4. \A q \in Requests : pc'[q] = pc[q]
    BY <2>1 DEF Same
  <2> QED
    BY <1>1, <2>1, <2>2, <2>3, <2>4
<1> QED
  BY <1>3, <1>4, <1>5, <1>6, <1>7, <1>8 DEF Next, RequestStep

(* At first there is no session. *)
LEMMA SessionsFirst == Init => Numbered /\ Owners /\ Waiting /\ SessionsCarried
BY DEF Init, Numbered, Owners, Waiting, Pending, SessionsCarried, Kept

(* A browser that asks one thing at a time and gets its answers keeps a token the table
   knows until its session ends (ClientKeepsSession), whatever others do meanwhile. *)
THEOREM ClientsKeepSessions == Spec => []ClientKeepsSession
<1>1. Types /\ SessionsCarried => ClientKeepsSession
  <2> SUFFICES ASSUME Types, SessionsCarried, NEW c \in orderly, jar[c] # NoToken,
                      \A r \in Pending(c) : pc[r] # "answer", jar[c].session \notin ended
               PROVE  \E x \in tokens : SameString(x.token, jar[c])
    BY DEF ClientKeepsSession
  <2>1. PICK x \in tokens : x.token = jar[c]
    BY DEF SessionsCarried, Kept, Sole
  <2> QED
    BY <2>1 DEF SameString
<1> QED
  BY <1>1, SessionsFirst, TypesFirst, TypesKept, NumberedKept, OwnersKept, WaitingKept, CarriedKept, PTL DEF Spec

-----------------------------------------------------------------------------
(* Sessions that ended. *)

(* A rotation for a session that ended is known to be late. *)
LateOnes ==
  \A r \in Requests : pc[r] \in {"checked", "deleting"} /\ Rotates(r) /\ call[r].session \in ended
                     => r \in late

(* Requests at work when their session ends are late from then on. *)
LEMMA EndingMarks ==
  ASSUME Types, LateOnes, NEW gone, NEW done, End(gone, done),
         \A q \in Requests : pc'[q] \in {"checked", "deleting"} =>
           pc[q] \in {"checked", "deleting"} /\ call'[q] = call[q] /\ q \notin done
  PROVE  LateOnes' /\ ended' = ended \cup gone
BY DEF LateOnes, End, Rotates

(* So are those that were late before. *)
LEMMA LateStay ==
  ASSUME Types, LateOnes, UNCHANGED ended,
         \A q \in Requests : pc'[q] \in {"checked", "deleting"} =>
           /\ pc[q] \in {"checked", "deleting"} /\ call'[q] = call[q]
           /\ q \in late => q \in late'
  PROVE  LateOnes'
BY DEF LateOnes, Rotates

(* A session is over when the last of its rows goes. *)
LEMMA RowsWithout ==
  ASSUME NEW rs, rs \subseteq tokens, NEW x \in tokens \ rs PROVE x.token.session \notin Without(rs)
BY DEF Without, Sessions

(* Starting: a login opens a new session; a refresh is late if its row or its
   session is. *)
LEMMA StartsKeepLate ==
  ASSUME Types, LateOnes, EndedStaysEnded, NEW r \in Requests, NEW c \in Clients,
         \/ \E u \in Users : Login(r, c, u)
         \/ Refresh(r, c)
         \/ \E kind \in {"change", "profile"} : ChangePassword(r, c, kind)
  PROVE  LateOnes' /\ EndedStaysEnded'
<1>1. ASSUME NEW k, Start(r, k), k.kind \in {"login", "refresh"} /\ k.session \in ended => r \in late',
             late \subseteq late', UNCHANGED <<ended, tokens>>
      PROVE  LateOnes' /\ EndedStaysEnded'
  <2>1. /\ call'[r] = k
        /\ \A q \in Requests \ {r} : pc'[q] = pc[q] /\ call'[q] = call[q]
    BY <1>1 DEF Start, Types, TypeOK
  <2> QED
    BY <1>1, <2>1 DEF LateOnes, EndedStaysEnded, Rotates
<1>2. ASSUME NEW u \in Users, Login(r, c, u) PROVE LateOnes' /\ EndedStaysEnded'
  <2>1. PICK s : s = <<u, opened[u] + 1>>
    OBVIOUS
  <2>2. ~Begun(s)
    BY <2>1, ConstantsAssumption DEF Begun, Types, TypeOK
  <2>3. s \notin ended
    BY <2>2 DEF Types, Known
  <2>4. PICK k : k = [kind |-> "login", client |-> c, user |-> u,
                      scope |-> u \notin Residents \/ account[u].housed,
                      session |-> s, password |-> account[u].password]
    OBVIOUS
  <2>5. k.session = s
    BY <2>4
  <2>6. Start(r, k) /\ UNCHANGED <<late, ended, tokens>>
    BY <1>2, <2>1, <2>4 DEF Login, Reading
  <2> QED
    BY <1>1, <2>3, <2>5, <2>6
<1>3. CASE Refresh(r, c)
  <2>1. PICK x \in tokens :
          /\ SameString(x.token, jar[c])
          /\ late' = IF x.late \/ x.token.session # jar[c].session THEN late \cup {r} ELSE late
    BY <1>3 DEF Refresh
  <2>2. jar[c].session \in ended => r \in late'
    BY <2>1 DEF EndedStaysEnded
  <2>3. late \subseteq late' /\ UNCHANGED <<ended, tokens>>
    BY <1>3, <2>1 DEF Refresh, Reading
  <2>4. PICK k : k = [kind |-> "refresh", client |-> c, user |-> jar[c].user,
                      scope |-> ScopeOnRefresh(jar[c].user),
                      session |-> jar[c].session, password |-> account[jar[c].user].password]
    OBVIOUS
  <2>5. k.session = jar[c].session
    BY <2>4
  <2>6. Start(r, k)
    BY <1>3, <2>4 DEF Refresh
  <2> QED
    BY <1>1, <2>2, <2>3, <2>5, <2>6
<1>4. ASSUME NEW kind \in {"change", "profile"}, ChangePassword(r, c, kind) PROVE LateOnes' /\ EndedStaysEnded'
  <2>1. PICK k : k = [kind |-> kind, client |-> c, user |-> jar[c].user, scope |-> FALSE,
                      session |-> jar[c].session, password |-> account[jar[c].user].password]
    OBVIOUS
  <2>2. k.kind \notin {"login", "refresh"}
    BY <2>1
  <2>3. Start(r, k) /\ UNCHANGED <<late, ended, tokens>>
    BY <1>4, <2>1 DEF ChangePassword, Reading
  <2> QED
    BY <1>1, <2>2, <2>3
<1> QED
  BY <1>2, <1>3, <1>4

(* The row a rotation inserts is late if the rotation is, and the sessions it
   ends have no row left. *)
LEMMA RotationKeepsLate ==
  ASSUME Types, LateOnes, EndedStaysEnded, NEW r \in Requests, RotateCommit(r)
  PROVE  LateOnes' /\ EndedStaysEnded'
<1>1. PICK gone : gone = Without(tokens \ Others(r)) \ {call[r].session}
  OBVIOUS
<1>2. PICK new : new = [id |-> issued + 1, token |-> Signed(r), late |-> r \in late, rival |-> r \in rival]
  OBVIOUS
<1>3. /\ tokens' = Others(r) \cup {new} /\ pc[r] = "deleting" /\ Rotates(r)
      /\ End(gone, {}) /\ pc' = [pc EXCEPT ![r] = "answer"] /\ call' = call
  BY <1>1, <1>2 DEF RotateCommit, Rotates
<1>4. LateOnes' /\ ended' = ended \cup gone
  BY <1>3, EndingMarks DEF Types, TypeOK
<1>5. ASSUME NEW x \in Others(r), x.token.session \in ended' PROVE x.late
  <2>1. x \in tokens \ (tokens \ Others(r))
    BY DEF Others
  <2>2. x.token.session \notin gone
    BY <1>1, <2>1, RowsWithout
  <2> QED
    BY <1>4, <1>5, <2>1, <2>2 DEF EndedStaysEnded
<1>6. new.token.session \in ended' => new.late
  <2>1. new.token = Signed(r) /\ new.late = (r \in late)
    BY <1>2
  <2>2. new.token.session = call[r].session
    BY <1>3, <2>1, SignedToken
  <2>3. call[r].session \notin gone
    BY <1>1
  <2> QED
    BY <1>3, <1>4, <2>1, <2>2, <2>3 DEF LateOnes
<1> QED
  BY <1>3, <1>4, <1>5, <1>6 DEF EndedStaysEnded

(* A password change has found the older rows of the user, and marks the others. *)
LEMMA ChangeKeepsLate ==
  ASSUME Types, Numbered, LateOnes, EndedStaysEnded,
         NEW r \in Requests, NEW new \in Passwords, ChangeCommit(r, new)
  PROVE  LateOnes' /\ EndedStaysEnded'
<1>1. PICK u : u = call[r].user
  OBVIOUS
<1>2. PICK gone : gone = {u} \X (1 .. opened[u])
  OBVIOUS
<1>3. PICK marks : marks = {x \in RowsOf(u) : x.id > since[r]}
  OBVIOUS
<1>4. /\ Over(r) /\ End(gone, {r}) /\ pc[r] = "deleting" /\ ~Rotates(r)
      /\ Others(r) \subseteq tokens /\ tokens' = MarkLate(Others(r), marks)
  BY <1>1, <1>2, <1>3 DEF ChangeCommit, Others, Rotates
<1>5. LateOnes' /\ ended' = ended \cup gone
  BY <1>4, EndingMarks, OverEffect
<1>6. ASSUME NEW x \in Others(r), x.token.user = u PROVE x \in marks
  <2>1. x.id \notin seen[r] /\ x \in RowsOf(u) /\ x \in tokens
    BY <1>6 DEF Others, RowsOf
  <2>2. ~(x.id <= since[r])
    BY <1>1, <1>4, <1>6, <2>1 DEF Numbered
  <2>3. x.id \in Nat /\ since[r] \in Nat
    BY <2>1, ConstantsAssumption DEF Types, TypeOK, Row
  <2> QED
    BY <1>3, <2>1, <2>2, <2>3
<1>7. ASSUME NEW y \in tokens', y.token.session \in ended' PROVE y.late
  <2>1. PICK x \in Others(r) : /\ y.token = x.token
                               /\ (x \notin marks /\ y = x) \/ (x \in marks /\ y.late)
    BY <1>4, MarkEffect
  <2>2. CASE x \in marks
    BY <2>1, <2>2
  <2>3. CASE x \notin marks
    <3>1. x \in tokens /\ x.token.user # u
      BY <1>4, <1>6, <2>3
    <3>2. x.token.session \notin gone
      BY <1>2, <3>1 DEF Types, Known, Owned
    <3> QED
      BY <1>5, <1>7, <2>1, <2>3, <3>1, <3>2 DEF EndedStaysEnded
  <2> QED
    BY <2>2, <2>3
<1> QED
  BY <1>5, <1>7 DEF EndedStaysEnded

(* A logout by a browser that waited finds the row of its session, or the session was
   over before; the other logouts mark the rows of the session. *)
LEMMA LogoutKeepsLate ==
  ASSUME Types, SessionsCarried, LateOnes, EndedStaysEnded, NEW c \in Clients, Logout(c)
  PROVE  LateOnes' /\ EndedStaysEnded'
<1>1. PICK rs : rs = {x \in tokens : SameString(x.token, jar[c])}
  OBVIOUS
<1>2. PICK marks : marks = {x \in tokens : x.token.session = jar[c].session /\ c \notin orderly'}
  OBVIOUS
<1>3. PICK gone : gone = Without(rs) \cup {jar[c].session}
  OBVIOUS
<1>4. /\ rs \subseteq tokens /\ tokens' = MarkLate(tokens \ rs, marks) /\ End(gone, {})
      /\ UNCHANGED <<pc, call>> /\ jar[c] # NoToken
      /\ orderly' = IF Pending(c) = {} THEN orderly ELSE orderly \ {c}
  BY <1>1, <1>2, <1>3 DEF Logout, Authorized, AsksEarly, work
<1>5. LateOnes' /\ ended' = ended \cup gone
  BY <1>4, EndingMarks
<1>6. ASSUME NEW x \in tokens \ rs, x.token.session = jar[c].session, x \notin marks PROVE x.late
  <2>1. c \in orderly /\ Pending(c) = {}
    BY <1>2, <1>4, <1>6
  <2>2. Sole(jar[c].session, jar[c])
    BY <1>4, <2>1 DEF SessionsCarried, Kept
  <2>3. CASE jar[c].session \in ended
    BY <1>6, <2>3 DEF EndedStaysEnded
  <2>4. CASE jar[c].session \notin ended
    <3>1. x.token = jar[c]
      BY <1>6, <2>2, <2>4 DEF Sole
    <3>2. SameString(x.token, jar[c])
      BY <3>1 DEF SameString
    <3> QED
      BY <1>1, <1>6, <3>2
  <2> QED
    BY <2>3, <2>4
<1>7. ASSUME NEW y \in tokens', y.token.session \in ended' PROVE y.late
  <2>1. tokens \ rs \subseteq tokens /\ y \in MarkLate(tokens \ rs, marks)
    BY <1>4
  <2>2. PICK x \in tokens \ rs : /\ y.token = x.token
                                 /\ (x \notin marks /\ y = x) \/ (x \in marks /\ y.late)
    BY <2>1, MarkEffect
  <2>3. CASE x \in marks
    BY <2>2, <2>3
  <2>4. CASE x \notin marks
    <3>1. x.token.session \notin Without(rs)
      BY <1>4, RowsWithout
    <3> QED
      BY <1>3, <1>5, <1>6, <1>7, <2>2, <2>4, <3>1 DEF EndedStaysEnded
  <2> QED
    BY <2>3, <2>4
<1> QED
  BY <1>5, <1>7 DEF EndedStaysEnded

(* Rows that go end sessions that have no other row. *)
LEMMA RowsGoKeepLate ==
  ASSUME Types, LateOnes, EndedStaysEnded, NEW rs, rs \subseteq tokens, tokens' = tokens \ rs,
         NEW gone, End(gone, {}), UNCHANGED <<pc, call>>,
         \A x \in tokens \ rs : x.token.session \notin gone
  PROVE  LateOnes' /\ EndedStaysEnded'
<1>1. LateOnes' /\ ended' = ended \cup gone
  BY EndingMarks
<1> QED
  BY <1>1 DEF EndedStaysEnded

(* Every step keeps LateOnes and EndedStaysEnded. *)
LEMMA EndedKept == Types /\ Numbered /\ SessionsCarried /\ LateOnes /\ EndedStaysEnded /\ [Next]_vars
                   => LateOnes' /\ EndedStaysEnded'
<1> SUFFICES ASSUME Types, Numbered, SessionsCarried, LateOnes, EndedStaysEnded, [Next]_vars
             PROVE  LateOnes' /\ EndedStaysEnded'
  OBVIOUS
<1>1. ASSUME NEW c \in Clients, ClientStep(c) PROVE LateOnes' /\ EndedStaysEnded'
  <2>1. CASE Logout(c)
    BY <2>1, LogoutKeepsLate
  <2>2. CASE ~Logout(c)
    BY <1>1, <2>2, StartsKeepLate DEF ClientStep
  <2> QED
    BY <2>1, <2>2
<1>2. ASSUME NEW r \in Requests, RequestStep(r) PROVE LateOnes' /\ EndedStaysEnded'
  <2>1. CASE RotateDelete(r) \/ ChangeDelete(r)
    <3>1. UNCHANGED <<tokens, ended, late, call>>
          /\ \A q \in Requests : pc'[q] \in {"checked", "deleting"} => pc[q] \in {"checked", "deleting"}
      BY <2>1 DEF RotateDelete, ChangeDelete, server, history, Types, TypeOK
    <3> QED
      BY <3>1, LateStay DEF EndedStaysEnded
  <2>2. CASE RotateCommit(r)
    BY <2>2, RotationKeepsLate
  <2>3. CASE \E new \in Passwords : ChangeCommit(r, new)
    BY <2>3, ChangeKeepsLate
  <2>4. CASE Fail(r) \/ Answer(r) \/ AnswerLost(r)
    <3>1. Over(r) /\ UNCHANGED <<tokens, ended>> /\ late' = late \ {r}
      BY <2>4 DEF Fail, Answer, AnswerLost, server
    <3> QED
      BY <3>1, LateStay, OverEffect DEF EndedStaysEnded
  <2> QED
    BY <1>2, <2>1, <2>2, <2>3, <2>4 DEF RequestStep
<1>3. ASSUME NEW u \in Users, AccountStep(u) PROVE LateOnes' /\ EndedStaysEnded'
  <2>1. CASE DeleteUser(u)
    <3>1. RowsOf(u) \subseteq tokens /\ tokens' = tokens \ RowsOf(u)
          /\ End(Sessions(RowsOf(u)), {}) /\ UNCHANGED <<pc, call>>
      BY <2>1 DEF DeleteUser, RowsOf, work
    <3>2. ASSUME NEW x \in tokens \ RowsOf(u) PROVE x.token.session \notin Sessions(RowsOf(u))
      <4>1. x.token.session[1] # u
        BY DEF RowsOf, Types, Known, Owned
      <4>2. \A y \in RowsOf(u) : y.token.session[1] = u
        BY DEF RowsOf, Types, Known, Owned
      <4> QED
        BY <4>1, <4>2 DEF Sessions
    <3> QED
      BY <3>1, <3>2, RowsGoKeepLate
  <2>2. CASE ~DeleteUser(u)
    <3>1. UNCHANGED <<tokens, ended, late, pc, call>>
      BY <1>3, <2>2 DEF AccountStep, Decide, MoveOut, work, history
    <3> QED
      BY <3>1, LateStay DEF EndedStaysEnded
  <2> QED
    BY <2>1, <2>2
<1>4. CASE Tick \/ UNCHANGED vars
  <2>1. UNCHANGED <<tokens, ended, late, pc, call>>
    BY <1>4 DEF Tick, work, history, vars
  <2> QED
    BY <2>1, LateStay DEF EndedStaysEnded
<1> QED
  BY <1>1, <1>2, <1>3, <1>4 DEF Next

(* An ended session has a row only if the request that inserted it was at work then, if it
   was inserted while the password was being changed, or if the browser logged out with the
   cookie of an answer older than its last (EndedStaysEnded). *)
THEOREM EndedSessionsStayEnded == Spec => []EndedStaysEnded
<1>1. Init => LateOnes /\ EndedStaysEnded
  BY DEF Init, LateOnes, EndedStaysEnded
<1> QED
  BY <1>1, SessionsFirst, TypesFirst, TypesKept, NumberedKept, OwnersKept, WaitingKept, CarriedKept,
     EndedKept, PTL DEF Spec
=============================================================================
