--------------------------- MODULE SessionTokens ---------------------------
(***************************************************************************)
(* Login, refresh, logout and password change (auth.service.ts,            *)
(* user.service.ts, the cookies set by auth.controller.ts) and the table   *)
(* of refresh tokens they share.                                           *)
(*                                                                         *)
(* A refresh token is a signed string made of the user's id, role and      *)
(* apartment and of the second it was signed in, so that two tokens with   *)
(* the same contents signed in one second are the same string; its column  *)
(* is unique.  The access token signed with it has the same contents and a *)
(* shorter life, and nobody looks it up.                                   *)
(*                                                                         *)
(* A login, refresh or password change reads first, then works in a        *)
(* transaction at READ COMMITTED: its DELETE takes the rows committed when *)
(* it starts, waits for those another transaction is deleting, and never   *)
(* sees a row committed later.  Taking that snapshot is one action, the    *)
(* rest of the transaction with its commit another.                        *)
(***************************************************************************)
EXTENDS Naturals, FiniteSets

CONSTANTS
  Users,           \* accounts
  Residents,       \* those with role USER; the others are managers
  Clients,         \* browsers, each with a cookie jar
  Requests,        \* requests the server works on at one time
  Passwords,
  NoToken,         \* an empty cookie jar
  NoCall,          \* an idle request
  MaxLogins,       \* bound: logins per user
  MaxRows,         \* bound: tokens issued in all
  MaxClock,        \* bound: seconds that matter
  AccessLifetime,  \* 15 minutes
  Lifetime         \* 14 days

ASSUME ConstantsAssumption ==
  /\ Residents \subseteq Users
  /\ Passwords # {}
  /\ {MaxLogins, MaxRows, MaxClock, AccessLifetime, Lifetime} \subseteq Nat
  /\ AccessLifetime <= Lifetime

VARIABLES
  account,  \* account[u]: status, password, whether he has an apartment
  tokens,   \* rows of RefreshToken
  issued,   \* rows inserted so far; a row's id is its number
  clock,    \* seconds
  jar,      \* jar[c]: the token pair in the cookies of c
  pc,       \* pc[r]: how far request r has come
  call,     \* call[r]: what r is about, as read when it started
  stamp,    \* stamp[r]: the second r signed its token in
  seen,     \* seen[r]: ids of the rows the DELETE of r has found
  since,    \* since[r]: rows issued when the DELETE of a password change began
  opened,   \* opened[u]: logins of u that passed the password check
  ended,    \* history: sessions that a logout answered, a password change or
            \* another login has ended, or the deletion of the user
  late,     \* history: requests whose session ended while they were at work
  rival,    \* history: requests that another rotation of the user overtook
  orderly   \* history: clients that got every answer before asking again

server == <<account, tokens, issued, clock>>
work == <<pc, call, stamp, seen, since>>
history == <<opened, ended, late, rival, orderly>>
vars == <<account, tokens, issued, clock, jar, pc, call, stamp, seen, since,
          opened, ended, late, rival, orderly>>

\* The n-th login of u starts the session <<u, n>>, which its refreshes carry on.
Session == Users \X (1 .. MaxLogins)
\* What the string encodes; "session" is history and not in the string.
Token == [user : Users, scope : BOOLEAN, iat : 0 .. MaxClock, session : Session]
Row == [id : 1 .. MaxRows, token : Token, late : BOOLEAN, rival : BOOLEAN]
Account == [status : {"PENDING", "APPROVED", "REJECTED", "DELETED"},
            password : Passwords, housed : BOOLEAN]
Call == [kind : {"login", "refresh", "change", "profile"}, client : Clients,
         user : Users, scope : BOOLEAN, session : Session, password : Passwords]

SameString(a, b) == a.user = b.user /\ a.scope = b.scope /\ a.iat = b.iat
Expired(t) == clock >= t.iat + Lifetime
Exists(u) == account[u].status # "DELETED"
Ids(rows) == {x.id : x \in rows}
RowsOf(u) == {x \in tokens : x.token.user = u}
InFlight(u) == {r \in Requests : pc[r] \in {"checked", "deleting"} /\ call[r].user = u}
\* Other requests of c that have not been answered.
Pending(c) == {r \in Requests : pc[r] # "idle" /\ call[r].client = c}

Init ==
  /\ account \in [Users -> {[status |-> "PENDING", password |-> p, housed |-> TRUE] : p \in Passwords}]
  /\ tokens = {} /\ issued = 0 /\ clock = 0
  /\ jar = [c \in Clients |-> NoToken]
  /\ pc = [r \in Requests |-> "idle"]
  /\ call = [r \in Requests |-> NoCall]
  /\ stamp = [r \in Requests |-> 0]
  /\ seen = [r \in Requests |-> {}]
  /\ since = [r \in Requests |-> 0]
  /\ opened = [u \in Users |-> 0]
  /\ ended = {} /\ late = {} /\ rival = {}
  /\ orderly = Clients

----------------------------------------------------------------------------
(* How requests start and end.                                             *)

\* c asks before an earlier request of his is answered.
AsksEarly(c) == orderly' = IF Pending(c) = {} THEN orderly ELSE orderly \ {c}

Start(r, k) ==
  /\ pc' = [pc EXCEPT ![r] = "checked"]
  /\ call' = [call EXCEPT ![r] = k]
  /\ AsksEarly(k.client)

\* r is over; nothing of it stays behind.
Over(r) ==
  /\ pc' = [pc EXCEPT ![r] = "idle"]
  /\ call' = [call EXCEPT ![r] = NoCall]
  /\ stamp' = [stamp EXCEPT ![r] = 0]
  /\ seen' = [seen EXCEPT ![r] = {}]
  /\ since' = [since EXCEPT ![r] = 0]
  /\ rival' = rival \ {r}

Sessions(rows) == {x.token.session : x \in rows}
\* Sessions that end when these rows go: one of two tokens that rival
\* rotations left to a session does not end it.
Without(rows) == Sessions(rows) \ Sessions(tokens \ rows)

\* The sessions in gone are over; requests at work for one of them are late,
\* but for the one that is done.
End(gone, done) ==
  /\ ended' = ended \cup gone
  /\ late' = (late \cup {r \in Requests : pc[r] \in {"checked", "deleting"} /\ call[r].session \in gone})
             \ done

\* The rows that stay, those of marks as rows of a session that is over.
MarkLate(rows, marks) ==
  {IF x \in marks THEN [x EXCEPT !.late = TRUE] ELSE x : x \in rows}

Reading == UNCHANGED <<account, tokens, issued, clock, jar, stamp, seen, since, rival>>

----------------------------------------------------------------------------
(* Login and refresh.                                                      *)

\* login: the user is found by name, the password compared with the one
\* read, and undecided and rejected accounts are refused.  A manager's
\* apartment is in his row, a resident's comes from his roster entry.
Login(r, c, u) ==
  /\ pc[r] = "idle"
  /\ account[u].status \notin {"PENDING", "REJECTED", "DELETED"}
  /\ opened[u] < MaxLogins
  /\ opened' = [opened EXCEPT ![u] = @ + 1]
  /\ Start(r, [kind |-> "login", client |-> c, user |-> u,
               scope |-> u \notin Residents \/ account[u].housed,
               session |-> <<u, opened[u] + 1>>, password |-> account[u].password])
  /\ UNCHANGED <<ended, late>>
  /\ Reading

\* What findRefreshToken selects of the user is his own row only.
ScopeOnRefresh(u) == u \notin Residents

\* refresh: the signature and its age are verified, then the string is looked
\* up.  A request for a row that should be gone, or for a string that another
\* session signed in the same second, is late from the start.
Refresh(r, c) ==
  /\ pc[r] = "idle" /\ jar[c] # NoToken
  /\ ~Expired(jar[c])
  /\ \E x \in tokens :
       /\ SameString(x.token, jar[c])
       /\ late' = IF x.late \/ x.token.session # jar[c].session THEN late \cup {r} ELSE late
  /\ Start(r, [kind |-> "refresh", client |-> c, user |-> jar[c].user,
               scope |-> ScopeOnRefresh(jar[c].user),
               session |-> jar[c].session, password |-> account[jar[c].user].password])
  /\ UNCHANGED <<opened, ended>>
  /\ Reading

\* rotateTokens signs both tokens, opens its transaction and sends
\* deleteAllRefreshTokens.
\* Mutant: only the token of the session is looked for.
RotateDeleteOwn(r) ==
  /\ pc[r] = "checked" /\ call[r].kind \in {"login", "refresh"}
  /\ pc' = [pc EXCEPT ![r] = "deleting"]
  /\ stamp' = [stamp EXCEPT ![r] = clock]
  /\ seen' = [seen EXCEPT ![r] = Ids({x \in RowsOf(call[r].user) : x.token.session = call[r].session})]
  /\ UNCHANGED <<server, jar, call, since, history>>

RotateDelete(r) ==
  /\ pc[r] = "checked" /\ call[r].kind \in {"login", "refresh"}
  /\ pc' = [pc EXCEPT ![r] = "deleting"]
  /\ stamp' = [stamp EXCEPT ![r] = clock]
  /\ seen' = [seen EXCEPT ![r] = Ids(RowsOf(call[r].user))]
  /\ UNCHANGED <<server, jar, call, since, history>>

\* The rows the DELETE of r leaves.
Others(r) == {x \in tokens : x.id \notin seen[r]}

\* Mutant: signed with the clock of another host.
SignedAhead(r) == [user |-> call[r].user, scope |-> call[r].scope, iat |-> stamp[r] + 1,
                   session |-> call[r].session]

Signed(r) == [user |-> call[r].user, scope |-> call[r].scope, iat |-> stamp[r],
              session |-> call[r].session]

\* The rest of rotateTokens: the rows seen are deleted, saveRefreshToken
\* inserts the new one and both commit.  The user must still be there, and
\* no row may hold the same string.
RotateCommit(r) ==
  /\ pc[r] = "deleting" /\ call[r].kind \in {"login", "refresh"}
  /\ Exists(call[r].user)
  /\ issued < MaxRows
  /\ \A x \in Others(r) : ~SameString(x.token, Signed(r))
  /\ tokens' = Others(r) \cup
               {[id |-> issued + 1, token |-> Signed(r), late |-> r \in late, rival |-> r \in rival]}
  /\ issued' = issued + 1
  /\ pc' = [pc EXCEPT ![r] = "answer"]
  /\ End(Without(tokens \ Others(r)) \ {call[r].session}, {})
  /\ rival' = rival \cup {q \in InFlight(call[r].user) \ {r} : pc[q] = "deleting"}
  /\ UNCHANGED <<account, clock, jar, call, stamp, seen, since, opened, orderly>>

\* Mutant: without a transaction, the deletion stays when the insert fails.
FailHalfway(r) ==
  /\ pc[r] \in {"checked", "deleting"}
  /\ tokens' = Others(r)
  /\ Over(r)
  /\ late' = late \ {r}
  /\ UNCHANGED <<account, issued, clock, jar, opened, ended, orderly>>

\* A transaction that cannot commit (a string that exists, a user who is gone,
\* a deadlock, a lost connection) is rolled back as a whole; the client is
\* told of the error and keeps its cookies.
Fail(r) ==
  /\ pc[r] \in {"checked", "deleting"}
  /\ Over(r)
  /\ late' = late \ {r}
  /\ UNCHANGED <<server, jar, opened, ended, orderly>>

\* setAuthCookies, when the answer arrives.  A login starts the client afresh.
Answer(r) ==
  /\ pc[r] = "answer"
  /\ Over(r)
  /\ late' = late \ {r}
  /\ jar' = [jar EXCEPT ![call[r].client] = Signed(r)]
  /\ orderly' = IF call[r].kind = "login" /\ Pending(call[r].client) = {r}
                THEN orderly \cup {call[r].client} ELSE orderly
  /\ UNCHANGED <<server, opened, ended>>

AnswerLost(r) ==
  /\ pc[r] = "answer"
  /\ Over(r)
  /\ late' = late \ {r}
  /\ orderly' = orderly \ {call[r].client}
  /\ UNCHANGED <<server, jar, opened, ended>>

----------------------------------------------------------------------------
(* Logout and password change; authMiddleware looks at the access token.   *)

Authorized(c) == jar[c] # NoToken /\ clock < jar[c].iat + AccessLifetime

\* logout: deleteRefreshTokens takes the row with this very string, if there
\* is one; the cookies are cleared and the client told that it is logged out
\* either way.  The cookie of a client that missed an answer, or did not wait
\* for it, holds an older string than the row, which then stays, as late.
Logout(c) ==
  /\ Authorized(c)
  /\ AsksEarly(c)
  /\ LET gone == {x \in tokens : SameString(x.token, jar[c])}
         missed == {x \in tokens : x.token.session = jar[c].session /\ c \notin orderly'}
     IN /\ tokens' = MarkLate(tokens \ gone, missed)
        /\ End(Without(gone) \cup {jar[c].session}, {})
  /\ jar' = [jar EXCEPT ![c] = NoToken]
  /\ UNCHANGED <<account, issued, clock, work, opened, rival>>

\* changePassword ("change") and updateProfile ("profile"), up to the end of
\* handlePasswordUpdate, which compares the current password with the row.
ChangePassword(r, c, kind) ==
  /\ pc[r] = "idle" /\ Authorized(c)
  /\ Exists(jar[c].user)
  /\ Start(r, [kind |-> kind, client |-> c, user |-> jar[c].user, scope |-> FALSE,
               session |-> jar[c].session, password |-> account[jar[c].user].password])
  /\ UNCHANGED <<opened, ended, late>>
  /\ Reading

\* The user's row is locked by the changes that have updated it.
RowLocked(u) == \E q \in InFlight(u) : pc[q] = "deleting" /\ call[q].kind = "change"

\* The DELETE of the change begins: after updatePassword, which locks the
\* user's row, in changePassword, before it in updateProfile.
ChangeDelete(r) ==
  /\ pc[r] = "checked" /\ call[r].kind \in {"change", "profile"}
  /\ call[r].kind = "change" => ~RowLocked(call[r].user) /\ Exists(call[r].user)
  /\ pc' = [pc EXCEPT ![r] = "deleting"]
  /\ seen' = [seen EXCEPT ![r] = Ids(RowsOf(call[r].user))]
  /\ since' = [since EXCEPT ![r] = issued]
  /\ UNCHANGED <<server, jar, call, stamp, history>>

\* Mutant: the sessions are kept.
ChangeCommitKeeping(r, new) ==
  /\ pc[r] = "deleting" /\ call[r].kind \in {"change", "profile"}
  /\ call[r].kind = "profile" => ~RowLocked(call[r].user)
  /\ Exists(call[r].user)
  /\ new # call[r].password
  /\ account' = [account EXCEPT ![call[r].user].password = new]
  /\ End({call[r].user} \X (1 .. opened[call[r].user]), {r})
  /\ Over(r)
  /\ UNCHANGED <<tokens, issued, clock, jar, opened, orderly>>

\* Both commit.  A row the DELETE did not find stays: if it was stored after
\* the DELETE began, when the row could not have been found, it is late.
ChangeCommit(r, new) ==
  /\ pc[r] = "deleting" /\ call[r].kind \in {"change", "profile"}
  /\ call[r].kind = "profile" => ~RowLocked(call[r].user)
  /\ Exists(call[r].user)
  /\ new # call[r].password
  /\ account' = [account EXCEPT ![call[r].user].password = new]
  /\ tokens' = MarkLate(Others(r), {x \in RowsOf(call[r].user) : x.id > since[r]})
  /\ End({call[r].user} \X (1 .. opened[call[r].user]), {r})
  /\ Over(r)
  /\ UNCHANGED <<issued, clock, jar, opened, orderly>>

----------------------------------------------------------------------------
(* What happens to accounts elsewhere, and time.                           *)

\* Decisions on residents and managers.
Decide(u, status) ==
  /\ Exists(u) /\ account[u].status # status
  /\ account' = [account EXCEPT ![u].status = status]
  /\ UNCHANGED <<tokens, issued, clock, jar, work, history>>

\* deleteResident: the account is rejected and loses its roster entry.
MoveOut(u) ==
  /\ u \in Residents /\ Exists(u) /\ account[u].housed
  /\ account' = [account EXCEPT ![u].housed = FALSE, ![u].status = "REJECTED"]
  /\ UNCHANGED <<tokens, issued, clock, jar, work, history>>

\* The cleanups and deleteAdmin delete the user, and his tokens by cascade.
DeleteUser(u) ==
  /\ Exists(u)
  /\ account' = [account EXCEPT ![u].status = "DELETED"]
  /\ tokens' = tokens \ RowsOf(u)
  /\ End(Sessions(RowsOf(u)), {})
  /\ UNCHANGED <<issued, clock, jar, work, opened, rival, orderly>>

Tick ==
  /\ clock < MaxClock
  /\ clock' = clock + 1
  /\ UNCHANGED <<account, tokens, issued, jar, work, history>>

----------------------------------------------------------------------------
ClientStep(c) ==
  \/ \E r \in Requests, u \in Users : Login(r, c, u)
  \/ \E r \in Requests : Refresh(r, c)
  \/ Logout(c)
  \/ \E r \in Requests, kind \in {"change", "profile"} : ChangePassword(r, c, kind)

RequestStep(r) ==
  \/ RotateDelete(r) \/ RotateCommit(r)
  \/ ChangeDelete(r)
  \/ \E new \in Passwords : ChangeCommit(r, new)
  \/ Fail(r) \/ Answer(r) \/ AnswerLost(r)

AccountStep(u) ==
  \/ \E status \in {"APPROVED", "REJECTED"} : Decide(u, status)
  \/ MoveOut(u) \/ DeleteUser(u)

Next ==
  \/ \E c \in Clients : ClientStep(c)
  \/ \E r \in Requests : RequestStep(r)
  \/ \E u \in Users : AccountStep(u)
  \/ Tick

Spec == Init /\ [][Next]_vars

----------------------------------------------------------------------------
(* Properties.                                                             *)

TypeOK ==
  /\ account \in [Users -> Account]
  /\ tokens \subseteq Row
  /\ issued \in 0 .. MaxRows /\ clock \in 0 .. MaxClock
  /\ jar \in [Clients -> Token \cup {NoToken}]
  /\ pc \in [Requests -> {"idle", "checked", "deleting", "answer"}]
  /\ call \in [Requests -> Call \cup {NoCall}]
  /\ stamp \in [Requests -> 0 .. MaxClock]
  /\ seen \in [Requests -> SUBSET (1 .. MaxRows)]
  /\ since \in [Requests -> 0 .. MaxRows]
  /\ opened \in [Users -> 0 .. MaxLogins]
  /\ ended \subseteq Session
  /\ late \subseteq Requests /\ rival \subseteq Requests
  /\ orderly \subseteq Clients

\* A session that a logout, a password change or another login ended has no
\* token, but for three ways the code leaves one: the request that stored it
\* had read the old token or password and was at work when the session ended
\* (refresh, auth.service.ts:213); it was stored between the DELETE and the
\* commit of the password change (user.service.ts:62); or the client logged
\* out without having had, or awaited, every answer since its login, so that
\* its cookie was not the row's string (auth.service.ts:236).
EndedStaysEnded ==
  \A x \in tokens : x.token.session \in ended => x.late

\* rotateTokens leaves one refresh token per user; two of them show that
\* another rotation committed between its DELETE and its commit.
OneTokenPerUser ==
  \A x, y \in tokens : x.token.user = y.token.user /\ x # y => x.rival \/ y.rival

\* A client that asks one thing at a time and gets its answers can refresh
\* again, whatever fails on the way, until something ends its session: the
\* old row goes only with the insert of the new one (auth.service.ts:456).
ClientKeepsSession ==
  \A c \in orderly : jar[c] # NoToken /\ (\A r \in Pending(c) : pc[r] # "answer") =>
    \/ \E x \in tokens : SameString(x.token, jar[c])
    \/ jar[c].session \in ended

\* "Invalidates the token in the database" (auth.controller.ts:104): once a
\* client is logged out, its session has no token.
LogoutEndsSession ==
  [][\A c \in Clients : jar[c] # NoToken /\ jar'[c] = NoToken =>
       \A x \in tokens' : x.token.session # jar[c].session]_vars

\* Residents can read the notices and complaints of their apartment, which
\* both handlers find by the apartment in the access token.
ResidentKeepsScope ==
  \A c \in Clients : jar[c] # NoToken /\ account[jar[c].user].housed => jar[c].scope
=============================================================================
