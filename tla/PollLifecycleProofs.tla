------------------------- MODULE PollLifecycleProofs -------------------------
(* Theorems about PollLifecycle, for all values of its constants. *)
EXTENDS PollLifecycle, FiniteSetTheorems, TLAPS

(* Rows that are written have the columns of Poll. *)
LEMMA NoPollType == ASSUME NEW s \in PollStatus \cup {"NONE", "DELETED"} PROVE NoPoll(s) \in Row
BY ConstantsAssumption DEF NoPoll, Row, Dates

(* updatePollStatus changes one column. *)
LEMMA StatusType == ASSUME NEW row \in Row, NEW s \in PollStatus
                    PROVE  [row EXCEPT !.status = s] \in Row
BY DEF Row

(* What updatePoll writes is a row again. *)
LEMMA EditedType == ASSUME NEW row \in Row, NEW seen, NEW new \in EditedRows(row, seen)
                    PROVE  new \in Row /\ new.status \in PollStatus
<1>1. new \in [status : PollStatus, startDate : Dates, endDate : Dates,
               permission : Buildings \cup {Everyone}, edition : {row.edition, row.edition + 1}]
  BY DEF EditedRows
<1>2. row.edition \in Nat
  BY DEF Row
<1>3. QED
  BY <1>1, <1>2, ConstantsAssumption DEF Row

(* The tally of a finite set of votes counts. *)
LEMMA TallyType == ASSUME IsFiniteSet(votes), NEW p PROVE TallyOf(p) \in Tally
<1>1. \A c \in Choices : Cardinality({x \in VotesOn(p) : x.option.choice = c}) \in Nat
  BY FS_Subset, FS_CardinalityType DEF VotesOn
<1>2. QED
  BY <1>1 DEF TallyOf, Tally

(* The row of one poll is written, the others are left alone. *)
LEMMA OverwriteType ==
    ASSUME TypeOK, NEW p \in Polls, NEW seen, NEW row \in Row, Overwrite(p, seen, row)
    PROVE  poll' \in [Polls -> Row] /\ raced' \subseteq Polls
BY DEF TypeOK, Overwrite

(* A program point is left for idle. *)
LEMMA IdleType == Idle \in AdminState /\ Idle \in RequestState /\ Idle \in RunState
BY DEF AdminState, RequestState, RunState

(* Administrators' requests, except those that are idle, have read a poll. *)
LEMMA AdminFields == ASSUME TypeOK, NEW a \in Admins, admin[a].pc # "idle"
                     PROVE  admin[a].poll \in Polls /\ admin[a].seen \in Row
BY DEF TypeOK, AdminState, Idle

(* Voters' requests, except those that are idle, have a voter and an option. *)
LEMMA RequestFields ==
    ASSUME TypeOK, NEW r \in Requests, request[r].pc # "idle"
    PROVE  /\ request[r].voter \in Voters /\ request[r].option \in Option
           /\ request[r].option.poll \in Polls
           /\ \/ request[r] \in [pc : {"castFind", "castInsert", "cancelFind", "cancelDelete"},
                                 voter : Voters, option : Option]
              \/ request[r] \in [pc : {"castHome"}, voter : Voters, option : Option,
                                 permission : Buildings]
BY DEF TypeOK, RequestState, Idle, Option

(* What the work left of a run consists of. *)
LEMMA RunFields ==
    ASSUME TypeOK, NEW s \in Runs
    PROVE  /\ run[s].pc \in {"idle", "starting", "closing", "announcing"}
           /\ run[s].pc = "starting" => run[s].todo \subseteq ToStart
           /\ run[s].pc \in {"closing", "announcing"} => run[s].todo \subseteq ToClose
           /\ run[s].pc = "announcing" => run[s].closed \in ToClose
BY DEF TypeOK, RunState, Idle

(* The next state of a request is one of its record's. *)
LEMMA RequestMoves ==
    ASSUME TypeOK, NEW r \in Requests, NEW q \in RequestState,
           request' = [request EXCEPT ![r] = q]
    PROVE  request' \in [Requests -> RequestState]
BY DEF TypeOK

(* A request under way moves to another program point. *)
LEMMA RequestNext ==
    ASSUME NEW q \in RequestState, q.pc \notin {"idle", "castHome"},
           NEW pc \in {"castFind", "castInsert", "cancelFind", "cancelDelete"}
    PROVE  [q EXCEPT !.pc = pc] \in RequestState
BY DEF RequestState, Idle

-----------------------------------------------------------------------------
(* Every step keeps the types, component by component. *)

(* Steps of administrators keep the types. *)
LEMMA AdminTypes == ASSUME TypeOK, NEW a \in Admins, AdminStep(a) PROVE TypeOK'
<1>1. ASSUME NEW pc \in {"update", "delete"}, FindPollById(a, pc) PROVE TypeOK'
  <2>1. PICK p \in Polls : admin' = [admin EXCEPT ![a] = [pc |-> pc, poll |-> p, seen |-> poll[p]]]
    BY <1>1 DEF FindPollById
  <2>2. [pc |-> pc, poll |-> p, seen |-> poll[p]] \in AdminState
    BY DEF TypeOK, AdminState
  <2>3. admin' \in [Admins -> AdminState]
    BY <2>1, <2>2 DEF TypeOK
  <2>4. edits' \in 0..MaxEdits
    BY <1>1, ConstantsAssumption DEF TypeOK, FindPollById
  <2>5. QED
    BY <1>1, <2>3, <2>4 DEF TypeOK, FindPollById
<1>2. ASSUME UpdatePoll(a) PROVE TypeOK'
  <2>1. admin[a].poll \in Polls
    BY <1>2, AdminFields DEF UpdatePoll
  <2>2. poll' \in [Polls -> Row] /\ raced' \subseteq Polls
    <3>1. CASE UNCHANGED <<poll, votes, raced>>
      BY <3>1 DEF TypeOK
    <3>2. CASE \E new \in EditedRows(poll[admin[a].poll], admin[a].seen) :
                 Overwrite(admin[a].poll, admin[a].seen, new)
      BY <3>2, <2>1, EditedType, OverwriteType DEF TypeOK
    <3>3. QED
      BY <1>2, <3>1, <3>2 DEF UpdatePoll
  <2>3. votes' \subseteq votes
    BY <1>2 DEF UpdatePoll
  <2>4. votes' \subseteq Vote /\ IsFiniteSet(votes')
    BY <2>3, FS_Subset DEF TypeOK
  <2>5. admin' \in [Admins -> AdminState]
    BY <1>2, IdleType DEF UpdatePoll, TypeOK
  <2>6. QED
    BY <1>2, <2>2, <2>4, <2>5 DEF TypeOK, UpdatePoll
<1>3. ASSUME DeletePoll(a) PROVE TypeOK'
  <2>1. admin[a].poll \in Polls
    BY <1>3, AdminFields DEF DeletePoll
  <2>2. poll' \in [Polls -> Row] /\ raced' \subseteq Polls
    <3>1. CASE UNCHANGED <<poll, votes, raced>>
      BY <3>1 DEF TypeOK
    <3>2. CASE Overwrite(admin[a].poll, admin[a].seen, NoPoll("DELETED"))
      BY <3>2, <2>1, NoPollType, OverwriteType
    <3>3. QED
      BY <1>3, <3>1, <3>2 DEF DeletePoll
  <2>3. votes' \subseteq votes
    BY <1>3 DEF DeletePoll
  <2>4. votes' \subseteq Vote /\ IsFiniteSet(votes')
    BY <2>3, FS_Subset DEF TypeOK
  <2>5. admin' \in [Admins -> AdminState]
    BY <1>3, IdleType DEF DeletePoll, TypeOK
  <2>6. QED
    BY <1>3, <2>2, <2>4, <2>5 DEF TypeOK, DeletePoll
<1>4. QED
  BY <1>1, <1>2, <1>3 DEF AdminStep

(* Steps of voters keep the types. *)
LEMMA VoterTypes == ASSUME TypeOK, NEW r \in Requests, VoterStep(r) PROVE TypeOK'
<1> USE DEF RequestStep
<1>1. ASSUME NEW v \in Voters, NEW p \in Polls, NEW c \in Choices,
             NEW pc \in {"castFind", "cancelFind"}, RequestStep, UNCHANGED votes,
             request' = [request EXCEPT ![r] =
               IF pc = "cancelFind" \/ poll[p].permission = Everyone
               THEN [pc |-> pc, voter |-> v,
                     option |-> [poll |-> p, edition |-> poll[p].edition, choice |-> c]]
               ELSE [pc |-> "castHome", voter |-> v,
                     option |-> [poll |-> p, edition |-> poll[p].edition, choice |-> c],
                     permission |-> poll[p].permission]]
      PROVE  TypeOK'
  <2>1. poll[p].edition \in Nat /\ poll[p].permission \in Buildings \cup {Everyone}
    BY DEF TypeOK, Row
  <2>2. [poll |-> p, edition |-> poll[p].edition, choice |-> c] \in Option
    BY <2>1 DEF Option
  <2>3. request' \in [Requests -> RequestState]
    BY <1>1, <2>1, <2>2, RequestMoves DEF RequestState
  <2>4. QED
    BY <1>1, <2>3 DEF TypeOK
<1>2. ASSUME GetUserVote(r) \/ FindVoteToCancel(r) PROVE TypeOK'
  <2>1. request[r] \in RequestState /\ request[r].pc \notin {"idle", "castHome"}
    BY <1>2 DEF TypeOK, GetUserVote, FindVoteToCancel
  <2>2. \E q \in RequestState : request' = [request EXCEPT ![r] = q]
    BY <1>2, <2>1, IdleType, RequestNext DEF GetUserVote, FindVoteToCancel
  <2>3. request' \in [Requests -> RequestState]
    BY <2>2, RequestMoves
  <2>4. QED
    BY <1>2, <2>3 DEF TypeOK, GetUserVote, FindVoteToCancel
<1>3. ASSUME InsertVote(r) PROVE TypeOK'
  <2>1. request' \in [Requests -> RequestState]
    BY <1>3, IdleType, RequestMoves DEF InsertVote
  <2>2. [voter |-> request[r].voter, option |-> request[r].option, createdAt |-> now] \in Vote
    BY <1>3, RequestFields DEF InsertVote, Vote, TypeOK
  <2>3. votes' \subseteq Vote /\ IsFiniteSet(votes')
    BY <1>3, <2>2, FS_AddElement DEF InsertVote, TypeOK
  <2>4. QED
    BY <1>3, <2>1, <2>3 DEF TypeOK, InsertVote
<1>4. ASSUME DeleteVote(r) PROVE TypeOK'
  <2>1. request' \in [Requests -> RequestState]
    BY <1>4, IdleType, RequestMoves DEF DeleteVote
  <2>2. votes' \subseteq Vote /\ IsFiniteSet(votes')
    BY <1>4, FS_Subset DEF DeleteVote, TypeOK
  <2>3. QED
    BY <1>4, <2>1, <2>2 DEF TypeOK, DeleteVote
<1>5. ASSUME FindUserResidentBuilding(r) PROVE TypeOK'
  <2>1. Entitled(request[r]) \in RequestState
    BY <1>5, RequestFields DEF FindUserResidentBuilding, Entitled, RequestState
  <2>2. request' \in [Requests -> RequestState]
    BY <1>5, <2>1, IdleType, RequestMoves DEF FindUserResidentBuilding
  <2>3. QED
    BY <1>5, <2>2 DEF TypeOK, FindUserResidentBuilding
<1>6. ASSUME NEW v \in Voters, NEW p \in Polls, NEW c \in Choices,
             CastVote(r, v, [poll |-> p, edition |-> poll[p].edition, choice |-> c])
      PROVE  TypeOK'
  BY <1>1, <1>6 DEF CastVote
<1>7. ASSUME NEW v \in Voters, NEW p \in Polls, NEW c \in Choices,
             CancelVote(r, v, [poll |-> p, edition |-> poll[p].edition, choice |-> c])
      PROVE  TypeOK'
  BY <1>1, <1>7 DEF CancelVote
<1>8. QED
  BY <1>2, <1>3, <1>4, <1>5, <1>6, <1>7 DEF VoterStep

(* Steps of scheduler runs keep the types. *)
LEMMA RunTypes == ASSUME TypeOK, NEW s \in Runs, SchedulerStep(s) \/ AbortRun(s) PROVE TypeOK'
<1> USE DEF RunStep
<1>1. ASSUME FindPendingToStart(s) PROVE TypeOK'
  <2>1. {[poll |-> p, seen |-> poll[p]] : p \in {p \in Polls : Started(p)}} \subseteq ToStart
    BY DEF TypeOK, ToStart
  <2>2. run' \in [Runs -> RunState]
    BY <1>1, <2>1 DEF FindPendingToStart, TypeOK, RunState
  <2>3. QED
    BY <1>1, <2>2 DEF TypeOK, FindPendingToStart
<1>2. ASSUME NEW f \in run[s].todo, StartPoll(s, f) PROVE TypeOK'
  <2>1. f \in ToStart /\ run[s].todo \subseteq ToStart /\ f.poll \in Polls
    BY <1>2, RunFields DEF StartPoll, ToStart
  <2>2. [poll[f.poll] EXCEPT !.status = "IN_PROGRESS"] \in Row
    BY <2>1, StatusType DEF TypeOK, PollStatus
  <2>3. poll' \in [Polls -> Row] /\ raced' \subseteq Polls
    BY <1>2, <2>1, <2>2, OverwriteType DEF StartPoll, TypeOK
  <2>4. run' \in [Runs -> RunState]
    BY <1>2, <2>1, IdleType DEF StartPoll, TypeOK, RunState
  <2>5. QED
    BY <1>2, <2>3, <2>4 DEF TypeOK, StartPoll
<1>3. ASSUME FindInProgressToClose(s) PROVE TypeOK'
  <2>1. \A p \in Polls : TallyOf(p) \in Tally
    BY TallyType DEF TypeOK
  <2>2. {[poll |-> p, seen |-> poll[p], tally |-> TallyOf(p)] : p \in {p \in Polls : Ended(p)}}
          \subseteq ToClose
    BY <2>1 DEF TypeOK, ToClose
  <2>3. run' \in [Runs -> RunState]
    BY <1>3, <2>2 DEF FindInProgressToClose, TypeOK, RunState
  <2>4. QED
    BY <1>3, <2>3 DEF TypeOK, FindInProgressToClose
<1>4. ASSUME NEW f \in run[s].todo, ClosePoll(s, f) PROVE TypeOK'
  <2>1. f \in ToClose /\ run[s].todo \subseteq ToClose /\ f.poll \in Polls
    BY <1>4, RunFields DEF ClosePoll, ToClose
  <2>2. [poll[f.poll] EXCEPT !.status = "CLOSED"] \in Row
    BY <2>1, StatusType DEF TypeOK, PollStatus
  <2>3. poll' \in [Polls -> Row] /\ raced' \subseteq Polls
    BY <1>4, <2>1, <2>2, OverwriteType DEF ClosePoll, TypeOK
  <2>4. run' \in [Runs -> RunState]
    BY <1>4, <2>1, IdleType DEF ClosePoll, TypeOK, RunState
  <2>5. autoClosed' \subseteq Polls
    BY <1>4, <2>1 DEF ClosePoll, TypeOK
  <2>6. QED
    BY <1>4, <2>3, <2>4, <2>5 DEF TypeOK, ClosePoll
<1>5. ASSUME CreateResultNotice(s) PROVE TypeOK'
  <2>1. run[s].closed \in ToClose /\ run[s].todo \subseteq ToClose
    BY <1>5, RunFields DEF CreateResultNotice
  <2>2. run[s].closed.poll \in Polls /\ run[s].closed.tally \in Tally
    BY <2>1 DEF ToClose
  <2>3. \A p \in Polls : Append(notices[p], run[s].closed.tally) \in Seq(Tally)
    BY <2>2 DEF TypeOK
  <2>4. notices' \in [Polls -> Seq(Tally)]
    BY <1>5, <2>2, <2>3 DEF CreateResultNotice, TypeOK
  <2>5. run' \in [Runs -> RunState]
    BY <1>5, <2>1, IdleType DEF CreateResultNotice, TypeOK, RunState
  <2>6. QED
    BY <1>5, <2>4, <2>5 DEF TypeOK, CreateResultNotice
<1>6. ASSUME FinishRun(s) \/ AbortRun(s) PROVE TypeOK'
  <2>1. run' \in [Runs -> RunState]
    BY <1>6, IdleType DEF FinishRun, AbortRun, TypeOK
  <2>2. faults' \in 0..MaxFaults
    BY <1>6, ConstantsAssumption DEF FinishRun, AbortRun, TypeOK
  <2>3. QED
    BY <1>6, <2>1, <2>2 DEF TypeOK, FinishRun, AbortRun
<1>7. QED
  BY <1>1, <1>2, <1>3, <1>4, <1>5, <1>6 DEF SchedulerStep

(* So do creations, deletions of users and of the apartment, and the clock. *)
LEMMA OtherTypes ==
    ASSUME TypeOK, \/ \E p \in Polls : CreatePoll(p)
                   \/ \E v \in Voters : DeleteUser(v) \/ Move(v)
                   \/ DeleteApartment
                   \/ Tick
    PROVE  TypeOK'
<1>1. ASSUME NEW p \in Polls, CreatePoll(p) PROVE TypeOK'
  <2>1. PICK t \in PollStatus, d, e \in Dates, b \in Buildings \cup {Everyone} :
          poll' = [poll EXCEPT ![p] = [status |-> t, startDate |-> d, endDate |-> e,
                                       permission |-> b, edition |-> 0]]
    BY <1>1 DEF CreatePoll
  <2>2. [status |-> t, startDate |-> d, endDate |-> e, permission |-> b, edition |-> 0] \in Row
    BY ConstantsAssumption DEF Row
  <2>3. poll' \in [Polls -> Row]
    BY <2>1, <2>2 DEF TypeOK
  <2>4. QED
    BY <1>1, <2>3 DEF TypeOK, CreatePoll
<1>2. ASSUME NEW v \in Voters, DeleteUser(v) PROVE TypeOK'
  <2>1. /\ votes' \subseteq Vote /\ IsFiniteSet(votes')
        /\ home' \in [Voters -> Buildings \cup {NoHome}]
    BY <1>2, FS_Subset DEF DeleteUser, TypeOK
  <2>2. QED
    BY <1>2, <2>1 DEF TypeOK, DeleteUser
<1>3. ASSUME DeleteApartment PROVE TypeOK'
  <2>1. NoPoll("DELETED") \in Row
    BY NoPollType
  <2>2. poll' \in [Polls -> Row]
    BY <1>3, <2>1 DEF DeleteApartment, TypeOK
  <2>3. votes' \subseteq Vote /\ IsFiniteSet(votes')
    BY <1>3, FS_EmptySet DEF DeleteApartment
  <2>4. notices' \in [Polls -> Seq(Tally)]
    BY <1>3 DEF DeleteApartment
  <2>5. QED
    BY <1>3, <2>2, <2>3, <2>4 DEF TypeOK, DeleteApartment
<1>4. ASSUME Tick PROVE TypeOK'
  <2>1. now' \in Time
    BY <1>4, ConstantsAssumption DEF Tick, TypeOK, Time
  <2>2. QED
    BY <1>4, <2>1 DEF TypeOK, Tick
<1>5. ASSUME NEW v \in Voters, Move(v) PROVE TypeOK'
  <2>1. home' \in [Voters -> Buildings \cup {NoHome}] /\ edits' \in 0..MaxEdits
    BY <1>5, ConstantsAssumption DEF Move, TypeOK
  <2>2. QED
    BY <1>5, <2>1 DEF TypeOK, Move
<1>6. QED
  BY <1>1, <1>2, <1>3, <1>4, <1>5

(* Tables, requests and scheduler runs keep to their columns and program points, for any
   number of polls, users, requests and overlapping runs. *)
THEOREM TypeCorrect == Spec => []TypeOK
<1>1. Init => TypeOK
  <2>1. NoPoll("NONE") \in Row
    BY NoPollType
  <2>2. ASSUME Init PROVE TypeOK
    <3>1. now \in Time /\ edits \in 0..MaxEdits /\ faults \in 0..MaxFaults
      BY <2>2, ConstantsAssumption DEF Init, Time
    <3>2. poll \in [Polls -> Row]
      BY <2>2, <2>1 DEF Init
    <3>3. votes \subseteq Vote /\ IsFiniteSet(votes)
      BY <2>2, FS_EmptySet DEF Init
    <3>4. notices \in [Polls -> Seq(Tally)]
      BY <2>2 DEF Init
    <3>5. /\ admin \in [Admins -> AdminState] /\ request \in [Requests -> RequestState]
          /\ run \in [Runs -> RunState]
      BY <2>2, IdleType DEF Init
    <3>6. QED
      BY <2>2, <3>1, <3>2, <3>3, <3>4, <3>5 DEF Init, TypeOK
  <2>3. QED
    BY <2>2
<1>2. TypeOK /\ [Next]_vars => TypeOK'
  <2>1. TypeOK /\ Next => TypeOK'
    BY AdminTypes, VoterTypes, RunTypes, OtherTypes DEF Next
  <2>2. TypeOK /\ UNCHANGED vars => TypeOK'
    BY DEF TypeOK, vars
  <2>3. QED
    BY <2>1, <2>2
<1>3. QED
  BY <1>1, <1>2, PTL DEF Spec

-----------------------------------------------------------------------------
(* Whoever is about to write a poll has read it in the status the write is meant for:
   the check is made, if not at the time of the write. *)
AdminSaw == \A a \in Admins : admin[a].pc # "idle" => admin[a].seen.status = "PENDING"
OverWhenSeen(f) == f.seen.status = "IN_PROGRESS" /\ f.seen.endDate < now
RunSaw ==
    \A s \in Runs :
        /\ run[s].pc = "starting" => \A f \in run[s].todo : f.seen.status = "PENDING"
        /\ run[s].pc \in {"closing", "announcing"} => \A f \in run[s].todo : OverWhenSeen(f)
        /\ run[s].pc = "announcing" => OverWhenSeen(run[s].closed)
SeenRows == AdminSaw /\ RunSaw

(* What each kind of step leaves alone. *)
LEMMA AdminFrame ==
    ASSUME NEW a \in Admins, AdminStep(a)
    PROVE  UNCHANGED <<now, apartment, members, home, notices, request, run, faults, autoClosed>>
BY DEF AdminStep, FindPollById, UpdatePoll, DeletePoll

(* What steps of voters leave alone. *)
LEMMA VoterFrame == ASSUME NEW r \in Requests, VoterStep(r) PROVE RequestStep
BY DEF VoterStep, CastVote, FindUserResidentBuilding, GetUserVote, InsertVote, CancelVote, FindVoteToCancel, DeleteVote

(* What steps of scheduler runs leave alone. *)
LEMMA RunFrame == ASSUME NEW s \in Runs, SchedulerStep(s) \/ AbortRun(s) PROVE RunStep
BY DEF SchedulerStep, FindPendingToStart, StartPoll, FindInProgressToClose, ClosePoll,
       CreateResultNotice, FinishRun, AbortRun

(* A run that has just read its work. *)
ReadToStart ==
    [pc |-> "starting", todo |-> {[poll |-> p, seen |-> poll[p]] : p \in {p \in Polls : Started(p)}}]
ReadToClose ==
    [pc |-> "closing", todo |-> {[poll |-> p, seen |-> poll[p], tally |-> TallyOf(p)] :
                                   p \in {p \in Polls : Ended(p)}}]

(* What becomes of a run's work in one of its steps. *)
LEMMA RunChanges ==
    ASSUME TypeOK, NEW s \in Runs, SchedulerStep(s) \/ AbortRun(s)
    PROVE  /\ \A t \in Runs \ {s} : run'[t] = run[t]
           /\ \/ run'[s] = Idle
              \/ run'[s] = ReadToStart
              \/ \E f \in run[s].todo :
                   run[s].pc = "starting" /\ run'[s] = [pc |-> "starting", todo |-> run[s].todo \ {f}]
              \/ run'[s] = ReadToClose
              \/ \E f \in run[s].todo :
                   /\ run[s].pc = "closing"
                   /\ run'[s] = [pc |-> "announcing", todo |-> run[s].todo \ {f}, closed |-> f]
              \/ run[s].pc = "announcing" /\ run'[s] = [pc |-> "closing", todo |-> run[s].todo]
<1>1. ASSUME NEW e, run' = [run EXCEPT ![s] = e]
      PROVE  (\A t \in Runs \ {s} : run'[t] = run[t]) /\ run'[s] = e
  BY <1>1 DEF TypeOK
<1>2. CASE FindPendingToStart(s)
  BY <1>2, <1>1 DEF FindPendingToStart, ReadToStart
<1>3. CASE run[s].pc = "starting" /\ \E f \in run[s].todo : StartPoll(s, f)
  BY <1>3, <1>1 DEF StartPoll
<1>4. CASE FindInProgressToClose(s)
  BY <1>4, <1>1 DEF FindInProgressToClose, ReadToClose
<1>5. CASE run[s].pc = "closing" /\ \E f \in run[s].todo : ClosePoll(s, f)
  BY <1>5, <1>1 DEF ClosePoll
<1>6. CASE CreateResultNotice(s)
  BY <1>6, <1>1 DEF CreateResultNotice
<1>7. CASE FinishRun(s) \/ AbortRun(s)
  BY <1>7, <1>1 DEF FinishRun, AbortRun
<1>8. QED
  BY <1>2, <1>3, <1>4, <1>5, <1>6, <1>7 DEF SchedulerStep

(* The work of a run stays as it was read while others act and time passes. *)
LEMMA RunSawLater ==
    ASSUME TypeOK, RunSaw, NEW t \in Runs, run'[t] = run[t], now' \in Nat, now <= now'
    PROVE  /\ run'[t].pc = "starting" => \A f \in run'[t].todo : f.seen.status = "PENDING"
           /\ run'[t].pc \in {"closing", "announcing"} => \A f \in run'[t].todo : OverWhenSeen(f)'
           /\ run'[t].pc = "announcing" => OverWhenSeen(run[t].closed)'
<1>1. ASSUME NEW f \in ToClose, OverWhenSeen(f) PROVE OverWhenSeen(f)'
  BY <1>1 DEF OverWhenSeen, ToClose, Row, Dates, TypeOK, Time
<1>2. QED
  BY <1>1, RunFields DEF RunSaw

(* Requests and runs act on what they read: a pending poll is edited, deleted or started,
   a poll in progress whose end date has passed is closed. *)
THEOREM RowsReadAreRight == Spec => []SeenRows
<1>1. Init => SeenRows
  BY DEF Init, SeenRows, AdminSaw, RunSaw, Idle
<1>2. TypeOK /\ SeenRows /\ [Next]_vars => SeenRows'
  <2> SUFFICES ASSUME TypeOK, SeenRows, [Next]_vars PROVE SeenRows'
    OBVIOUS
  <2>1. AdminSaw'
    <3>1. CASE \E a \in Admins : AdminStep(a)
      <4>1. PICK a \in Admins : AdminStep(a)
        BY <3>1
      <4>2. CASE \E pc \in {"update", "delete"} : FindPollById(a, pc)
        BY <4>2 DEF FindPollById, Editable, SeenRows, AdminSaw, TypeOK
      <4>3. CASE UpdatePoll(a) \/ DeletePoll(a)
        BY <4>3 DEF UpdatePoll, DeletePoll, SeenRows, AdminSaw, TypeOK, Idle
      <4>4. QED
        BY <4>1, <4>2, <4>3 DEF AdminStep
    <3>2. CASE UNCHANGED admin
      BY <3>2 DEF SeenRows, AdminSaw
    <3>3. QED
      BY <3>1, <3>2, VoterFrame, RunFrame
      DEF Next, vars, RequestStep, RunStep, CreatePoll, DeleteUser, Move, DeleteApartment, Tick
  <2>2. RunSaw'
    <3>1. CASE \E s \in Runs : SchedulerStep(s) \/ AbortRun(s)
      <4>1. PICK s \in Runs : SchedulerStep(s) \/ AbortRun(s)
        BY <3>1
      <4>2. now' = now
        BY <4>1, RunFrame DEF RunStep
      <4>3. \A f : OverWhenSeen(f)' <=> OverWhenSeen(f)
        BY <4>2 DEF OverWhenSeen
      <4>4. ASSUME NEW t \in Runs
            PROVE  /\ run'[t].pc = "starting" => \A f \in run'[t].todo : f.seen.status = "PENDING"
                   /\ run'[t].pc \in {"closing", "announcing"} => \A f \in run'[t].todo : OverWhenSeen(f)
                   /\ run'[t].pc = "announcing" => OverWhenSeen(run'[t].closed)
        <5>1. CASE t # s
          BY <5>1, <4>1, RunChanges DEF SeenRows, RunSaw
        <5>2. CASE t = s
          <6>1. CASE run'[s] = Idle
            BY <5>2, <6>1 DEF Idle
          <6>2. CASE run'[s] = ReadToStart
            BY <5>2, <6>2 DEF Started, ReadToStart
          <6>3. CASE \E f \in run[s].todo :
                       run[s].pc = "starting" /\ run'[s] = [pc |-> "starting", todo |-> run[s].todo \ {f}]
            BY <5>2, <6>3 DEF SeenRows, RunSaw
          <6>4. CASE run'[s] = ReadToClose
            BY <5>2, <6>4 DEF Ended, OverWhenSeen, ReadToClose
          <6>5. CASE \E f \in run[s].todo :
                       /\ run[s].pc = "closing"
                       /\ run'[s] = [pc |-> "announcing", todo |-> run[s].todo \ {f}, closed |-> f]
            BY <5>2, <6>5 DEF SeenRows, RunSaw
          <6>6. CASE run[s].pc = "announcing" /\ run'[s] = [pc |-> "closing", todo |-> run[s].todo]
            BY <5>2, <6>6 DEF SeenRows, RunSaw
          <6>7. QED
            BY <4>1, RunChanges, <6>1, <6>2, <6>3, <6>4, <6>5, <6>6
        <5>3. QED
          BY <5>1, <5>2
      <4>5. QED
        BY <4>3, <4>4 DEF RunSaw
    <3>2. CASE UNCHANGED run
      <4>1. now' \in Nat /\ now <= now'
        BY AdminFrame, VoterFrame, RunFrame DEF Next, vars, RequestStep, RunStep,
           CreatePoll, DeleteUser, Move, DeleteApartment, Tick, TypeOK, Time
      <4>2. QED
        BY <3>2, <4>1, RunSawLater DEF SeenRows, RunSaw
    <3>3. QED
      BY <3>1, <3>2, AdminFrame, VoterFrame
      DEF Next, vars, RequestStep, CreatePoll, DeleteUser, Move, DeleteApartment, Tick
  <2>3. QED
    BY <2>1, <2>2 DEF SeenRows
<1>3. QED
  BY <1>1, <1>2, TypeCorrect, PTL DEF Spec

-----------------------------------------------------------------------------
(* The ways a poll can change when nobody overwrites what he has not read. *)
Created(p) == /\ poll[p].status = "NONE" /\ poll'[p].status \in PollStatus
              /\ poll'[p].startDate < poll'[p].endDate /\ apartment
Edited(p) == /\ poll[p].status = "PENDING" /\ poll'[p].status \in PollStatus
             /\ poll[p].startDate < poll[p].endDate => poll'[p].startDate < poll'[p].endDate
Deleted(p) == poll[p].status = "PENDING" /\ poll'[p].status = "DELETED"
Closed(p) == /\ poll[p].status = "IN_PROGRESS" /\ poll[p].endDate < now
             /\ poll'[p] = [poll[p] EXCEPT !.status = "CLOSED"]
Dropped(p) == apartment /\ ~apartment' /\ Exists(p) /\ poll'[p].status = "DELETED"

(* A write that is not a race found the row as it was read. *)
LEMMA OverwriteEffect ==
    ASSUME TypeOK, NEW q \in Polls, NEW seen, NEW row, Overwrite(q, seen, row),
           NEW p \in Polls, p \notin raced'
    PROVE  /\ p \notin raced
           /\ p # q => poll'[p] = poll[p]
           /\ p = q => poll'[p] = row /\ poll[p] = seen
BY DEF TypeOK, Overwrite

(* An edit of the row it was validated against keeps the dates in order. *)
LEMMA EditEffect ==
    ASSUME NEW row \in Row, NEW new \in EditedRows(row, row)
    PROVE  new.status \in PollStatus /\ (row.startDate < row.endDate => new.startDate < new.endDate)
BY DEF EditedRows, Row, Dates

(* Every way a step can change a poll that is not raced. *)
LEMMA PollChanges ==
    ASSUME TypeOK, SeenRows, Next, NEW p \in Polls, p \notin raced'
    PROVE  /\ p \notin raced
           /\ \/ poll'[p] = poll[p] \/ Created(p) \/ Edited(p) \/ Deleted(p)
              \/ Closed(p) \/ Dropped(p)
<1>1. ASSUME NEW q \in Polls, CreatePoll(q) PROVE p \notin raced /\ (poll'[p] = poll[p] \/ Created(p))
  <2>1. CASE p = q
    BY <1>1, <2>1 DEF CreatePoll, TypeOK, Created
  <2>2. CASE p # q
    BY <1>1, <2>2 DEF CreatePoll, TypeOK
  <2>3. QED
    BY <2>1, <2>2
<1>2. ASSUME NEW a \in Admins, UpdatePoll(a)
      PROVE  p \notin raced /\ (poll'[p] = poll[p] \/ Edited(p))
  <2>1. admin[a].poll \in Polls /\ admin[a].seen.status = "PENDING"
    BY <1>2, AdminFields DEF UpdatePoll, SeenRows, AdminSaw
  <2>2. CASE UNCHANGED <<poll, votes, raced>>
    BY <2>2
  <2>3. ASSUME NEW new \in EditedRows(poll[admin[a].poll], admin[a].seen),
               Overwrite(admin[a].poll, admin[a].seen, new)
        PROVE  p \notin raced /\ (poll'[p] = poll[p] \/ Edited(p))
    <3>1. poll[admin[a].poll] \in Row
      BY <2>1 DEF TypeOK
    <3>2. QED
      BY <2>1, <2>3, <3>1, OverwriteEffect, EditEffect DEF Edited
  <2>4. QED
    BY <1>2, <2>2, <2>3 DEF UpdatePoll
<1>3. ASSUME NEW a \in Admins, DeletePoll(a)
      PROVE  p \notin raced /\ (poll'[p] = poll[p] \/ Deleted(p))
  <2>1. admin[a].poll \in Polls /\ admin[a].seen.status = "PENDING"
    BY <1>3, AdminFields DEF DeletePoll, SeenRows, AdminSaw
  <2>2. CASE UNCHANGED <<poll, votes, raced>>
    BY <2>2
  <2>3. CASE Overwrite(admin[a].poll, admin[a].seen, NoPoll("DELETED"))
    BY <2>1, <2>3, OverwriteEffect DEF Deleted, NoPoll
  <2>4. QED
    BY <1>3, <2>2, <2>3 DEF DeletePoll
<1>4. ASSUME NEW s \in Runs, run[s].pc = "starting", NEW f \in run[s].todo, StartPoll(s, f)
      PROVE  p \notin raced /\ (poll'[p] = poll[p] \/ Edited(p))
  <2>1. f.poll \in Polls /\ f.seen.status = "PENDING"
    BY <1>4, RunFields DEF SeenRows, RunSaw, ToStart
  <2>2. CASE UNCHANGED <<poll, raced>>
    BY <2>2
  <2>3. CASE Overwrite(f.poll, f.seen, [poll[f.poll] EXCEPT !.status = "IN_PROGRESS"])
    <3>1. poll[f.poll] \in Row
      BY <2>1 DEF TypeOK
    <3>2. QED
      BY <2>1, <2>3, <3>1, OverwriteEffect DEF Edited, PollStatus, Row
  <2>4. QED
    BY <1>4, <2>2, <2>3 DEF StartPoll
<1>5. ASSUME NEW s \in Runs, run[s].pc = "closing", NEW f \in run[s].todo, ClosePoll(s, f)
      PROVE  p \notin raced /\ (poll'[p] = poll[p] \/ Closed(p))
  <2>1. f.poll \in Polls /\ f.seen.status = "IN_PROGRESS" /\ f.seen.endDate < now
    BY <1>5, RunFields DEF SeenRows, RunSaw, ToClose, OverWhenSeen
  <2>2. CASE UNCHANGED <<poll, raced, autoClosed>>
    BY <2>2
  <2>3. CASE Overwrite(f.poll, f.seen, [poll[f.poll] EXCEPT !.status = "CLOSED"])
    BY <2>1, <2>3, OverwriteEffect DEF Closed
  <2>4. QED
    BY <1>5, <2>2, <2>3 DEF ClosePoll
<1>6. ASSUME DeleteApartment PROVE p \notin raced /\ (poll'[p] = poll[p] \/ Dropped(p))
  BY <1>6 DEF DeleteApartment, Dropped, NoPoll
<1>7. ASSUME \/ \E r \in Requests : VoterStep(r)
             \/ \E a \in Admins, pc \in {"update", "delete"} : FindPollById(a, pc)
             \/ \E v \in Voters : DeleteUser(v) \/ Move(v)
             \/ \E s \in Runs : \/ FindPendingToStart(s) \/ FindInProgressToClose(s)
                                \/ CreateResultNotice(s) \/ FinishRun(s) \/ AbortRun(s)
             \/ Tick
      PROVE  p \notin raced /\ poll'[p] = poll[p]
  BY <1>7, VoterFrame DEF RequestStep, FindPollById, DeleteUser, Move, FindPendingToStart,
     FindInProgressToClose, CreateResultNotice, FinishRun, AbortRun, Tick
<1>8. QED
  BY <1>1, <1>2, <1>3, <1>4, <1>5, <1>6, <1>7 DEF Next, AdminStep, SchedulerStep

(* Polls only advance, and a poll that has started stays as it is until it is closed:
   every edit, deletion, start and closing that finds the poll as it was read is legal. *)
THEOREM PollsSettle == Spec => StartedIsSettled
<1>1. TypeOK /\ SeenRows /\ [Next]_vars =>
        [\A p \in Polls : p \notin raced' /\ apartment' => Moves(p)]_vars
  <2> SUFFICES ASSUME TypeOK, SeenRows, Next, NEW p \in Polls, p \notin raced', apartment'
               PROVE  Moves(p)
    OBVIOUS
  <2>1. poll[p] \in Row
    BY DEF TypeOK
  <2>2. poll'[p] = poll[p] \/ Created(p) \/ Edited(p) \/ Deleted(p) \/ Closed(p)
    BY PollChanges DEF Dropped
  <2>3. Rank(poll[p].status) <= Rank(poll'[p].status)
    BY <2>1, <2>2 DEF Created, Edited, Deleted, Closed, Rank, Row, PollStatus
  <2>4. poll[p].status \in {"IN_PROGRESS", "CLOSED"} =>
          \E s \in {"IN_PROGRESS", "CLOSED"} : poll'[p] = [poll[p] EXCEPT !.status = s]
    BY <2>1, <2>2 DEF Created, Edited, Deleted, Closed, Row
  <2>5. QED
    BY <2>3, <2>4 DEF Moves
<1>2. QED
  BY <1>1, TypeCorrect, RowsReadAreRight, PTL DEF Spec, StartedIsSettled

(* Dates stay in order although an edit of one date is checked against the other one as
   it was read. *)
THEOREM DatesStayInOrder == Spec => []DatesInOrder
<1>1. Init => DatesInOrder
  BY DEF Init, DatesInOrder, Exists, NoPoll, PollStatus
<1>2. TypeOK /\ SeenRows /\ DatesInOrder /\ [Next]_vars => DatesInOrder'
  <2>1. ASSUME TypeOK, SeenRows, DatesInOrder, Next, NEW p \in Polls, p \notin raced', Exists(p)'
        PROVE  (poll[p].startDate < poll[p].endDate)'
    <3>1. poll[p] \in Row
      BY <2>1 DEF TypeOK
    <3>2. poll'[p].status \in PollStatus
      BY <2>1 DEF Exists
    <3>3. p \notin raced
      BY <2>1, PollChanges
    <3>4. poll[p].status \in PollStatus => poll[p].startDate < poll[p].endDate
      BY <2>1, <3>3 DEF DatesInOrder, Exists
    <3>5. poll'[p] = poll[p] \/ Created(p) \/ Edited(p) \/ Closed(p)
      BY <2>1, <3>2, PollChanges DEF Deleted, Dropped, PollStatus
    <3>6. QED
      BY <3>1, <3>2, <3>4, <3>5 DEF Created, Edited, Closed, Row, PollStatus
  <2>2. QED
    BY <2>1 DEF DatesInOrder, Exists, vars
<1>3. QED
  BY <1>1, <1>2, TypeCorrect, RowsReadAreRight, PTL DEF Spec

-----------------------------------------------------------------------------
(* How the table of votes changes. *)
Inserts(x, r) ==
    /\ request[r].pc = "castInsert" /\ Insertable(request[r])
    /\ x = [voter |-> request[r].voter, option |-> request[r].option, createdAt |-> now]
    /\ votes' = votes \cup {x}
    /\ request' = [request EXCEPT ![r] = Idle]
    /\ RequestStep

(* A step removes votes or inserts one, and never both. *)
LEMMA VoteChanges ==
    ASSUME Next
    PROVE  votes' \subseteq votes \/ \E x, r : r \in Requests /\ Inserts(x, r)
<1>1. ASSUME NEW r \in Requests, VoterStep(r)
      PROVE  votes' \subseteq votes \/ \E x : Inserts(x, r)
  <2>1. CASE InsertVote(r)
    BY <2>1 DEF InsertVote, Inserts
  <2>2. CASE UNCHANGED votes
    BY <2>2
  <2>3. CASE DeleteVote(r)
    BY <2>3 DEF DeleteVote
  <2>4. QED
    BY <1>1, <2>1, <2>2, <2>3 DEF VoterStep, CastVote, FindUserResidentBuilding, GetUserVote, CancelVote, FindVoteToCancel
<1>2. ASSUME NEW a \in Admins, AdminStep(a) PROVE votes' \subseteq votes
  BY <1>2 DEF AdminStep, FindPollById, UpdatePoll, DeletePoll
<1>3. ASSUME NEW s \in Runs, SchedulerStep(s) \/ AbortRun(s) PROVE votes' = votes
  BY <1>3, RunFrame DEF RunStep
<1>4. ASSUME \/ \E p \in Polls : CreatePoll(p)
             \/ \E v \in Voters : DeleteUser(v) \/ Move(v)
             \/ DeleteApartment
             \/ Tick
      PROVE  votes' \subseteq votes
  BY <1>4 DEF CreatePoll, DeleteUser, Move, DeleteApartment, Tick
<1>5. QED
  BY <1>1, <1>2, <1>3, <1>4 DEF Next

(* A vote that stays keeps its option and its user. *)
LEMMA ReferencesStay ==
    ASSUME TypeOK, BallotBox, Next, NEW x \in votes, x \in votes'
    PROVE  x.voter \in members' /\ OptionExists(x.option)'
<1>1. x.voter \in members /\ OptionExists(x.option) /\ x.option.poll \in Polls
  BY DEF BallotBox, TypeOK, Vote, Option
<1>2. ASSUME UNCHANGED <<poll, members>> PROVE x.voter \in members' /\ OptionExists(x.option)'
  BY <1>1, <1>2 DEF OptionExists, Exists
<1>3. ASSUME NEW q \in Polls, UNCHANGED members, NEW seen, NEW row, Overwrite(q, seen, row),
             x.option.poll = q => row.status \in PollStatus /\ row.edition = poll[q].edition
      PROVE  x.voter \in members' /\ OptionExists(x.option)'
  <2>1. \A p \in Polls \ {q} : poll'[p] = poll[p]
    BY <1>3 DEF Overwrite, TypeOK
  <2>2. poll'[q] = row
    BY <1>3 DEF Overwrite, TypeOK
  <2>3. CASE x.option.poll = q
    BY <1>1, <1>3, <2>2, <2>3 DEF OptionExists, Exists
  <2>4. CASE x.option.poll # q
    BY <1>1, <1>3, <2>1, <2>4 DEF OptionExists, Exists
  <2>5. QED
    BY <2>3, <2>4
<1>4. ASSUME NEW a \in Admins, UpdatePoll(a) PROVE x.voter \in members' /\ OptionExists(x.option)'
  <2>1. admin[a].poll \in Polls
    BY <1>4, AdminFields DEF UpdatePoll
  <2>2. ASSUME NEW new \in EditedRows(poll[admin[a].poll], admin[a].seen),
               Overwrite(admin[a].poll, admin[a].seen, new),
               votes' = IF new.edition = poll[admin[a].poll].edition THEN votes
                        ELSE votes \ VotesOn(admin[a].poll)
        PROVE  x.voter \in members' /\ OptionExists(x.option)'
    <3>1. new.status \in PollStatus
      BY <2>1, EditedType DEF TypeOK
    <3>2. x.option.poll = admin[a].poll => new.edition = poll[admin[a].poll].edition
      BY <2>2 DEF VotesOn
    <3>3. UNCHANGED members
      BY <1>4 DEF UpdatePoll
    <3>4. QED
      BY <1>3, <2>1, <2>2, <3>1, <3>2, <3>3
  <2>3. CASE UNCHANGED <<poll, votes, raced>>
    BY <1>2, <1>4, <2>3 DEF UpdatePoll
  <2>4. QED
    BY <1>4, <2>2, <2>3 DEF UpdatePoll
<1>5. ASSUME NEW a \in Admins, DeletePoll(a) PROVE x.voter \in members' /\ OptionExists(x.option)'
  <2>1. admin[a].poll \in Polls /\ UNCHANGED members
    BY <1>5, AdminFields DEF DeletePoll
  <2>2. CASE /\ Overwrite(admin[a].poll, admin[a].seen, NoPoll("DELETED"))
             /\ votes' = votes \ VotesOn(admin[a].poll)
    <3>1. x.option.poll # admin[a].poll
      BY <2>2 DEF VotesOn
    <3>2. QED
      BY <1>3, <2>1, <2>2, <3>1
  <2>3. CASE UNCHANGED <<poll, votes, raced>>
    BY <1>2, <1>5, <2>3 DEF DeletePoll
  <2>4. QED
    BY <1>5, <2>2, <2>3 DEF DeletePoll
<1>6. ASSUME NEW s \in Runs, SchedulerStep(s) \/ AbortRun(s)
      PROVE  x.voter \in members' /\ OptionExists(x.option)'
  <2>1. UNCHANGED members
    BY <1>6, RunFrame DEF RunStep
  <2>2. ASSUME NEW t \in PollStatus, NEW q \in Polls, NEW seen,
               Overwrite(q, seen, [poll[q] EXCEPT !.status = t])
        PROVE  x.voter \in members' /\ OptionExists(x.option)'
    <3>1. poll[q] \in Row
      BY DEF TypeOK
    <3>2. [poll[q] EXCEPT !.status = t].status = t /\ [poll[q] EXCEPT !.status = t].edition = poll[q].edition
      BY <3>1 DEF Row
    <3>3. QED
      BY <1>3, <2>1, <2>2, <3>2
  <2>3. CASE run[s].pc = "starting" /\ \E f \in run[s].todo : StartPoll(s, f)
    BY <1>2, <2>1, <2>2, <2>3, RunFields DEF StartPoll, ToStart, PollStatus
  <2>4. CASE run[s].pc = "closing" /\ \E f \in run[s].todo : ClosePoll(s, f)
    BY <1>2, <2>1, <2>2, <2>4, RunFields DEF ClosePoll, ToClose, PollStatus
  <2>5. CASE UNCHANGED poll
    BY <1>2, <2>1, <2>5
  <2>6. QED
    BY <1>6, <2>3, <2>4, <2>5 DEF SchedulerStep, FindPendingToStart, FindInProgressToClose,
       CreateResultNotice, FinishRun, AbortRun
<1>7. ASSUME NEW p \in Polls, CreatePoll(p) PROVE x.voter \in members' /\ OptionExists(x.option)'
  <2>1. x.option.poll # p
    BY <1>1, <1>7 DEF CreatePoll, OptionExists, Exists, PollStatus
  <2>2. poll'[x.option.poll] = poll[x.option.poll] /\ UNCHANGED members
    BY <1>1, <1>7, <2>1 DEF CreatePoll, TypeOK
  <2>3. QED
    BY <1>1, <2>2 DEF OptionExists, Exists
<1>8. ASSUME NEW v \in Voters, DeleteUser(v) PROVE x.voter \in members' /\ OptionExists(x.option)'
  BY <1>1, <1>8 DEF DeleteUser, OptionExists, Exists
<1>9. CASE DeleteApartment
  BY <1>9 DEF DeleteApartment
<1>10. CASE \/ Tick \/ \E v \in Voters : Move(v)
            \/ \E r \in Requests : VoterStep(r)
            \/ \E a \in Admins, pc \in {"update", "delete"} : FindPollById(a, pc)
  BY <1>10, <1>2, VoterFrame DEF Tick, Move, RequestStep, FindPollById
<1>11. QED
  BY <1>4, <1>5, <1>6, <1>7, <1>8, <1>9, <1>10 DEF Next, AdminStep

(* One vote per voter and poll, however many requests race, and no vote without its
   option and user, whatever is edited or deleted meanwhile. *)
THEOREM OneVoteEach == Spec => []BallotBox
<1>1. Init => BallotBox
  BY DEF Init, BallotBox
<1>2. TypeOK /\ BallotBox /\ [Next]_vars => BallotBox'
  <2>1. ASSUME TypeOK, BallotBox, Next, votes' \subseteq votes PROVE BallotBox'
    <3>1. \A x, y \in votes' : x.voter = y.voter /\ x.option.poll = y.option.poll => x = y
      BY <2>1 DEF BallotBox
    <3>2. \A x \in votes' : x.voter \in members' /\ OptionExists(x.option)'
      BY <2>1, ReferencesStay
    <3>3. QED
      BY <3>1, <3>2 DEF BallotBox
  <2>2. ASSUME TypeOK, BallotBox, Next, NEW x, NEW r \in Requests, Inserts(x, r) PROVE BallotBox'
    <3>1. \A y \in votes : ~(y.voter = x.voter /\ y.option.poll = x.option.poll)
      BY <2>2 DEF Inserts, Insertable, UserVote, VotesOn
    <3>2. \A y, z \in votes' : y.voter = z.voter /\ y.option.poll = z.option.poll => y = z
      BY <2>2, <3>1 DEF BallotBox, Inserts
    <3>3. x.voter \in members' /\ OptionExists(x.option)'
      BY <2>2 DEF Inserts, Insertable, RequestStep, OptionExists, Exists
    <3>4. \A y \in votes' : y.voter \in members' /\ OptionExists(y.option)'
      BY <2>2, <3>3, ReferencesStay DEF Inserts
    <3>5. QED
      BY <3>2, <3>4 DEF BallotBox
  <2>3. BallotBox /\ UNCHANGED vars => BallotBox'
    BY DEF BallotBox, OptionExists, Exists, vars
  <2>4. QED
    BY <2>1, <2>2, <2>3, VoteChanges
<1>3. QED
  BY <1>1, <1>2, TypeCorrect, PTL DEF Spec

-----------------------------------------------------------------------------
(* Votes are asked for in polls that have started, of the building the request has read:
   that stays true while the request goes on, and of the vote it leaves. *)
Points == {"castHome", "castFind", "castInsert"}
Begun(p) == p \notin raced => poll[p].status \notin {"NONE", "PENDING"}
AskedOf(q) == Visible(q.option.poll) => poll[q.option.poll].permission = q.permission
AskedWhileOpen ==
    /\ \A r \in Requests : request[r].pc \in Points => Begun(request[r].option.poll)
    /\ \A r \in Requests : request[r].pc = "castHome" => AskedOf(request[r])
    /\ \A x \in votes : Begun(x.option.poll)

(* A poll that has started has started, and goes on being for the same building. *)
LEMMA BegunStays ==
    ASSUME TypeOK, SeenRows, Next, NEW p \in Polls, Begun(p)
    PROVE  /\ Begun(p)'
           /\ Visible(p)' => Visible(p) /\ poll'[p].permission = poll[p].permission
<1> SUFFICES ASSUME p \notin raced'
             PROVE  /\ poll'[p].status \notin {"NONE", "PENDING"}
                    /\ Exists(p)' => Exists(p) /\ poll'[p].permission = poll[p].permission
  BY PollChanges DEF Begun, Visible
<1>1. poll[p] \in Row
  BY DEF TypeOK
<1>2. p \notin raced /\ poll[p].status \notin {"NONE", "PENDING"}
  BY PollChanges DEF Begun
<1>3. poll'[p] = poll[p] \/ Closed(p) \/ poll'[p].status = "DELETED"
  BY PollChanges, <1>2 DEF Created, Edited, Deleted, Dropped
<1>4. Closed(p) => /\ poll'[p].status = "CLOSED" /\ poll'[p].permission = poll[p].permission
                   /\ Exists(p)
  BY <1>1 DEF Closed, Row, Exists, PollStatus
<1>5. QED
  BY <1>2, <1>3, <1>4 DEF Exists, PollStatus

(* A request to vote is under way since its castVote and keeps its voter, its option and,
   until the building is compared, the permission it has read. *)
LEMMA RequestChanges ==
    ASSUME TypeOK, Next, NEW r \in Requests, request'[r].pc \in Points
    PROVE  \/ /\ request[r].pc \in Points
              /\ request'[r].voter = request[r].voter /\ request'[r].option = request[r].option
              /\ request'[r].pc = "castHome" => request'[r] = request[r]
           \/ \E v \in Voters : \E o :
                /\ o.poll \in Polls /\ CastVote(r, v, o)
                /\ request'[r].voter = v /\ request'[r].option = o
                /\ request'[r].pc = "castHome" => request'[r].permission = poll[o.poll].permission
<1> USE DEF Points
<1>1. ASSUME NEW q \in Requests, VoterStep(q), q # r PROVE request'[r] = request[r]
  BY <1>1 DEF VoterStep, CastVote, FindUserResidentBuilding, GetUserVote, InsertVote, CancelVote,
     FindVoteToCancel, DeleteVote, TypeOK
<1>2. CASE VoterStep(r)
  <2>1. ASSUME NEW v \in Voters, NEW o, CastVote(r, v, o)
        PROVE  /\ request'[r].voter = v /\ request'[r].option = o
               /\ request'[r].pc = "castHome" => request'[r].permission = poll[o.poll].permission
    <3>1. \/ request'[r] = [pc |-> "castFind", voter |-> v, option |-> o]
          \/ request'[r] = [pc |-> "castHome", voter |-> v, option |-> o,
                            permission |-> poll[o.poll].permission]
      BY <2>1 DEF CastVote, TypeOK
    <3>2. QED
      BY <3>1
  <2>2. ~\E v \in Voters : \E o : CancelVote(r, v, o)
    BY DEF CancelVote, TypeOK
  <2>3. ~(InsertVote(r) \/ DeleteVote(r))
    BY DEF InsertVote, DeleteVote, TypeOK, Idle
  <2>4. ~FindVoteToCancel(r)
    <3>1. ASSUME FindVoteToCancel(r) PROVE request'[r].pc \in {"idle", "cancelDelete"}
      BY <3>1, RequestFields DEF FindVoteToCancel, TypeOK, Idle
    <3>2. QED
      BY <3>1
  <2>5. CASE GetUserVote(r)
    <3>1. request'[r] = [request[r] EXCEPT !.pc = "castInsert"]
      BY <2>5 DEF GetUserVote, TypeOK, Idle
    <3>2. request[r] \in [pc : {"castFind", "castInsert", "cancelFind", "cancelDelete"},
                          voter : Voters, option : Option]
      BY <2>5, RequestFields DEF GetUserVote
    <3>3. QED
      BY <2>5, <3>1, <3>2 DEF GetUserVote
  <2>6. CASE FindUserResidentBuilding(r)
    <3>1. request'[r] = Entitled(request[r])
      BY <2>6 DEF FindUserResidentBuilding, TypeOK, Idle
    <3>2. QED
      BY <2>6, <3>1 DEF FindUserResidentBuilding, Entitled
  <2>7. ASSUME NEW v \in Voters, NEW p \in Polls, NEW c \in Choices,
               CastVote(r, v, [poll |-> p, edition |-> poll[p].edition, choice |-> c])
        PROVE  \E w \in Voters : \E o :
                 /\ o.poll \in Polls /\ CastVote(r, w, o)
                 /\ request'[r].voter = w /\ request'[r].option = o
                 /\ request'[r].pc = "castHome" => request'[r].permission = poll[o.poll].permission
    <3>1. [poll |-> p, edition |-> poll[p].edition, choice |-> c].poll \in Polls
      OBVIOUS
    <3>2. QED
      BY <2>1, <2>7, <3>1
  <2>8. QED
    BY <1>2, <2>2, <2>3, <2>4, <2>5, <2>6, <2>7 DEF VoterStep
<1>3. CASE UNCHANGED request
  BY <1>3
<1>4. QED
  BY <1>1, <1>2, <1>3, AdminFrame, RunFrame
  DEF Next, RunStep, CreatePoll, DeleteUser, Move, DeleteApartment, Tick

(* A request to vote is of a poll that had started when it began, knows the building that
   poll is for, and so has every vote been asked for. *)
THEOREM VotesAskedWhileOpen == Spec => []AskedWhileOpen
<1>1. Init => AskedWhileOpen
  BY DEF Init, AskedWhileOpen, Idle, Points
<1>2. TypeOK /\ SeenRows /\ AskedWhileOpen /\ [Next]_vars => AskedWhileOpen'
  <2>1. ASSUME TypeOK, SeenRows, AskedWhileOpen, Next PROVE AskedWhileOpen'
    <3>1. ASSUME NEW r \in Requests, request'[r].pc \in Points
          PROVE  /\ Begun(request[r].option.poll)'
                 /\ request'[r].pc = "castHome" => AskedOf(request[r])'
      <4>1. CASE /\ request[r].pc \in Points
                 /\ request'[r].voter = request[r].voter /\ request'[r].option = request[r].option
                 /\ request'[r].pc = "castHome" => request'[r] = request[r]
        <5>1. PICK p \in Polls : p = request[r].option.poll
          BY <2>1, <4>1, RequestFields DEF Points
        <5>2. Begun(p) /\ (request[r].pc = "castHome" => AskedOf(request[r]))
          BY <2>1, <4>1, <5>1 DEF AskedWhileOpen
        <5>3. /\ Begun(p)'
              /\ Visible(p)' => Visible(p) /\ poll'[p].permission = poll[p].permission
          BY <2>1, <5>2, BegunStays
        <5>4. Begun(request[r].option.poll)'
          BY <4>1, <5>1, <5>3 DEF Begun
        <5>5. ASSUME request'[r].pc = "castHome", Visible(request[r].option.poll)'
              PROVE  (poll[request[r].option.poll].permission = request[r].permission)'
          <6>1. request'[r] = request[r] /\ request[r].pc = "castHome"
            BY <4>1, <5>5
          <6>2. Visible(p)'
            BY <5>1, <5>5, <6>1 DEF Visible, Exists
          <6>3. poll[p].permission = request[r].permission
            BY <5>1, <5>2, <5>3, <6>1, <6>2 DEF AskedOf
          <6>4. QED
            BY <5>1, <5>3, <6>1, <6>2, <6>3
        <5>6. QED
          BY <5>4, <5>5 DEF AskedOf
      <4>2. ASSUME NEW v \in Voters, NEW o, o.poll \in Polls, CastVote(r, v, o),
                   request'[r].voter = v, request'[r].option = o,
                   request'[r].pc = "castHome" => request'[r].permission = poll[o.poll].permission
            PROVE  /\ Begun(request[r].option.poll)'
                   /\ request'[r].pc = "castHome" => AskedOf(request[r])'
        <5>1. UNCHANGED <<poll, raced>> /\ poll[o.poll].status = "IN_PROGRESS"
          BY <4>2 DEF CastVote, RequestStep
        <5>2. QED
          BY <4>2, <5>1 DEF Begun, AskedOf
      <4>3. QED
        BY <2>1, <3>1, <4>1, <4>2, RequestChanges
    <3>2. ASSUME NEW x \in votes' PROVE Begun(x.option.poll)'
      <4>1. CASE x \in votes
        BY <2>1, <4>1, BegunStays DEF AskedWhileOpen, TypeOK, Vote, Option
      <4>2. ASSUME NEW r \in Requests, Inserts(x, r) PROVE Begun(x.option.poll)'
        <5>1. Begun(x.option.poll) /\ x.option.poll \in Polls
          BY <2>1, <4>2, RequestFields DEF Inserts, AskedWhileOpen, Points
        <5>2. QED
          BY <2>1, <5>1, BegunStays
      <4>3. QED
        <5>1. CASE votes' \subseteq votes
          BY <3>2, <4>1, <5>1
        <5>2. ASSUME NEW y, NEW r \in Requests, Inserts(y, r) PROVE Begun(x.option.poll)'
          BY <3>2, <4>1, <4>2, <5>2 DEF Inserts
        <5>3. QED
          BY <2>1, <5>1, <5>2, VoteChanges
    <3>3. QED
      BY <3>1, <3>2 DEF AskedWhileOpen, Points
  <2>2. AskedWhileOpen /\ UNCHANGED vars => AskedWhileOpen'
    BY DEF AskedWhileOpen, AskedOf, Begun, Visible, Exists, vars
  <2>3. QED
    BY <2>1, <2>2
<1>3. QED
  BY <1>1, <1>2, TypeCorrect, RowsReadAreRight, PTL DEF Spec

(* A vote is lost only to its own voter, to the deletion of the voter or the apartment,
   or to an edit that overwrote a poll it had not read. *)
THEOREM VotesKept == Spec => VotesAreKept
<1>1. TypeOK /\ SeenRows /\ AskedWhileOpen /\ [Next]_vars =>
        [\A x \in votes \ votes' :
           \/ x.option.poll \in raced'
           \/ x.voter \notin members' \/ ~apartment'
           \/ Withdraws(x)]_vars
  <2> SUFFICES ASSUME TypeOK, SeenRows, AskedWhileOpen, Next,
                      NEW x \in votes, x \notin votes', x.option.poll \notin raced',
                      x.voter \in members', apartment'
               PROVE  Withdraws(x)
    OBVIOUS
  <2>1. x.option.poll \in Polls
    BY DEF TypeOK, Vote, Option
  <2>2. poll[x.option.poll].status # "PENDING"
    BY <2>1, PollChanges DEF AskedWhileOpen, Begun
  <2>3. ASSUME NEW a \in Admins, AdminStep(a) PROVE FALSE
    <3>1. admin[a].pc \in {"update", "delete"}
      BY <2>3 DEF AdminStep, FindPollById, UpdatePoll, DeletePoll
    <3>2. PICK new : /\ Overwrite(admin[a].poll, admin[a].seen, new)
                     /\ votes' = votes \ VotesOn(admin[a].poll)
      BY <2>3 DEF AdminStep, FindPollById, UpdatePoll, DeletePoll
    <3>3. x.option.poll = admin[a].poll
      BY <3>2 DEF VotesOn
    <3>4. poll[x.option.poll] = admin[a].seen
      BY <2>1, <3>2, <3>3, OverwriteEffect
    <3>5. QED
      BY <2>2, <3>1, <3>4 DEF SeenRows, AdminSaw
  <2>4. ASSUME NEW r \in Requests, VoterStep(r) PROVE Withdraws(x)
    <3>1. DeleteVote(r)
      BY <2>4 DEF VoterStep, CastVote, FindUserResidentBuilding, GetUserVote, InsertVote, CancelVote, FindVoteToCancel
    <3>2. request'[r] = Idle
      BY <3>1 DEF DeleteVote, TypeOK
    <3>3. QED
      BY <3>1, <3>2 DEF DeleteVote, UserVote, Withdraws
  <2>5. ASSUME NEW s \in Runs, SchedulerStep(s) \/ AbortRun(s) PROVE FALSE
    BY <2>5, RunFrame DEF RunStep
  <2>6. ASSUME \/ \E p \in Polls : CreatePoll(p)
               \/ \E v \in Voters : DeleteUser(v) \/ Move(v)
               \/ DeleteApartment
               \/ Tick
        PROVE  FALSE
    BY <2>6 DEF CreatePoll, DeleteUser, Move, DeleteApartment, Tick
  <2>7. QED
    BY <2>3, <2>4, <2>5, <2>6 DEF Next
<1>2. QED
  BY <1>1, TypeCorrect, RowsReadAreRight, VotesAskedWhileOpen, PTL DEF Spec, VotesAreKept

-----------------------------------------------------------------------------
(* Runs on their way from closing p to announcing its result. *)
Announces(s, p) == run[s].pc = "announcing" /\ run[s].closed.poll = p

(* A run gets to announce a poll only by closing it. *)
LEMMA AnnouncesNext ==
    ASSUME TypeOK, NEW s \in Runs, SchedulerStep(s) \/ AbortRun(s),
           NEW t \in Runs, NEW p
    PROVE  Announces(t, p)' =>
             \/ t # s /\ Announces(t, p)
             \/ t = s /\ \E f \in run[s].todo : f.poll = p /\ ClosePoll(s, f) /\ Exists(p)
<1>1. t # s => run'[t] = run[t]
  BY RunChanges
<1>2. ASSUME Announces(s, p)' PROVE \E f \in run[s].todo : f.poll = p /\ ClosePoll(s, f) /\ Exists(p)
  <2>1. ~(FindPendingToStart(s) \/ FindInProgressToClose(s) \/ FinishRun(s) \/ AbortRun(s)
          \/ CreateResultNotice(s))
    BY <1>2 DEF FindPendingToStart, FindInProgressToClose, FinishRun, AbortRun, CreateResultNotice,
       TypeOK, Idle, Announces
  <2>2. ASSUME NEW f, StartPoll(s, f) PROVE FALSE
    <3>1. run'[s].pc \in {"starting", "idle"}
      BY <2>2 DEF StartPoll, TypeOK, Idle
    <3>2. QED
      BY <1>2, <3>1 DEF Announces
  <2>3. PICK f \in run[s].todo : ClosePoll(s, f)
    BY <2>1, <2>2 DEF SchedulerStep
  <2>4. f.poll = p /\ Exists(p)
    BY <1>2, <2>3 DEF ClosePoll, TypeOK, Idle, Announces
  <2>5. QED
    BY <2>3, <2>4
<1>3. QED
  BY <1>1, <1>2 DEF Announces

(* Without failures every poll the scheduler closes is announced, or is about to be. *)
THEOREM ClosingAnnounces == Spec => []ClosedIsAnnounced
<1> DEFINE Done(p) == \/ notices[p] # <<>>
                      \/ \E s \in Runs : Announces(s, p)
                      \/ ~apartment
                      \/ faults > 0
<1>1. ClosedIsAnnounced <=> \A p \in autoClosed : Done(p)
  BY DEF ClosedIsAnnounced, Announces
<1>2. Init => ClosedIsAnnounced
  BY DEF Init, ClosedIsAnnounced
<1>3. TypeOK /\ ClosedIsAnnounced /\ [Next]_vars => ClosedIsAnnounced'
  <2> SUFFICES ASSUME TypeOK, ClosedIsAnnounced, [Next]_vars, NEW p \in autoClosed'
               PROVE  Done(p)'
    BY DEF ClosedIsAnnounced, Announces
  <2>1. CASE UNCHANGED <<notices, run, apartment, faults, autoClosed>>
    BY <2>1, <1>1 DEF Announces
  <2>2. ASSUME NEW s \in Runs, SchedulerStep(s), UNCHANGED <<notices, autoClosed>>,
               run[s].pc # "announcing"
        PROVE  Done(p)'
    <3>1. Done(p) /\ UNCHANGED <<apartment, faults>>
      BY <2>2, <1>1, RunFrame DEF SchedulerStep, FindPendingToStart, StartPoll,
         FindInProgressToClose, ClosePoll, CreateResultNotice, FinishRun, RunStep
    <3>2. \A t \in Runs : Announces(t, p) => Announces(t, p)'
      BY <2>2, RunChanges DEF Announces
    <3>3. QED
      BY <2>2, <3>1, <3>2
  <2>3. ASSUME NEW s \in Runs, NEW f \in run[s].todo, ClosePoll(s, f), Exists(f.poll) PROVE Done(p)'
    <3>1. UNCHANGED <<apartment, faults, notices>> /\ autoClosed' = autoClosed \cup {f.poll}
      BY <2>3 DEF ClosePoll, RunStep
    <3>2. Announces(s, f.poll)'
      BY <2>3 DEF ClosePoll, TypeOK, Announces
    <3>3. CASE p = f.poll
      BY <3>2, <3>3
    <3>4. CASE p # f.poll
      <4>1. Done(p)
        BY <1>1, <3>1, <3>4
      <4>2. SchedulerStep(s) /\ run[s].pc # "announcing"
        BY <2>3 DEF SchedulerStep, ClosePoll
      <4>3. \A t \in Runs : Announces(t, p) => Announces(t, p)'
        BY <4>2, RunChanges DEF Announces
      <4>4. QED
        BY <3>1, <4>1, <4>3
    <3>5. QED
      BY <3>3, <3>4
  <2>4. ASSUME NEW s \in Runs, CreateResultNotice(s) PROVE Done(p)'
    <3>1. Done(p) /\ UNCHANGED <<apartment, faults>>
      BY <2>4, <1>1 DEF CreateResultNotice, RunStep
    <3>2. CASE ~apartment
      BY <3>1, <3>2
    <3>3. CASE apartment
      <4>1. run[s].closed \in ToClose /\ run[s].closed.poll \in Polls /\ p \in Polls
        BY <2>4, RunFields DEF CreateResultNotice, ToClose, TypeOK
      <4>2. notices[p] # <<>> => notices'[p] # <<>>
        BY <2>4, <3>3, <4>1 DEF CreateResultNotice, TypeOK
      <4>3. run[s].closed.poll = p => notices'[p] # <<>>
        BY <2>4, <3>3, <4>1 DEF CreateResultNotice, TypeOK
      <4>4. \A t \in Runs \ {s} : Announces(t, p) => Announces(t, p)'
        BY <2>4 DEF CreateResultNotice, TypeOK, Announces
      <4>5. QED
        BY <3>1, <4>2, <4>3, <4>4 DEF Announces
    <3>4. QED
      BY <3>2, <3>3
  <2>5. ASSUME NEW s \in Runs, AbortRun(s) PROVE Done(p)'
    BY <2>5 DEF AbortRun, TypeOK
  <2>6. CASE DeleteApartment
    BY <2>6 DEF DeleteApartment
  <2>7. ASSUME NEW s \in Runs, SchedulerStep(s) PROVE Done(p)'
    <3>1. CASE CreateResultNotice(s)
      BY <2>4, <3>1
    <3>2. CASE \E f \in run[s].todo : ClosePoll(s, f) /\ Exists(f.poll)
      BY <2>3, <3>2
    <3>3. CASE \/ FindPendingToStart(s) \/ FindInProgressToClose(s) \/ FinishRun(s)
               \/ \E f \in run[s].todo : StartPoll(s, f)
               \/ \E f \in run[s].todo : ClosePoll(s, f) /\ ~Exists(f.poll)
      <4>1. UNCHANGED <<notices, autoClosed>> /\ run[s].pc # "announcing"
        <5>1. ASSUME FindPendingToStart(s) \/ FindInProgressToClose(s) \/ FinishRun(s)
              PROVE  UNCHANGED <<notices, autoClosed>> /\ run[s].pc # "announcing"
          BY <5>1 DEF FindPendingToStart, FindInProgressToClose, FinishRun, Idle
        <5>2. ASSUME NEW f, StartPoll(s, f)
              PROVE  UNCHANGED <<notices, autoClosed>> /\ run[s].pc # "announcing"
          BY <5>2 DEF StartPoll
        <5>3. ASSUME NEW f, ClosePoll(s, f), ~Exists(f.poll)
              PROVE  UNCHANGED <<notices, autoClosed>> /\ run[s].pc # "announcing"
          BY <5>3 DEF ClosePoll
        <5>4. QED
          BY <3>3, <5>1, <5>2, <5>3
      <4>2. QED
        BY <2>2, <2>7, <4>1
    <3>4. QED
      BY <2>7, <3>1, <3>2, <3>3 DEF SchedulerStep
  <2>8. CASE \/ \E a \in Admins : AdminStep(a)
             \/ \E r \in Requests : VoterStep(r)
             \/ \E q \in Polls : CreatePoll(q)
             \/ \E v \in Voters : DeleteUser(v) \/ Move(v)
             \/ Tick
    BY <2>1, <2>8, AdminFrame, VoterFrame DEF RequestStep, CreatePoll, DeleteUser, Move, Tick
  <2>9. QED
    BY <2>1, <2>5, <2>6, <2>7, <2>8 DEF Next, vars
<1>4. QED
  BY <1>2, <1>3, TypeCorrect, PTL DEF Spec

-----------------------------------------------------------------------------
(* A result is announced by the one run that found the poll in progress and closed it. *)
OneAnnouncer(p) ==
    /\ Len(notices[p]) <= 1
    /\ notices[p] # <<>> => poll[p].status = "CLOSED" /\ \A s \in Runs : ~Announces(s, p)
    /\ \A s, t \in Runs : Announces(s, p) /\ Announces(t, p) => s = t
    /\ \A s \in Runs : Announces(s, p) => /\ poll[p].status \in {"CLOSED", "DELETED"}
                                          /\ apartment => poll[p].status = "CLOSED"
AnnouncedOnce == \A p \in Polls \ raced : OneAnnouncer(p)

(* A closed or deleted poll stays that way. *)
LEMMA ClosedStays ==
    ASSUME TypeOK, SeenRows, Next, NEW p \in Polls, p \notin raced', apartment' = apartment
    PROVE  /\ p \notin raced
           /\ poll[p].status \in {"CLOSED", "DELETED"} => poll'[p].status = poll[p].status
BY PollChanges DEF Created, Edited, Deleted, Closed, Dropped

(* A step that neither closes p nor announces its result. *)
LEMMA OneAnnouncerStays ==
    ASSUME TypeOK, SeenRows, Next, NEW p \in Polls, p \notin raced', UNCHANGED apartment,
           OneAnnouncer(p), notices'[p] = notices[p],
           \A t \in Runs : Announces(t, p)' => Announces(t, p)
    PROVE  OneAnnouncer(p)'
BY ClosedStays DEF OneAnnouncer

(* Steps of runs never put a second announcement of a poll under way. *)
LEMMA RunsAnnounceOnce ==
    ASSUME TypeOK, SeenRows, AnnouncedOnce, NEW s \in Runs, SchedulerStep(s) \/ AbortRun(s),
           NEW p \in Polls, p \notin raced'
    PROVE  OneAnnouncer(p)'
<1>1. Next /\ UNCHANGED apartment
  BY RunFrame DEF Next, RunStep
<1>2. p \notin raced /\ OneAnnouncer(p)
  BY <1>1, ClosedStays DEF AnnouncedOnce
<1>3. ASSUME NEW f \in run[s].todo, f.poll = p, ClosePoll(s, f), Exists(p) PROVE OneAnnouncer(p)'
  <2>1. Overwrite(p, f.seen, [poll[p] EXCEPT !.status = "CLOSED"]) /\ notices' = notices
    BY <1>3 DEF ClosePoll
  <2>2. poll[p] = f.seen /\ poll'[p] = [poll[p] EXCEPT !.status = "CLOSED"]
    BY <2>1, OverwriteEffect
  <2>3. poll[p].status = "IN_PROGRESS"
    BY <1>3, <2>2 DEF ClosePoll, SeenRows, RunSaw, OverWhenSeen
  <2>4. notices[p] = <<>> /\ \A t \in Runs : ~Announces(t, p)
    BY <1>2, <2>3 DEF OneAnnouncer
  <2>5. \A t \in Runs : Announces(t, p)' => t = s
    BY <2>4, AnnouncesNext
  <2>6. poll'[p].status = "CLOSED"
    BY <2>2 DEF TypeOK, Row
  <2>7. QED
    BY <2>1, <2>4, <2>5, <2>6 DEF OneAnnouncer
<1>4. ASSUME ~\E f \in run[s].todo : f.poll = p /\ ClosePoll(s, f) /\ Exists(p)
      PROVE  \A t \in Runs : Announces(t, p)' => t # s /\ Announces(t, p)
  BY <1>4, AnnouncesNext
<1>5. ASSUME CreateResultNotice(s), apartment, run[s].closed.poll = p PROVE OneAnnouncer(p)'
  <2>1. Announces(s, p)
    BY <1>5 DEF CreateResultNotice, Announces
  <2>2. notices[p] = <<>> /\ poll[p].status = "CLOSED" /\ \A t \in Runs : Announces(t, p) => t = s
    BY <1>2, <1>5, <2>1 DEF OneAnnouncer
  <2>3. notices'[p] = <<run[s].closed.tally>>
    BY <1>5, <2>2 DEF CreateResultNotice, TypeOK
  <2>4. UNCHANGED poll /\ ~\E f : ClosePoll(s, f)
    BY <1>5 DEF CreateResultNotice, ClosePoll
  <2>5. \A t \in Runs : ~Announces(t, p)'
    BY <1>4, <2>2, <2>4
  <2>6. QED
    BY <2>2, <2>3, <2>4, <2>5 DEF OneAnnouncer
<1>6. ASSUME ~\E f \in run[s].todo : f.poll = p /\ ClosePoll(s, f) /\ Exists(p),
             ~(CreateResultNotice(s) /\ apartment /\ run[s].closed.poll = p)
      PROVE  OneAnnouncer(p)'
  <2>1. notices'[p] = notices[p]
    <3>1. CASE CreateResultNotice(s)
      BY <1>6, <3>1, RunFields DEF CreateResultNotice, TypeOK
    <3>2. CASE UNCHANGED notices
      BY <3>2
    <3>3. QED
      BY <3>1, <3>2 DEF SchedulerStep, FindPendingToStart, StartPoll, FindInProgressToClose,
         ClosePoll, FinishRun, AbortRun
  <2>2. QED
    BY <1>1, <1>2, <1>4, <1>6, <2>1, OneAnnouncerStays
<1>7. QED
  BY <1>3, <1>5, <1>6

(* runSchedule: of all announcements of a poll, made or under way, there is at most one,
   and the poll is closed once there is. *)
THEOREM AnnouncersAreUnique == Spec => []AnnouncedOnce
<1>1. Init => AnnouncedOnce
  BY DEF Init, AnnouncedOnce, OneAnnouncer, Announces, Idle
<1>2. TypeOK /\ SeenRows /\ AnnouncedOnce /\ [Next]_vars => AnnouncedOnce'
  <2>1. ASSUME TypeOK, SeenRows, AnnouncedOnce, Next, NEW p \in Polls, p \notin raced'
        PROVE  OneAnnouncer(p)'
    <3>1. p \notin raced /\ OneAnnouncer(p)
      BY <2>1, PollChanges DEF AnnouncedOnce
    <3>2. CASE DeleteApartment
      <4>1. /\ notices'[p] = <<>> /\ ~apartment'
            /\ \A t \in Runs : Announces(t, p)' <=> Announces(t, p)
            /\ poll[p].status \in {"CLOSED", "DELETED"} => poll'[p].status = "DELETED"
        BY <2>1, <3>2 DEF DeleteApartment, Announces, Exists, PollStatus, NoPoll
      <4>2. QED
        BY <3>1, <4>1 DEF OneAnnouncer
    <3>3. CASE UNCHANGED <<apartment, run, notices>>
      <4>1. \A t \in Runs : Announces(t, p)' => Announces(t, p)
        BY <3>3 DEF Announces
      <4>2. QED
        BY <2>1, <3>1, <3>3, <4>1, OneAnnouncerStays
    <3>4. CASE \E s \in Runs : SchedulerStep(s) \/ AbortRun(s)
      BY <2>1, <3>4, RunsAnnounceOnce
    <3>5. QED
      BY <2>1, <3>2, <3>3, <3>4, AdminFrame, VoterFrame
      DEF Next, RequestStep, CreatePoll, DeleteUser, Move, Tick
  <2>2. AnnouncedOnce /\ UNCHANGED vars => AnnouncedOnce'
    BY DEF AnnouncedOnce, OneAnnouncer, Announces, vars
  <2>3. QED
    BY <2>1, <2>2 DEF AnnouncedOnce
<1>3. QED
  BY <1>1, <1>2, TypeCorrect, RowsReadAreRight, PTL DEF Spec

(* The result of a poll is announced at most once, and only for a closed poll, however
   many runs overlap, unless one of them overwrote the poll of another. *)
THEOREM ResultsAnnouncedOnce == Spec => []OneResultNotice
<1>1. AnnouncedOnce => OneResultNotice
  BY DEF AnnouncedOnce, OneAnnouncer, OneResultNotice
<1>2. QED
  BY <1>1, AnnouncersAreUnique, PTL

-----------------------------------------------------------------------------
(* Votes cast by the end date, and the tallies that account for all of them. *)
InTime(p, c) == {x \in VotesOn(p) : x.option.choice = c /\ x.createdAt <= poll[p].endDate}
Covered(p, tally) ==
    /\ poll[p].status # "NONE"
    /\ Exists(p) => /\ poll[p].status \in {"IN_PROGRESS", "CLOSED"} /\ poll[p].endDate < now
                    /\ \A c \in Choices : Cardinality(InTime(p, c)) <= tally[c]
CoveredEntry(f) == f.poll \notin raced => Covered(f.poll, f.tally)
TalliesCover ==
    /\ \A p \in Polls \ raced : \A i \in DOMAIN notices[p] : Covered(p, notices[p][i])
    /\ \A s \in Runs : /\ run[s].pc \in {"closing", "announcing"} =>
                            \A f \in run[s].todo : CoveredEntry(f)
                       /\ run[s].pc = "announcing" => CoveredEntry(run[s].closed)

(* The votes cast in time are finitely many. *)
LEMMA InTimeFinite == ASSUME TypeOK, NEW p, NEW c PROVE IsFiniteSet(InTime(p, c))
BY FS_Subset DEF InTime, VotesOn, TypeOK

(* Once the end date has passed, the votes in time can only become fewer. *)
LEMMA CoveredStays ==
    ASSUME TypeOK, SeenRows, Next, NEW p \in Polls, p \notin raced', NEW tally \in Tally,
           Covered(p, tally)
    PROVE  Covered(p, tally)'
<1>1. poll[p] \in Row
  BY DEF TypeOK
<1>2. poll[p].status \notin {"NONE", "PENDING"}
  BY DEF Covered, Exists, PollStatus
<1>3. poll'[p] = poll[p] \/ Closed(p) \/ Dropped(p)
  BY <1>2, PollChanges DEF Created, Edited, Deleted
<1>4. CASE Dropped(p)
  BY <1>4 DEF Dropped, Covered, Exists, PollStatus
<1>5. CASE ~Exists(p) /\ ~Dropped(p)
  BY <1>2, <1>3, <1>5 DEF Closed, Covered, Exists, PollStatus
<1>6. CASE Exists(p) /\ ~Dropped(p)
  <2>1. /\ poll'[p].endDate = poll[p].endDate /\ poll[p].endDate < now /\ poll[p].endDate \in Nat
        /\ poll'[p].status \in {"IN_PROGRESS", "CLOSED"}
    BY <1>1, <1>3, <1>6 DEF Closed, Covered, Row, Dates
  <2>2. now' \in Nat /\ now \in Nat /\ now <= now'
    BY AdminFrame, VoterFrame, RunFrame DEF Next, RequestStep, RunStep,
       CreatePoll, DeleteUser, Move, DeleteApartment, Tick, TypeOK, Time
  <2>3. ASSUME NEW c \in Choices PROVE Cardinality(InTime(p, c)') <= tally[c]
    <3>1. InTime(p, c)' \subseteq InTime(p, c)
      <4>1. CASE votes' \subseteq votes
        BY <2>1, <4>1 DEF InTime, VotesOn
      <4>2. ASSUME NEW x, NEW r \in Requests, Inserts(x, r) PROVE InTime(p, c)' \subseteq InTime(p, c)
        <5>1. x \notin InTime(p, c)'
          BY <2>1, <2>2, <4>2 DEF Inserts, InTime
        <5>2. QED
          BY <2>1, <4>2, <5>1 DEF Inserts, InTime, VotesOn
      <4>3. QED
        BY <4>1, <4>2, VoteChanges
    <3>2. /\ Cardinality(InTime(p, c)') <= Cardinality(InTime(p, c))
          /\ Cardinality(InTime(p, c)') \in Nat /\ Cardinality(InTime(p, c)) \in Nat
      BY <3>1, InTimeFinite, FS_Subset, FS_CardinalityType
    <3>3. Cardinality(InTime(p, c)) <= tally[c] /\ tally[c] \in Nat
      BY <1>6 DEF Covered, Tally
    <3>4. QED
      BY <3>2, <3>3
  <2>4. poll'[p].endDate < now'
    BY <2>1, <2>2
  <2>5. QED
    BY <2>1, <2>3, <2>4 DEF Covered
<1>7. QED
  BY <1>4, <1>5, <1>6

(* The tally that findInProgressToClose reads counts every vote in time. *)
LEMMA FoundCovered == ASSUME TypeOK, NEW p \in Polls, Ended(p) PROVE Covered(p, TallyOf(p))
<1>1. ASSUME NEW c \in Choices PROVE Cardinality(InTime(p, c)) <= TallyOf(p)[c]
  <2>1. InTime(p, c) \subseteq {x \in VotesOn(p) : x.option.choice = c}
    BY DEF InTime
  <2>2. IsFiniteSet({x \in VotesOn(p) : x.option.choice = c})
    BY FS_Subset DEF VotesOn, TypeOK
  <2>3. Cardinality(InTime(p, c)) <= Cardinality({x \in VotesOn(p) : x.option.choice = c})
    BY <2>1, <2>2, FS_Subset
  <2>4. QED
    BY <2>3 DEF TallyOf
<1>2. QED
  BY <1>1 DEF Covered, Ended

(* A tally in the hands of a run goes on covering the votes in time. *)
LEMMA CoveredEntryStays ==
    ASSUME TypeOK, SeenRows, Next, NEW f \in ToClose, CoveredEntry(f)
    PROVE  CoveredEntry(f)'
<1>1. f.poll \in Polls /\ f.tally \in Tally
  BY DEF ToClose
<1>2. f.poll \notin raced' => f.poll \notin raced
  BY <1>1, PollChanges
<1>3. QED
  BY <1>1, <1>2, CoveredStays DEF CoveredEntry, Covered, InTime, VotesOn, Exists

(* The work of runs stays covered: entries that are kept, and those a run has found. *)
LEMMA RunsStayCovered ==
    ASSUME TypeOK, SeenRows, TalliesCover, Next, NEW t \in Runs
    PROVE  /\ run'[t].pc \in {"closing", "announcing"} =>
                \A f \in run'[t].todo : CoveredEntry(f)'
           /\ run'[t].pc = "announcing" => CoveredEntry(run[t].closed)'
<1>1. /\ run[t].pc \in {"closing", "announcing"} => \A f \in run[t].todo : CoveredEntry(f)'
      /\ run[t].pc = "announcing" => CoveredEntry(run[t].closed) /\ run[t].closed \in ToClose
  BY CoveredEntryStays, RunFields DEF TalliesCover
<1>2. run[t].pc = "announcing" => \A f : f = run[t].closed => CoveredEntry(f)'
  BY <1>1, CoveredEntryStays
<1>3. CASE run'[t] = run[t]
  BY <1>1, <1>2, <1>3 DEF CoveredEntry, Covered, Exists, InTime, VotesOn
<1>4. CASE SchedulerStep(t) \/ AbortRun(t)
  <2>1. CASE run'[t] = Idle
    BY <2>1 DEF Idle
  <2>2. CASE run'[t] = ReadToStart \/ \E e : run'[t] = [pc |-> "starting", todo |-> e]
    <3>1. run'[t].pc = "starting"
      <4>1. ReadToStart.pc = "starting"
        BY DEF ReadToStart
      <4>2. \A e : [pc |-> "starting", todo |-> e].pc = "starting"
        OBVIOUS
      <4>3. QED
        BY <2>2, <4>1, <4>2
    <3>2. QED
      BY <3>1
  <2>3. CASE run'[t] = ReadToClose
    <3>1. ASSUME NEW p \in Polls, Ended(p), NEW f, f = [poll |-> p, seen |-> poll[p], tally |-> TallyOf(p)]
          PROVE  CoveredEntry(f)'
      <4>1. f \in ToClose
        BY <3>1, TallyType DEF TypeOK, ToClose
      <4>2. CoveredEntry(f)
        BY <3>1, FoundCovered DEF CoveredEntry
      <4>3. QED
        BY <4>1, <4>2, CoveredEntryStays
    <3>2. QED
      BY <2>3, <3>1 DEF ReadToClose
  <2>4. ASSUME NEW f \in run[t].todo, run[t].pc = "closing",
               run'[t] = [pc |-> "announcing", todo |-> run[t].todo \ {f}, closed |-> f]
        PROVE  /\ \A g \in run'[t].todo : CoveredEntry(g)'
               /\ CoveredEntry(run[t].closed)'
    <3>1. \A g \in run'[t].todo : CoveredEntry(g)'
      BY <1>1, <2>4
    <3>2. CoveredEntry(f)' /\ run'[t].closed = f
      BY <1>1, <2>4
    <3>3. QED
      BY <3>1, <3>2 DEF CoveredEntry, Covered, Exists, InTime, VotesOn
  <2>5. CASE run[t].pc = "announcing" /\ run'[t] = [pc |-> "closing", todo |-> run[t].todo]
    BY <1>1, <2>5
  <2>6. CASE \E f \in run[t].todo :
               /\ run[t].pc = "closing"
               /\ run'[t] = [pc |-> "announcing", todo |-> run[t].todo \ {f}, closed |-> f]
    BY <2>4, <2>6
  <2>7. QED
    BY <1>4, RunChanges, <2>1, <2>2, <2>3, <2>5, <2>6
<1>5. CASE \E s \in Runs \ {t} : SchedulerStep(s) \/ AbortRun(s)
  BY <1>3, <1>5, RunChanges
<1>6. QED
  BY <1>3, <1>4, <1>5, AdminFrame, VoterFrame
  DEF Next, RequestStep, CreatePoll, DeleteUser, Move, DeleteApartment, Tick

(* Tallies that runs have read or announced account for every vote in time. *)
THEOREM TalliesAlwaysCover == Spec => []TalliesCover
<1>1. Init => TalliesCover
  BY DEF Init, TalliesCover, Idle
<1>2. TypeOK /\ SeenRows /\ TalliesCover /\ [Next]_vars => TalliesCover'
  <2>1. ASSUME TypeOK, SeenRows, TalliesCover, Next PROVE TalliesCover'
    <3>1. ASSUME NEW p \in Polls, p \notin raced', NEW i \in DOMAIN notices'[p]
          PROVE  Covered(p, notices[p][i])'
      <4>1. p \notin raced
        BY <2>1, <3>1, PollChanges
      <4>2. ASSUME i \in DOMAIN notices[p], notices'[p][i] = notices[p][i]
            PROVE  Covered(p, notices[p][i])'
        <5>1. notices[p][i] \in Tally
          BY <2>1, <4>2 DEF TypeOK
        <5>2. Covered(p, notices[p][i])
          BY <2>1, <4>1, <4>2 DEF TalliesCover
        <5>3. QED
          BY <2>1, <3>1, <4>2, <5>1, <5>2, CoveredStays DEF Covered, Exists, InTime, VotesOn
      <4>3. ASSUME NEW s \in Runs, CreateResultNotice(s), apartment
            PROVE  Covered(p, notices[p][i])'
        <5>1. run[s].closed \in ToClose /\ run[s].closed.poll \in Polls /\ run[s].closed.tally \in Tally
          BY <2>1, <4>3, RunFields DEF CreateResultNotice, ToClose
        <5>2. CASE run[s].closed.poll = p
          <6>1. notices'[p] = Append(notices[p], run[s].closed.tally) /\ notices[p] \in Seq(Tally)
            BY <2>1, <4>3, <5>2 DEF CreateResultNotice, TypeOK
          <6>2. \/ i \in DOMAIN notices[p] /\ notices'[p][i] = notices[p][i]
                \/ notices'[p][i] = run[s].closed.tally
            BY <3>1, <5>1, <6>1
          <6>3. Covered(p, run[s].closed.tally)
            BY <2>1, <4>1, <4>3, <5>2 DEF TalliesCover, CoveredEntry, CreateResultNotice
          <6>4. CASE notices'[p][i] = run[s].closed.tally
            BY <2>1, <3>1, <5>1, <6>3, <6>4, CoveredStays DEF Covered, Exists, InTime, VotesOn
          <6>5. QED
            BY <4>2, <6>2, <6>4
        <5>3. CASE run[s].closed.poll # p
          BY <2>1, <3>1, <4>2, <4>3, <5>3 DEF CreateResultNotice, TypeOK
        <5>4. QED
          BY <5>2, <5>3
      <4>4. CASE UNCHANGED notices
        BY <3>1, <4>2, <4>4
      <4>5. CASE DeleteApartment
        BY <3>1, <4>5 DEF DeleteApartment
      <4>6. QED
        BY <2>1, <4>3, <4>4, <4>5, AdminFrame, VoterFrame
        DEF Next, SchedulerStep, RequestStep, CreatePoll, DeleteUser, Move, Tick, FindPendingToStart,
            StartPoll, FindInProgressToClose, ClosePoll, CreateResultNotice, FinishRun, AbortRun
    <3>2. \A t \in Runs :
            /\ run'[t].pc \in {"closing", "announcing"} => \A f \in run'[t].todo : CoveredEntry(f)'
            /\ run'[t].pc = "announcing" => CoveredEntry(run[t].closed)'
      BY <2>1, RunsStayCovered
    <3>3. QED
      BY <3>1, <3>2 DEF TalliesCover
  <2>2. TalliesCover /\ UNCHANGED vars => TalliesCover'
    BY DEF TalliesCover, CoveredEntry, Covered, Exists, InTime, VotesOn, vars
  <2>3. QED
    BY <2>1, <2>2
<1>3. QED
  BY <1>1, <1>2, TypeCorrect, RowsReadAreRight, PTL DEF Spec

(* An announced result counts every vote cast by the end date and not withdrawn since,
   although its tally is read before the poll is closed and voting goes on meanwhile. *)
THEOREM AnnouncedVotesInTime == Spec => []VotesInTimeCount
<1>1. TypeOK /\ BallotBox /\ TalliesCover => VotesInTimeCount
  <2> SUFFICES ASSUME TypeOK, BallotBox, TalliesCover, NEW p \in Polls \ raced,
                      NEW i \in DOMAIN notices[p], NEW c \in Choices
               PROVE  Cardinality(InTime(p, c)) <= notices[p][i][c]
    BY DEF VotesInTimeCount, InTime
  <2>1. Covered(p, notices[p][i])
    BY DEF TalliesCover
  <2>2. CASE Exists(p)
    BY <2>1, <2>2 DEF Covered
  <2>3. CASE ~Exists(p)
    <3>1. InTime(p, c) = {}
      BY <2>3 DEF InTime, VotesOn, BallotBox, OptionExists
    <3>2. notices[p][i] \in Tally
      BY DEF TypeOK
    <3>3. QED
      BY <3>1, <3>2, FS_EmptySet DEF Tally
  <2>4. QED
    BY <2>2, <2>3
<1>2. QED
  BY <1>1, TypeCorrect, OneVoteEach, TalliesAlwaysCover, PTL

-----------------------------------------------------------------------------
(* Polls follow the rules of PollBallot.  What is seen of a poll there depends on what
   requests and runs still hold, hence three more invariants. *)
(* Polls exist only while their apartment does. *)
Housed == \A p \in Polls : Exists(p) => apartment

(* A vote on its way to a closed poll comes after the end date. *)
TooLate(p) == p \notin raced /\ poll[p].status = "CLOSED" => poll[p].endDate < now
CastsLate ==
    \A r \in Requests : request[r].pc \in Points => TooLate(request[r].option.poll)

(* The tallies of runs count no more votes than there are voters. *)
Plausible(f) == f.tally \in [Choices -> 0 .. Cardinality(Voters)]
TalliesPlausible ==
    \A s \in Runs : /\ run[s].pc \in {"closing", "announcing"} => \A f \in run[s].todo : Plausible(f)
                    /\ run[s].pc = "announcing" => Plausible(run[s].closed)

(* A poll is created in an apartment and goes with it. *)
LEMMA HousedKept == TypeOK /\ Housed /\ [Next]_vars => Housed'
<1> SUFFICES ASSUME TypeOK, Housed, [Next]_vars PROVE Housed'
  OBVIOUS
<1>1. ASSUME UNCHANGED apartment, \A p \in Polls : Exists(p)' => Exists(p) \/ apartment PROVE Housed'
  BY <1>1 DEF Housed
<1>2. CASE UNCHANGED <<poll, apartment>>
  BY <1>1, <1>2 DEF Exists
<1>3. ASSUME NEW p \in Polls, CreatePoll(p) PROVE Housed'
  BY <1>1, <1>3 DEF CreatePoll
<1>4. ASSUME NEW p \in Polls, Exists(p), NEW seen, NEW row, Overwrite(p, seen, row), UNCHANGED apartment
      PROVE  Housed'
  <2>1. \A q \in Polls \ {p} : poll'[q] = poll[q]
    BY <1>4 DEF Overwrite, TypeOK
  <2> QED
    BY <1>1, <1>4, <2>1 DEF Housed, Exists
<1>5. ASSUME NEW a \in Admins, AdminStep(a) PROVE Housed'
  <2>1. UNCHANGED apartment
    BY <1>5, AdminFrame
  <2>2. UNCHANGED poll \/ \E p \in Polls : \E row : Exists(p) /\ Overwrite(p, admin[a].seen, row)
    BY <1>5, AdminFields DEF AdminStep, FindPollById, UpdatePoll, DeletePoll
  <2> QED
    BY <1>2, <1>4, <2>1, <2>2
<1>6. ASSUME NEW s \in Runs, SchedulerStep(s) \/ AbortRun(s) PROVE Housed'
  <2>1. UNCHANGED apartment
    BY <1>6, RunFrame DEF RunStep
  <2>2. ASSUME NEW f \in run[s].todo, StartPoll(s, f) \/ ClosePoll(s, f) PROVE Housed'
    <3>1. f.poll \in Polls
      BY <2>2, RunFields DEF StartPoll, ClosePoll, ToStart, ToClose
    <3> QED
      BY <1>2, <1>4, <2>1, <2>2, <3>1 DEF StartPoll, ClosePoll
  <2> QED
    BY <1>2, <1>6, <2>1, <2>2 DEF SchedulerStep, FindPendingToStart, FindInProgressToClose,
       CreateResultNotice, FinishRun, AbortRun
<1>7. CASE DeleteApartment
  <2>1. \A p \in Polls : ~Exists(p)'
    BY <1>7 DEF DeleteApartment, Exists, NoPoll, PollStatus
  <2> QED
    BY <2>1 DEF Housed
<1>8. CASE \/ \E r \in Requests : VoterStep(r)
           \/ \E v \in Voters : DeleteUser(v) \/ Move(v)
           \/ Tick \/ UNCHANGED vars
  BY <1>2, <1>8, VoterFrame DEF RequestStep, DeleteUser, Move, Tick, vars
<1> QED
  BY <1>3, <1>5, <1>6, <1>7, <1>8 DEF Next

(* The scheduler closes a poll once its end date has passed. *)
LEMMA TooLateStays ==
    ASSUME TypeOK, SeenRows, Next, NEW p \in Polls, Begun(p), TooLate(p)
    PROVE  TooLate(p)'
<1> SUFFICES ASSUME p \notin raced', poll'[p].status = "CLOSED" PROVE poll'[p].endDate < now'
  BY DEF TooLate
<1>1. poll[p] \in Row
  BY DEF TypeOK
<1>2. p \notin raced /\ poll[p].status \notin {"NONE", "PENDING"}
  BY PollChanges DEF Begun
<1>3. poll'[p] = poll[p] \/ Closed(p)
  BY <1>2, PollChanges DEF Created, Edited, Deleted, Dropped
<1>4. poll[p].endDate < now /\ poll'[p].endDate = poll[p].endDate /\ poll[p].endDate \in Nat
  BY <1>1, <1>2, <1>3 DEF TooLate, Closed, Row, Dates
<1>5. now' \in Nat /\ now \in Nat /\ now <= now'
  BY AdminFrame, VoterFrame, RunFrame DEF Next, RequestStep, RunStep,
     CreatePoll, DeleteUser, Move, DeleteApartment, Tick, TypeOK, Time
<1> QED
  BY <1>4, <1>5

(* A vote is cast while the poll runs; whoever closes it then has seen its end date pass. *)
LEMMA CastsLateKept ==
    TypeOK /\ SeenRows /\ AskedWhileOpen /\ CastsLate /\ [Next]_vars => CastsLate'
<1> SUFFICES ASSUME TypeOK, SeenRows, AskedWhileOpen, CastsLate, [Next]_vars PROVE CastsLate'
  OBVIOUS
<1>1. CASE UNCHANGED vars
  BY <1>1 DEF vars, CastsLate, TooLate
<1>2. ASSUME Next, NEW r \in Requests, request'[r].pc \in Points
      PROVE  TooLate(request[r].option.poll)'
  <2>1. CASE /\ request[r].pc \in Points
             /\ request'[r].voter = request[r].voter /\ request'[r].option = request[r].option
    <3>1. PICK p \in Polls : p = request[r].option.poll
      BY <2>1, RequestFields DEF Points
    <3>2. Begun(p) /\ TooLate(p)
      BY <2>1, <3>1 DEF AskedWhileOpen, CastsLate
    <3>3. TooLate(p)'
      BY <1>2, <3>2, TooLateStays
    <3> QED
      BY <2>1, <3>1, <3>3 DEF TooLate
  <2>2. ASSUME NEW v \in Voters, NEW o, o.poll \in Polls, CastVote(r, v, o), request'[r].option = o
        PROVE  TooLate(request[r].option.poll)'
    BY <2>2 DEF CastVote, RequestStep, TooLate
  <2> QED
    BY <1>2, <2>1, <2>2, RequestChanges
<1> QED
  BY <1>1, <1>2 DEF CastsLate

(* One vote per voter: a tally counts no more votes than there are voters. *)
LEMMA FoundPlausible ==
    ASSUME TypeOK, BallotBox, NEW p
    PROVE  TallyOf(p) \in [Choices -> 0 .. Cardinality(Voters)]
<1>1. ASSUME NEW c \in Choices
      PROVE  Cardinality({x \in VotesOn(p) : x.option.choice = c}) \in 0 .. Cardinality(Voters)
  <2>1. PICK S : S = {x \in VotesOn(p) : x.option.choice = c}
    OBVIOUS
  <2>2. S \subseteq votes /\ \A x \in S : x.option.poll = p
    BY <2>1 DEF VotesOn
  <2>3. PICK f : f = [x \in S |-> x.voter]
    OBVIOUS
  <2>4. f \in [S -> Voters]
    BY <2>2, <2>3 DEF TypeOK, Vote
  <2>5. \A x, y \in S : f[x] = f[y] => x = y
    BY <2>2, <2>3 DEF BallotBox
  <2>6. f \in Injection(S, Voters)
    BY <2>4, <2>5 DEF Injection, IsInjective
  <2>7. IsFiniteSet(S) /\ IsFiniteSet(Voters)
    BY <2>2, FS_Subset, ConstantsAssumption DEF TypeOK
  <2>8. Cardinality(S) <= Cardinality(Voters)
    BY <2>6, <2>7, FS_Injection
  <2> QED
    BY <2>1, <2>7, <2>8, FS_CardinalityType
<1> QED
  BY <1>1 DEF TallyOf

(* Runs pass on the tallies they have read. *)
LEMMA PlausibleKept == TypeOK /\ BallotBox /\ TalliesPlausible /\ [Next]_vars => TalliesPlausible'
<1> SUFFICES ASSUME TypeOK, BallotBox, TalliesPlausible, [Next]_vars PROVE TalliesPlausible'
  OBVIOUS
<1>1. CASE UNCHANGED run
  BY <1>1 DEF TalliesPlausible, Plausible
<1>2. ASSUME NEW s \in Runs, SchedulerStep(s) \/ AbortRun(s) PROVE TalliesPlausible'
  <2>1. /\ run'[s].pc \in {"closing", "announcing"} => \A f \in run'[s].todo : Plausible(f)
        /\ run'[s].pc = "announcing" => Plausible(run'[s].closed)
    <3>1. CASE run'[s] = Idle
      BY <3>1 DEF Idle
    <3>2. CASE run'[s] = ReadToStart
      BY <3>2 DEF ReadToStart
    <3>3. CASE \E f \in run[s].todo :
                 run[s].pc = "starting" /\ run'[s] = [pc |-> "starting", todo |-> run[s].todo \ {f}]
      BY <3>3
    <3>4. CASE run'[s] = ReadToClose
      <4>1. ASSUME NEW f \in run'[s].todo PROVE Plausible(f)
        <5>1. PICK p \in Polls : f = [poll |-> p, seen |-> poll[p], tally |-> TallyOf(p)]
          BY <3>4, <4>1 DEF ReadToClose
        <5> QED
          BY <5>1, FoundPlausible DEF Plausible
      <4> QED
        BY <3>4, <4>1 DEF ReadToClose
    <3>5. CASE \E f \in run[s].todo :
                 /\ run[s].pc = "closing"
                 /\ run'[s] = [pc |-> "announcing", todo |-> run[s].todo \ {f}, closed |-> f]
      BY <3>5 DEF TalliesPlausible
    <3>6. CASE run[s].pc = "announcing" /\ run'[s] = [pc |-> "closing", todo |-> run[s].todo]
      BY <3>6 DEF TalliesPlausible
    <3> QED
      BY <1>2, <3>1, <3>2, <3>3, <3>4, <3>5, <3>6, RunChanges
  <2>3. \A t \in Runs \ {s} : run'[t] = run[t]
    BY <1>2, RunChanges
  <2>4. ASSUME NEW t \in Runs
        PROVE  /\ run'[t].pc \in {"closing", "announcing"} => \A f \in run'[t].todo : Plausible(f)
               /\ run'[t].pc = "announcing" => Plausible(run'[t].closed)
    BY <2>1, <2>3 DEF TalliesPlausible
  <2> QED
    BY <2>4 DEF TalliesPlausible, Plausible
<1> QED
  BY <1>1, <1>2, AdminFrame, VoterFrame
  DEF Next, RequestStep, CreatePoll, DeleteUser, Move, DeleteApartment, Tick, vars

(* A poll looks to PollBallot as it did. *)
ViewSame(p) ==
    /\ p \in raced' <=> p \in raced
    /\ p \notin raced => /\ poll'[p] = poll[p] /\ VotesOn(p)' = VotesOn(p)
                         /\ notices'[p] = notices[p]
                         /\ Asking(p, {"castHome"})' = Asking(p, {"castHome"})
                         /\ Asking(p, {"castFind", "castInsert"})' = Asking(p, {"castFind", "castInsert"})

(* All that PollBallot sees of p. *)
View(p) == <<Stages[p], Permissions[p], Queues[p], Desks[p], Boxes[p], Results[p]>>

(* Every fact the proof of a step can need. *)
Facts ==
    /\ TypeOK /\ SeenRows /\ BallotBox /\ AskedWhileOpen /\ AnnouncedOnce
    /\ TalliesCover /\ Housed /\ CastsLate /\ TalliesPlausible

(* What is seen of such a poll is what was. *)
LEMMA ViewKept == ASSUME NEW p \in Polls, ViewSame(p) PROVE View(p)' = View(p)
<1>1. p \notin raced => Ballots(p)' = Ballots(p)
  BY DEF ViewSame, Ballots
<1>2. Stages'[p] = Stages[p] /\ Permissions'[p] = Permissions[p]
  BY DEF ViewSame, Stages, Permissions, Visible, Exists
<1>3. Queues'[p] = Queues[p] /\ Desks'[p] = Desks[p]
  BY DEF ViewSame, Queues, Desks, Visible, Exists
<1>4. Boxes'[p] = Boxes[p] /\ Results'[p] = Results[p]
  BY <1>1 DEF ViewSame, Boxes, Results
<1> QED
  BY <1>2, <1>3, <1>4 DEF View

(* What is seen of all polls is made up of what is seen of each. *)
LEMMA ViewsAreFunctions ==
    /\ Stages = [p \in Polls |-> Stages[p]] /\ Stages' = [p \in Polls |-> Stages'[p]]
    /\ Permissions = [p \in Polls |-> Permissions[p]] /\ Permissions' = [p \in Polls |-> Permissions'[p]]
    /\ Queues = [p \in Polls |-> Queues[p]] /\ Queues' = [p \in Polls |-> Queues'[p]]
    /\ Desks = [p \in Polls |-> Desks[p]] /\ Desks' = [p \in Polls |-> Desks'[p]]
    /\ Boxes = [p \in Polls |-> Boxes[p]] /\ Boxes' = [p \in Polls |-> Boxes'[p]]
    /\ Results = [p \in Polls |-> Results[p]] /\ Results' = [p \in Polls |-> Results'[p]]
<1>1. /\ Stages = [p \in Polls |-> Stages[p]] /\ Stages' = [p \in Polls |-> Stages'[p]]
      /\ Permissions = [p \in Polls |-> Permissions[p]] /\ Permissions' = [p \in Polls |-> Permissions'[p]]
  BY DEF Stages, Permissions
<1>2. /\ Queues = [p \in Polls |-> Queues[p]] /\ Queues' = [p \in Polls |-> Queues'[p]]
      /\ Desks = [p \in Polls |-> Desks[p]] /\ Desks' = [p \in Polls |-> Desks'[p]]
  BY DEF Queues, Desks
<1>3. /\ Boxes = [p \in Polls |-> Boxes[p]] /\ Boxes' = [p \in Polls |-> Boxes'[p]]
      /\ Results = [p \in Polls |-> Results[p]] /\ Results' = [p \in Polls |-> Results'[p]]
  BY DEF Boxes, Results
<1> QED
  BY <1>1, <1>2, <1>3

(* The same of all polls. *)
LEMMA ViewsKept ==
    ASSUME \A p \in Polls : ViewSame(p)
    PROVE  UNCHANGED <<Stages, Permissions, Queues, Desks, Boxes, Results>>
<1>1. \A p \in Polls : /\ Stages'[p] = Stages[p] /\ Permissions'[p] = Permissions[p]
                       /\ Queues'[p] = Queues[p] /\ Desks'[p] = Desks[p]
                       /\ Boxes'[p] = Boxes[p] /\ Results'[p] = Results[p]
  BY ViewKept DEF View
<1>2. UNCHANGED <<Stages, Permissions>>
  BY <1>1, ViewsAreFunctions
<1>3. UNCHANGED <<Queues, Desks>>
  BY <1>1, ViewsAreFunctions
<1>4. UNCHANGED <<Boxes, Results>>
  BY <1>1, ViewsAreFunctions
<1> QED
  BY <1>2, <1>3, <1>4

(* A step that concerns one poll. *)
LEMMA OneViewChanges ==
    ASSUME NEW p \in Polls, \A q \in Polls \ {p} : ViewSame(q)
    PROVE  /\ Stages' = [Stages EXCEPT ![p] = Stages'[p]]
           /\ Permissions' = [Permissions EXCEPT ![p] = Permissions'[p]]
           /\ Queues' = [Queues EXCEPT ![p] = Queues'[p]]
           /\ Desks' = [Desks EXCEPT ![p] = Desks'[p]]
           /\ Boxes' = [Boxes EXCEPT ![p] = Boxes'[p]]
           /\ Results' = [Results EXCEPT ![p] = Results'[p]]
<1>1. \A q \in Polls \ {p} : /\ Stages'[q] = Stages[q] /\ Permissions'[q] = Permissions[q]
                             /\ Queues'[q] = Queues[q] /\ Desks'[q] = Desks[q]
                             /\ Boxes'[q] = Boxes[q] /\ Results'[q] = Results[q]
  BY ViewKept DEF View
<1>2. Stages' = [Stages EXCEPT ![p] = Stages'[p]]
  BY <1>1 DEF Stages
<1>3. Permissions' = [Permissions EXCEPT ![p] = Permissions'[p]]
  BY <1>1 DEF Permissions
<1>4. Queues' = [Queues EXCEPT ![p] = Queues'[p]]
  BY <1>1 DEF Queues
<1>5. Desks' = [Desks EXCEPT ![p] = Desks'[p]]
  BY <1>1 DEF Desks
<1>6. Boxes' = [Boxes EXCEPT ![p] = Boxes'[p]]
  BY <1>1 DEF Boxes
<1>7. Results' = [Results EXCEPT ![p] = Results'[p]]
  BY <1>1 DEF Results
<1> QED
  BY <1>2, <1>3, <1>4, <1>5, <1>6, <1>7

(* What does not change of p does not change. *)
LEMMA OneViewStays ==
    ASSUME NEW p \in Polls, \A q \in Polls \ {p} : ViewSame(q)
    PROVE  /\ Stages'[p] = Stages[p] => UNCHANGED Stages
           /\ Permissions'[p] = Permissions[p] => UNCHANGED Permissions
           /\ Queues'[p] = Queues[p] => UNCHANGED Queues
           /\ Desks'[p] = Desks[p] => UNCHANGED Desks
           /\ Boxes'[p] = Boxes[p] => UNCHANGED Boxes
           /\ Results'[p] = Results[p] => UNCHANGED Results
<1>1. \A q \in Polls \ {p} : /\ Stages'[q] = Stages[q] /\ Permissions'[q] = Permissions[q]
                             /\ Queues'[q] = Queues[q] /\ Desks'[q] = Desks[q]
                             /\ Boxes'[q] = Boxes[q] /\ Results'[q] = Results[q]
  BY ViewKept DEF View
<1>2. /\ Stages'[p] = Stages[p] => UNCHANGED Stages
      /\ Permissions'[p] = Permissions[p] => UNCHANGED Permissions
  BY <1>1, ViewsAreFunctions
<1>3. /\ Queues'[p] = Queues[p] => UNCHANGED Queues
      /\ Desks'[p] = Desks[p] => UNCHANGED Desks
  BY <1>1, ViewsAreFunctions
<1>4. /\ Boxes'[p] = Boxes[p] => UNCHANGED Boxes
      /\ Results'[p] = Results[p] => UNCHANGED Results
  BY <1>1, ViewsAreFunctions
<1> QED
  BY <1>2, <1>3, <1>4

(* A step that leaves the row of p alone. *)
LEMMA OneBoxChanges ==
    ASSUME NEW p \in Polls, \A q \in Polls \ {p} : ViewSame(q),
           p \notin raced, p \notin raced', poll'[p] = poll[p]
    PROVE  /\ UNCHANGED <<Stages, Permissions>>
           /\ Asking(p, {"castHome"})' = Asking(p, {"castHome"}) => UNCHANGED Queues
           /\ Asking(p, {"castFind", "castInsert"})' = Asking(p, {"castFind", "castInsert"})
                => UNCHANGED Desks
           /\ VotesOn(p)' = VotesOn(p) => UNCHANGED Boxes
           /\ notices'[p] = notices[p] => UNCHANGED Results
<1>1. Stages'[p] = Stages[p] /\ Permissions'[p] = Permissions[p]
  BY DEF Stages, Permissions, Visible, Exists
<1>2. /\ Asking(p, {"castHome"})' = Asking(p, {"castHome"}) => Queues'[p] = Queues[p]
      /\ Asking(p, {"castFind", "castInsert"})' = Asking(p, {"castFind", "castInsert"})
           => Desks'[p] = Desks[p]
  BY DEF Queues, Desks, Visible, Exists
<1>3. /\ VotesOn(p)' = VotesOn(p) => Boxes'[p] = Boxes[p]
      /\ notices'[p] = notices[p] => Results'[p] = Results[p]
  BY DEF Boxes, Results, Ballots
<1> QED
  BY <1>1, <1>2, <1>3, OneViewStays

-----------------------------------------------------------------------------
(* Who asks to vote when one request moves. *)
OthersAsking(r, p, points) ==
    {request[q].voter : q \in {q \in Requests \ {r} : request[q].pc \in points /\ request[q].option.poll = p}}
AskingNext(p, points) ==
    {request'[r].voter : r \in {r \in Requests : request'[r].pc \in points /\ request'[r].option.poll = p}}

(* Who asks in the next state, in both ways of writing it. *)
LEMMA AskingThen ==
    /\ \A p : Asking(p, {"castHome"})' = AskingNext(p, {"castHome"})
    /\ \A p : Asking(p, {"castFind", "castInsert"})' = AskingNext(p, {"castFind", "castInsert"})
BY DEF Asking, AskingNext

(* The other requests stay where they are. *)
OnlyMoves(r) == \A q \in Requests \ {r} : request'[q] = request[q]

(* So it is with the writing of one request. *)
LEMMA OneRequestMoves ==
    ASSUME TypeOK, NEW r \in Requests, NEW e, request' = [request EXCEPT ![r] = e]
    PROVE  OnlyMoves(r) /\ request'[r] = e
BY DEF TypeOK, OnlyMoves

(* The voter of the request, if it is at one of these points, and those of the others. *)
LEMMA AskingChanges ==
    ASSUME NEW r \in Requests, OnlyMoves(r), NEW p, NEW points
    PROVE  /\ Asking(p, points) = OthersAsking(r, p, points) \cup
                IF request[r].pc \in points /\ request[r].option.poll = p THEN {request[r].voter} ELSE {}
           /\ AskingNext(p, points) = OthersAsking(r, p, points) \cup
                IF request'[r].pc \in points /\ request'[r].option.poll = p THEN {request'[r].voter} ELSE {}
BY DEF Asking, AskingNext, OthersAsking, OnlyMoves

(* A request that moves within these points or outside them. *)
LEMMA AskingStays ==
    ASSUME NEW r \in Requests, OnlyMoves(r), NEW p, NEW points,
           \/ /\ ~(request[r].pc \in points /\ request[r].option.poll = p)
              /\ ~(request'[r].pc \in points /\ request'[r].option.poll = p)
           \/ /\ request[r].pc \in points /\ request'[r].pc \in points
              /\ request'[r].option = request[r].option /\ request'[r].voter = request[r].voter
    PROVE  AskingNext(p, points) = Asking(p, points)
BY AskingChanges

(* A request that leaves them; its voter may have another one there. *)
LEMMA AskingDrops ==
    ASSUME NEW r \in Requests, OnlyMoves(r), NEW p, NEW points, request'[r].pc \notin points
    PROVE  AskingNext(p, points) \in {Asking(p, points), Asking(p, points) \ {request[r].voter}}
<1>1. PICK A, B, C : A = Asking(p, points) /\ B = AskingNext(p, points) /\ C = OthersAsking(r, p, points)
  OBVIOUS
<1>2. B = C /\ (A = C \/ A = C \cup {request[r].voter})
  BY <1>1, AskingChanges
<1>3. B = A \/ B = A \ {request[r].voter}
  BY <1>2
<1> QED
  BY <1>1, <1>3

(* A request that comes to them. *)
LEMMA AskingJoins ==
    ASSUME NEW r \in Requests, OnlyMoves(r), NEW p, NEW points,
           request[r].pc \notin points, request'[r].pc \in points, request'[r].option.poll = p
    PROVE  AskingNext(p, points) = Asking(p, points) \cup {request'[r].voter}
BY AskingChanges

(* Lines of PollBallot that one voter leaves, or seems not to. *)
LEMMA LineDrops ==
    ASSUME NEW f, NEW g, NEW p \in Polls, NEW v, f = [q \in Polls |-> f[q]],
           g = [f EXCEPT ![p] = g[p]], g[p] \in {f[p], f[p] \ {v}}
    PROVE  g \in Rules!Dropping(f, p, v)
<1>1. CASE g[p] = f[p]
  <2>1. [f EXCEPT ![p] = f[p]] = f
    OBVIOUS
  <2> QED
    BY <1>1, <2>1 DEF Rules!Dropping
<1>2. CASE g[p] = f[p] \ {v}
  BY <1>2 DEF Rules!Dropping
<1> QED
  BY <1>1, <1>2

(* The writing of a poll is a draft, a deletion or a closing, or spoils it. *)
LEMMA RowShows ==
    ASSUME Facts, Next, NEW p \in Polls, UNCHANGED <<apartment, members, home, notices, request>>,
           \A q \in Polls \ {p} : ViewSame(q),
           p \in raced => p \in raced', p \in raced' \ raced => Exists(p),
           VotesOn(p)' \subseteq VotesOn(p),
           p \notin raced' /\ poll[p].status # "PENDING" => VotesOn(p)' = VotesOn(p)
    PROVE  [Rules!Next]_(Rules!vars)
<1> USE DEF Facts
<1>1. CASE p \in raced
  <2>1. \A q \in Polls : ViewSame(q)
    BY <1>1 DEF ViewSame
  <2> QED
    BY <2>1, ViewsKept DEF Rules!vars
<1>2. CASE p \in raced' \ raced
  <2>1. Stages[p] \in {"PENDING", "IN_PROGRESS", "CLOSED"}
    BY <1>2 DEF Stages, Exists, PollStatus
  <2>2. /\ Stages'[p] = "SPOILT" /\ Permissions'[p] = Everyone /\ Queues'[p] = {}
        /\ Desks'[p] = {} /\ Boxes'[p] = {} /\ Results'[p] = <<>>
    BY <1>2 DEF Stages, Permissions, Queues, Desks, Boxes, Results, Visible
  <2>3. Rules!Spoil(p)
    BY <2>1, <2>2, OneViewChanges DEF Rules!Spoil, Rules!Enter, Rules!people
  <2> QED
    BY <2>3 DEF Rules!Next
<1>3. CASE p \notin raced'
  <2>1. /\ p \notin raced
        /\ poll'[p] = poll[p] \/ Created(p) \/ Edited(p) \/ Deleted(p) \/ Closed(p)
    BY <1>3, PollChanges DEF Dropped
  <2>2. poll[p].status \in {"NONE", "PENDING"} => VotesOn(p) = {} /\ VotesOn(p)' = {}
    <3>1. poll[p].status \in {"NONE", "PENDING"} => \A x \in votes : x.option.poll # p
      BY <2>1 DEF AskedWhileOpen, Begun
    <3> QED
      BY <3>1 DEF VotesOn
  <2>3. VotesOn(p)' = VotesOn(p)
    BY <1>3, <2>2
  <2>4. poll[p] \in Row /\ poll'[p] \in Row
    <3>1. TypeOK'
      BY AdminTypes, VoterTypes, RunTypes, OtherTypes DEF Next
    <3> QED
      BY <3>1 DEF TypeOK
  <2>5. /\ Stages[p] = poll[p].status /\ Stages'[p] = poll'[p].status
        /\ Permissions[p] = IF Exists(p) THEN poll[p].permission ELSE Everyone
        /\ Permissions'[p] = IF Exists(p)' THEN poll'[p].permission ELSE Everyone
        /\ Results' = Results
    <3>1. Results'[p] = Results[p]
      BY <1>3, <2>1 DEF Results
    <3> QED
      BY <1>3, <2>1, <3>1, OneViewStays DEF Stages, Permissions, Visible, Exists
  <2>11. UNCHANGED <<Queues, Desks>>
    <3>1. \A points : Asking(p, points)' = Asking(p, points)
      BY DEF Asking
    <3>2. CASE Exists(p)' <=> Exists(p)
      <4>1. Queues'[p] = Queues[p] /\ Desks'[p] = Desks[p]
        BY <1>3, <2>1, <3>1, <3>2 DEF Queues, Desks, Visible
      <4> QED
        BY <4>1, OneViewStays
    <3>3. CASE poll[p].status \in {"NONE", "PENDING"}
      <4>1. \A r \in Requests : request[r].pc \in Points => request[r].option.poll # p
        BY <2>1, <3>3 DEF AskedWhileOpen, Begun
      <4>2. Asking(p, {"castHome"}) = {} /\ Asking(p, {"castFind", "castInsert"}) = {}
        BY <4>1 DEF Asking, Points
      <4>3. Queues'[p] = Queues[p] /\ Desks'[p] = Desks[p]
        BY <1>3, <2>1, <3>1, <4>2 DEF Queues, Desks
      <4> QED
        BY <4>3, OneViewStays
    <3> QED
      BY <2>1, <2>4, <3>2, <3>3 DEF Created, Edited, Deleted, Closed, Exists, PollStatus, Row
  <2>6. ASSUME poll'[p].endDate = poll[p].endDate \/ VotesOn(p) = {} PROVE Boxes' = Boxes
    <3>1. Ballots(p)' = Ballots(p)
      BY <2>3, <2>6 DEF Ballots
    <3>2. Boxes'[p] = Boxes[p]
      BY <1>3, <2>1, <3>1 DEF Boxes
    <3> QED
      BY <3>2, OneViewStays
  <2>7. CASE poll'[p] = poll[p]
    <3>1. \A q \in Polls : ViewSame(q)
      BY <1>3, <2>1, <2>3, <2>7 DEF ViewSame, Asking
    <3> QED
      BY <3>1, ViewsKept DEF Rules!vars
  <2>8. CASE Created(p) \/ Edited(p)
    <3>1. poll[p].status \in {"NONE", "PENDING"} /\ poll'[p].status \in PollStatus
      BY <2>8 DEF Created, Edited
    <3>2. Boxes' = Boxes
      BY <2>2, <2>6, <3>1
    <3>3. apartment
      BY <2>8 DEF Created, Edited, Housed, Exists, PollStatus
    <3>4. PICK s \in {"PENDING", "IN_PROGRESS", "CLOSED"} : s = Stages'[p]
      BY <2>5, <3>1 DEF PollStatus
    <3>5. PICK e \in Buildings \cup {Everyone} : e = Permissions'[p]
      BY <2>4, <2>5 DEF Row
    <3>6. Rules!Enter(p, s, e)
      BY <3>4, <3>5, OneViewChanges DEF Rules!Enter, Rules!people
    <3>7. Rules!Draft(p)
      BY <2>5, <2>11, <3>1, <3>2, <3>3, <3>6 DEF Rules!Draft, Rules!hall, Rules!outcome
    <3> QED
      BY <3>7 DEF Rules!Next
  <2>9. CASE Deleted(p)
    <3>1. Boxes' = Boxes
      BY <2>2, <2>6, <2>9 DEF Deleted
    <3>2. Stages'[p] = "DELETED" /\ Permissions'[p] = Everyone /\ Stages[p] = "PENDING"
      BY <2>5, <2>9 DEF Deleted, Exists, PollStatus
    <3>3. Rules!Scrap(p)
      BY <2>5, <2>11, <3>1, <3>2, OneViewChanges
      DEF Rules!Scrap, Rules!Enter, Rules!people, Rules!hall, Rules!outcome
    <3> QED
      BY <3>3 DEF Rules!Next
  <2>10. CASE Closed(p)
    <3>1. /\ poll[p].status = "IN_PROGRESS" /\ poll'[p].status = "CLOSED"
          /\ poll'[p].endDate = poll[p].endDate /\ poll'[p].permission = poll[p].permission
      BY <2>4, <2>10 DEF Closed, Row
    <3>2. Boxes' = Boxes
      BY <2>6, <3>1
    <3>3. Stages[p] = "IN_PROGRESS" /\ Stages'[p] = "CLOSED" /\ Permissions'[p] = Permissions[p]
      BY <2>5, <3>1 DEF Exists, PollStatus
    <3>4. Rules!Close(p)
      BY <2>5, <2>11, <3>2, <3>3, OneViewChanges
      DEF Rules!Close, Rules!Enter, Rules!people, Rules!hall, Rules!outcome
    <3> QED
      BY <3>4 DEF Rules!Next
  <2> QED
    BY <2>1, <2>7, <2>8, <2>9, <2>10
<1> QED
  BY <1>1, <1>2, <1>3

(* Nothing that PollBallot knows of changes. *)
LEMMA StutterShows ==
    ASSUME UNCHANGED <<apartment, members, home, poll, votes, notices, raced, request>>
    PROVE  [Rules!Next]_(Rules!vars)
<1>1. \A p \in Polls : ViewSame(p)
  BY DEF ViewSame, VotesOn, Asking
<1> QED
  BY <1>1, ViewsKept DEF Rules!vars

(* Whoever writes a poll, having read it or another row, follows the rules. *)
LEMMA OverwriteShows ==
    ASSUME Facts, Next, NEW p \in Polls, Exists(p), NEW seen, NEW row, Overwrite(p, seen, row),
           UNCHANGED <<apartment, members, home, notices, request>>,
           votes' = votes \/ (seen.status = "PENDING" /\ votes' = votes \ VotesOn(p))
    PROVE  [Rules!Next]_(Rules!vars)
<1>1. ASSUME NEW q \in Polls \ {p} PROVE ViewSame(q)
  <2>1. poll'[q] = poll[q] /\ (q \in raced' <=> q \in raced)
    BY DEF Overwrite, Facts, TypeOK
  <2>2. VotesOn(q)' = VotesOn(q) /\ \A points : Asking(q, points)' = Asking(q, points)
    BY DEF VotesOn, Asking
  <2> QED
    BY <2>1, <2>2 DEF ViewSame
<1>2. (p \in raced => p \in raced') /\ VotesOn(p)' \subseteq VotesOn(p)
  BY DEF Overwrite, VotesOn
<1>3. p \notin raced' /\ poll[p].status # "PENDING" => VotesOn(p)' = VotesOn(p)
  <2>1. p \notin raced' => poll[p] = seen
    BY DEF Overwrite
  <2> QED
    BY <2>1 DEF VotesOn
<1> QED
  BY <1>1, <1>2, <1>3, RowShows

(* castVote: a vote that is stored is a ballot that may be cast. *)
LEMMA InsertShows ==
    ASSUME Facts, NEW x, NEW r \in Requests, Inserts(x, r)
    PROVE  [Rules!Next]_(Rules!vars)
<1> USE DEF Facts
<1>1. PICK p \in Polls : p = x.option.poll /\ p = request[r].option.poll
  BY RequestFields DEF Inserts
<1>2. /\ UNCHANGED <<apartment, members, home, poll, notices, raced>> /\ votes' = votes \cup {x}
      /\ OnlyMoves(r) /\ request[r].pc = "castInsert" /\ request'[r].pc = "idle"
  <2>1. OnlyMoves(r) /\ request'[r] = Idle
    BY OneRequestMoves DEF Inserts
  <2> QED
    BY <2>1 DEF Inserts, RequestStep, Idle
<1>3. ASSUME NEW q \in Polls \ {p} PROVE ViewSame(q)
  <2>1. VotesOn(q)' = VotesOn(q)
    BY <1>1, <1>2 DEF VotesOn
  <2>2. /\ Asking(q, {"castHome"})' = Asking(q, {"castHome"})
        /\ Asking(q, {"castFind", "castInsert"})' = Asking(q, {"castFind", "castInsert"})
    BY <1>1, <1>2, AskingStays, AskingThen
  <2> QED
    BY <1>2, <2>1, <2>2 DEF ViewSame
<1>4. CASE p \in raced
  <2>1. \A q \in Polls : ViewSame(q)
    BY <1>2, <1>3, <1>4 DEF ViewSame
  <2> QED
    BY <1>2, <2>1, ViewsKept DEF Rules!vars
<1>5. CASE p \notin raced
  <2>1. /\ x.voter \in members /\ x.voter \in Voters /\ x.option.choice \in Choices
        /\ Exists(p) /\ x.createdAt = now /\ now \in Nat
        /\ \A y \in VotesOn(p) : y.voter # x.voter
    BY <1>1, RequestFields DEF Inserts, Insertable, UserVote, OptionExists, TypeOK, Time, Option
  <2>2. PICK b : b = [voter |-> x.voter, choice |-> x.option.choice, late |-> x.createdAt > poll[p].endDate]
    OBVIOUS
  <2>3. b \in Rules!Ballot
    BY <2>1, <2>2 DEF Rules!Ballot
  <2>4. poll[p].status \in {"IN_PROGRESS", "CLOSED"} /\ x.voter = request[r].voter
    <3>1. Begun(p) /\ x.voter = request[r].voter
      BY <1>1 DEF Inserts, AskedWhileOpen, Points
    <3> QED
      BY <1>5, <2>1, <3>1 DEF Begun, Exists, PollStatus
  <2>5. ~b.late => poll[p].status # "CLOSED"
    <3>1. TooLate(p)
      BY <1>1 DEF Inserts, CastsLate, Points
    <3>2. poll[p].status = "CLOSED" => x.createdAt > poll[p].endDate
      BY <1>5, <2>1, <3>1 DEF TooLate, TypeOK, Row, Dates
    <3> QED
      BY <2>2, <3>2
  <2>6. Ballots(p)' = Ballots(p) \cup {b}
    <3>1. VotesOn(p)' = VotesOn(p) \cup {x}
      BY <1>1, <1>2 DEF VotesOn
    <3> QED
      BY <1>2, <2>2, <3>1 DEF Ballots
  <2>7. /\ Stages[p] = poll[p].status /\ Boxes[p] = Ballots(p)
        /\ Desks[p] = Asking(p, {"castFind", "castInsert"})
        /\ Desks'[p] = Asking(p, {"castFind", "castInsert"})'
    BY <1>2, <1>5, <2>1 DEF Stages, Desks, Boxes, Visible, Exists
  <2>8. Boxes'[p] = Boxes[p] \cup {b}
    BY <1>2, <1>5, <2>6, <2>7 DEF Boxes
  <2>9. \A a \in Boxes[p] : a.voter # b.voter
    BY <2>1, <2>2, <2>7 DEF Ballots
  <2>10. x.voter \in Desks[p] /\ Desks'[p] \in {Desks[p], Desks[p] \ {x.voter}}
    <3>1. x.voter \in Asking(p, {"castFind", "castInsert"})
      BY <1>1, <1>2, <2>4 DEF Asking
    <3>2. /\ Asking(p, {"castFind", "castInsert"})' \in
               {Asking(p, {"castFind", "castInsert"}), Asking(p, {"castFind", "castInsert"}) \ {x.voter}}
      BY <1>2, <2>4, AskingDrops, AskingThen
    <3> QED
      BY <2>7, <3>1, <3>2
  <2>11. Asking(p, {"castHome"})' = Asking(p, {"castHome"})
    BY <1>2, AskingStays, AskingThen
  <2>12. /\ UNCHANGED <<Stages, Permissions, Queues, Results>>
         /\ Boxes' = [Boxes EXCEPT ![p] = Boxes[p] \cup {b}]
         /\ Desks' = [Desks EXCEPT ![p] = Desks'[p]]
    BY <1>2, <1>3, <1>5, <2>8, <2>11, OneBoxChanges, OneViewChanges
  <2>13. Desks' \in Rules!Dropping(Desks, p, b.voter)
    BY <2>2, <2>10, <2>12, LineDrops, ViewsAreFunctions
  <2>14. Rules!Cast(p, b)
    <3>1. Stages[p] \in IF b.late THEN {"IN_PROGRESS", "CLOSED"} ELSE {"IN_PROGRESS"}
      BY <2>4, <2>5, <2>7
    <3>2. b.voter \in Desks[p] \cap members
      BY <2>1, <2>2, <2>10
    <3> QED
      BY <1>2, <2>9, <2>12, <2>13, <3>1, <3>2 DEF Rules!Cast, Rules!people
  <2> QED
    BY <2>3, <2>14 DEF Rules!Next
<1> QED
  BY <1>4, <1>5

(* The ballots of a voter leave a box with his votes. *)
LEMMA BallotsLeft ==
    ASSUME NEW p \in Polls, NEW v, poll'[p] = poll[p], p \in raced' <=> p \in raced,
           VotesOn(p)' = {x \in VotesOn(p) : x.voter # v}
    PROVE  Boxes'[p] = {b \in Boxes[p] : b.voter # v}
<1>1. Ballots(p)' = {b \in Ballots(p) : b.voter # v}
  <2>1. ASSUME NEW b \in Ballots(p)' PROVE b \in Ballots(p) /\ b.voter # v
    <3>1. PICK x \in VotesOn(p)' :
            b = [voter |-> x.voter, choice |-> x.option.choice, late |-> x.createdAt > poll[p].endDate]
      BY <2>1 DEF Ballots
    <3> QED
      BY <3>1 DEF Ballots
  <2>2. ASSUME NEW b \in Ballots(p), b.voter # v PROVE b \in Ballots(p)'
    <3>1. PICK x \in VotesOn(p) :
            b = [voter |-> x.voter, choice |-> x.option.choice, late |-> x.createdAt > poll[p].endDate]
      BY DEF Ballots
    <3>2. x \in VotesOn(p)'
      BY <2>2, <3>1
    <3> QED
      BY <3>1, <3>2 DEF Ballots
  <2> QED
    BY <2>1, <2>2
<1>2. Boxes[p] = IF p \in raced THEN {} ELSE Ballots(p)
  BY DEF Boxes
<1>3. Boxes'[p] = IF p \in raced THEN {} ELSE Ballots(p)'
  BY DEF Boxes
<1> QED
  BY <1>1, <1>2, <1>3

(* cancelVote: the voter's ballot is withdrawn, and no other. *)
LEMMA WithdrawalShows ==
    ASSUME TypeOK, NEW r \in Requests, NEW p \in Polls, NEW v \in Voters,
           request[r].pc = "cancelDelete", request' = [request EXCEPT ![r] = Idle],
           votes' = votes \ UserVote(v, p), RequestStep
    PROVE  [Rules!Next]_(Rules!vars)
<1>1. UNCHANGED <<apartment, members, home, poll, notices, raced>>
  BY DEF RequestStep
<1>2. \A q \in Polls : /\ Asking(q, {"castHome"})' = Asking(q, {"castHome"})
                       /\ Asking(q, {"castFind", "castInsert"})' = Asking(q, {"castFind", "castInsert"})
  <2>1. OnlyMoves(r) /\ request'[r] = Idle
    BY OneRequestMoves
  <2>2. request'[r].pc = "idle"
    BY <2>1 DEF Idle
  <2> QED
    BY <2>1, <2>2, AskingStays, AskingThen
<1>3. \A q \in Polls \ {p} : ViewSame(q)
  BY <1>1, <1>2 DEF ViewSame, VotesOn, UserVote
<1>4. VotesOn(p)' = {x \in VotesOn(p) : x.voter # v}
  BY DEF VotesOn, UserVote
<1>5. Boxes'[p] = {b \in Boxes[p] : b.voter # v}
  BY <1>1, <1>4, BallotsLeft
<1>6. Boxes' = [Boxes EXCEPT ![p] = {b \in Boxes[p] : b.voter # v}]
  BY <1>3, <1>5, OneViewChanges
<1>7. UNCHANGED <<Stages, Permissions, Results>>
  BY <1>1 DEF Stages, Permissions, Results, Visible, Exists
<1>8. UNCHANGED <<Queues, Desks>>
  <2>1. /\ Queues'[p] = Queues[p] /\ Desks'[p] = Desks[p]
    BY <1>1, <1>2 DEF Queues, Desks, Visible, Exists
  <2> QED
    BY <1>3, <2>1, OneViewStays
<1>9. Rules!Withdraw(p, v)
  BY <1>1, <1>6, <1>7, <1>8 DEF Rules!Withdraw, Rules!people, Rules!hall
<1> QED
  BY <1>9 DEF Rules!Next

(* A step of a voter's request that stores and removes no vote. *)
HallStep(r) == OnlyMoves(r) /\ UNCHANGED votes /\ RequestStep

(* It concerns one poll, if any, and nothing of that but the lines of voters. *)
LEMMA HallChanges ==
    ASSUME Facts, NEW r \in Requests, HallStep(r), NEW p \in Polls,
           request[r].pc \in Points => request[r].option.poll = p,
           request'[r].pc \in Points => request'[r].option.poll = p
    PROVE  /\ UNCHANGED <<apartment, members, home, Stages, Permissions, Boxes, Results>>
           /\ Queues' = [Queues EXCEPT ![p] = Queues'[p]]
           /\ Desks' = [Desks EXCEPT ![p] = Desks'[p]]
           /\ Visible(p) => /\ Queues[p] = Asking(p, {"castHome"})
                            /\ Queues'[p] = Asking(p, {"castHome"})'
                            /\ Desks[p] = Asking(p, {"castFind", "castInsert"})
                            /\ Desks'[p] = Asking(p, {"castFind", "castInsert"})'
           /\ ~Visible(p) => UNCHANGED <<Queues, Desks>>
<1> USE DEF Facts
<1>1. UNCHANGED <<apartment, members, home, poll, votes, notices, raced>> /\ OnlyMoves(r)
  BY DEF HallStep, RequestStep
<1>2. ASSUME NEW q \in Polls \ {p} PROVE ViewSame(q)
  <2>1. /\ Asking(q, {"castHome"})' = Asking(q, {"castHome"})
        /\ Asking(q, {"castFind", "castInsert"})' = Asking(q, {"castFind", "castInsert"})
    BY <1>1, AskingStays, AskingThen DEF Points
  <2> QED
    BY <1>1, <2>1 DEF ViewSame, VotesOn
<1>3. UNCHANGED <<Stages, Permissions, Boxes, Results>>
  <2>1. \A q \in Polls : Ballots(q)' = Ballots(q)
    BY <1>1 DEF Ballots, VotesOn
  <2> QED
    BY <1>1, <2>1 DEF Stages, Permissions, Boxes, Results, Visible, Exists
<1>4. Visible(p)' <=> Visible(p)
  BY <1>1 DEF Visible, Exists
<1>5. ~Visible(p) => UNCHANGED <<Queues, Desks>>
  <2>1. ~Visible(p) => Queues'[p] = Queues[p] /\ Desks'[p] = Desks[p]
    BY <1>4 DEF Queues, Desks
  <2> QED
    BY <1>2, <2>1, OneViewStays
<1>6. /\ Visible(p) => /\ Queues[p] = Asking(p, {"castHome"})
                       /\ Queues'[p] = Asking(p, {"castHome"})'
                       /\ Desks[p] = Asking(p, {"castFind", "castInsert"})
                       /\ Desks'[p] = Asking(p, {"castFind", "castInsert"})'
  BY <1>4 DEF Queues, Desks
<1> QED
  BY <1>1, <1>2, <1>3, <1>5, <1>6, OneViewChanges

(* The request moves outside the lines, or within that of the voters let through. *)
LEMMA HallStays ==
    ASSUME Facts, NEW r \in Requests, HallStep(r),
           \/ request[r].pc \notin Points /\ request'[r].pc \notin Points
           \/ /\ request[r].pc \in {"castFind", "castInsert"}
              /\ request'[r].pc \in {"castFind", "castInsert"}
              /\ request'[r].option = request[r].option /\ request'[r].voter = request[r].voter
    PROVE  [Rules!Next]_(Rules!vars)
<1> USE DEF Facts
<1>1. UNCHANGED <<apartment, members, home, poll, votes, notices, raced>> /\ OnlyMoves(r)
  BY DEF HallStep, RequestStep
<1>2. \A q \in Polls : /\ Asking(q, {"castHome"})' = Asking(q, {"castHome"})
                       /\ Asking(q, {"castFind", "castInsert"})' = Asking(q, {"castFind", "castInsert"})
  BY <1>1, AskingStays, AskingThen DEF Points
<1>3. \A q \in Polls : ViewSame(q)
  BY <1>1, <1>2 DEF ViewSame, VotesOn
<1> QED
  BY <1>1, <1>3, ViewsKept DEF Rules!vars

(* The request ends without a vote: its voter gives up, which may not show as long as
   another request of his is at the same point. *)
LEMMA GivingUpShows ==
    ASSUME Facts, NEW r \in Requests, HallStep(r), request[r].pc \in Points, request'[r].pc \notin Points
    PROVE  [Rules!Next]_(Rules!vars)
<1> USE DEF Facts
<1>1. PICK p \in Polls : p = request[r].option.poll
  BY RequestFields DEF Points
<1>2. PICK v \in Voters : v = request[r].voter
  BY RequestFields DEF Points
<1>3. CASE ~Visible(p)
  BY <1>1, <1>3, HallChanges DEF Rules!vars
<1>4. CASE Visible(p)
  <2>1. \A points \in SUBSET Points :
          AskingNext(p, points) \in {Asking(p, points), Asking(p, points) \ {v}}
    BY <1>2, AskingDrops DEF HallStep
  <2>2. /\ AskingNext(p, {"castHome"}) \in {Asking(p, {"castHome"}), Asking(p, {"castHome"}) \ {v}}
        /\ AskingNext(p, {"castFind", "castInsert"}) \in
             {Asking(p, {"castFind", "castInsert"}), Asking(p, {"castFind", "castInsert"}) \ {v}}
    BY <2>1 DEF Points
  <2>3. Queues'[p] \in {Queues[p], Queues[p] \ {v}} /\ Desks'[p] \in {Desks[p], Desks[p] \ {v}}
    BY <1>1, <1>4, <2>2, HallChanges, AskingThen
  <2>4. Queues' = [Queues EXCEPT ![p] = Queues'[p]] /\ Desks' = [Desks EXCEPT ![p] = Desks'[p]]
    BY <1>1, HallChanges
  <2>5. Queues' \in Rules!Dropping(Queues, p, v) /\ Desks' \in Rules!Dropping(Desks, p, v)
    BY <2>3, <2>4, LineDrops, ViewsAreFunctions
  <2>6. Rules!GiveUp(p, v)
    BY <1>1, <2>5, HallChanges DEF Rules!GiveUp, Rules!people, Rules!outcome
  <2> QED
    BY <2>6 DEF Rules!Next
<1> QED
  BY <1>3, <1>4

(* castVote: a voter asks while the poll runs, and joins the line his permission calls for. *)
LEMMA AskingShows ==
    ASSUME Facts, NEW r \in Requests, NEW v \in Voters, NEW o, o.poll \in Polls, CastVote(r, v, o)
    PROVE  [Rules!Next]_(Rules!vars)
<1> USE DEF Facts
<1>1. PICK p \in Polls : p = o.poll
  OBVIOUS
<1>2. /\ HallStep(r) /\ OnlyMoves(r) /\ request'[r].voter = v /\ request'[r].option.poll = p
      /\ request'[r].pc = IF poll[p].permission = Everyone THEN "castFind" ELSE "castHome"
  <2>1. PICK e : e = IF poll[p].permission = Everyone
                     THEN [pc |-> "castFind", voter |-> v, option |-> o]
                     ELSE [pc |-> "castHome", voter |-> v, option |-> o,
                           permission |-> poll[p].permission]
    OBVIOUS
  <2>2. request' = [request EXCEPT ![r] = e] /\ UNCHANGED votes /\ RequestStep
    BY <1>1, <2>1 DEF CastVote
  <2>3. OnlyMoves(r) /\ request'[r] = e
    BY <2>2, OneRequestMoves
  <2>4. e.voter = v /\ e.option = o /\ e.pc = IF poll[p].permission = Everyone THEN "castFind" ELSE "castHome"
    BY <2>1
  <2> QED
    BY <1>1, <2>2, <2>3, <2>4 DEF HallStep
<1>3. /\ request[r].pc \notin Points /\ request'[r].pc \in Points
      /\ Exists(p) /\ poll[p].status = "IN_PROGRESS"
  <2>1. request[r].pc = "idle" /\ Exists(p) /\ poll[p].status = "IN_PROGRESS"
    BY <1>1 DEF CastVote, Idle, OptionExists
  <2> QED
    BY <1>2, <2>1 DEF Points
<1>4. CASE ~Visible(p)
  BY <1>1, <1>2, <1>3, <1>4, HallChanges DEF Rules!vars
<1>5. CASE Visible(p)
  <2>1. Stages[p] = "IN_PROGRESS" /\ Permissions[p] = poll[p].permission
    BY <1>3, <1>5 DEF Stages, Permissions, Visible
  <2>2. CASE poll[p].permission = Everyone
    <3>1. Asking(p, {"castFind", "castInsert"})' = Asking(p, {"castFind", "castInsert"}) \cup {v}
      BY <1>1, <1>2, <1>3, <2>2, AskingJoins, AskingThen DEF Points
    <3>2. Asking(p, {"castHome"})' = Asking(p, {"castHome"})
      BY <1>2, <1>3, <2>2, AskingStays, AskingThen DEF Points
    <3>3. Desks'[p] = Desks[p] \cup {v} /\ Queues'[p] = Queues[p]
      BY <1>1, <1>2, <1>3, <1>5, <3>1, <3>2, HallChanges
    <3>4. UNCHANGED Queues
      BY <1>1, <1>2, <1>3, <3>3, HallChanges, ViewsAreFunctions
    <3>5. Rules!Ask(p, v)
      BY <1>1, <1>2, <1>3, <2>1, <2>2, <3>3, <3>4, HallChanges
      DEF Rules!Ask, Rules!people, Rules!outcome
    <3> QED
      BY <3>5 DEF Rules!Next
  <2>3. CASE poll[p].permission # Everyone
    <3>1. Asking(p, {"castHome"})' = Asking(p, {"castHome"}) \cup {v}
      BY <1>1, <1>2, <1>3, <2>3, AskingJoins, AskingThen DEF Points
    <3>2. Asking(p, {"castFind", "castInsert"})' = Asking(p, {"castFind", "castInsert"})
      BY <1>2, <1>3, <2>3, AskingStays, AskingThen DEF Points
    <3>3. Queues'[p] = Queues[p] \cup {v} /\ Desks'[p] = Desks[p]
      BY <1>1, <1>2, <1>3, <1>5, <3>1, <3>2, HallChanges
    <3>4. UNCHANGED Desks
      BY <1>1, <1>2, <1>3, <3>3, HallChanges, ViewsAreFunctions
    <3>5. Rules!Ask(p, v)
      BY <1>1, <1>2, <1>3, <2>1, <2>3, <3>3, <3>4, HallChanges
      DEF Rules!Ask, Rules!people, Rules!outcome
    <3> QED
      BY <3>5 DEF Rules!Next
  <2> QED
    BY <2>2, <2>3
<1> QED
  BY <1>4, <1>5

(* findUserResidentBuilding: the voter lives in the building the poll is for, the one that
   castVote has read, and is let through; or he is turned away. *)
LEMMA AdmissionShows ==
    ASSUME Facts, NEW r \in Requests, FindUserResidentBuilding(r)
    PROVE  [Rules!Next]_(Rules!vars)
<1> USE DEF Facts
<1>1. PICK p \in Polls : p = request[r].option.poll
  BY RequestFields DEF FindUserResidentBuilding
<1>2. PICK v \in Voters : v = request[r].voter
  BY RequestFields DEF FindUserResidentBuilding
<1>3. request[r].pc = "castHome" /\ request[r].pc \in Points
  BY DEF FindUserResidentBuilding, Points
<1>4. CASE home[v] # request[r].permission
  <2>1. OnlyMoves(r) /\ request'[r] = Idle
    BY <1>2, <1>4, OneRequestMoves DEF FindUserResidentBuilding
  <2>2. HallStep(r) /\ request'[r].pc \notin Points
    BY <2>1 DEF FindUserResidentBuilding, HallStep, Idle, Points
  <2> QED
    BY <1>3, <2>2, GivingUpShows
<1>5. CASE home[v] = request[r].permission
  <2>1. OnlyMoves(r) /\ request'[r] = Entitled(request[r])
    BY <1>2, <1>5, OneRequestMoves DEF FindUserResidentBuilding
  <2>2. /\ HallStep(r) /\ OnlyMoves(r) /\ request'[r].voter = v /\ request'[r].option.poll = p
        /\ request'[r].pc = "castFind" /\ request'[r].pc \in Points
    BY <1>1, <1>2, <2>1 DEF FindUserResidentBuilding, HallStep, Entitled, Points
  <2>3. CASE ~Visible(p)
    BY <1>1, <2>2, <2>3, HallChanges DEF Rules!vars
  <2>4. CASE Visible(p)
    <3>1. Permissions[p] = home[v]
      BY <1>1, <1>3, <1>5, <2>4 DEF Permissions, AskedWhileOpen, AskedOf
    <3>2. v \in Asking(p, {"castHome"})
      BY <1>1, <1>2, <1>3 DEF Asking
    <3>3. Asking(p, {"castHome"})' \in {Asking(p, {"castHome"}), Asking(p, {"castHome"}) \ {v}}
      BY <1>2, <2>2, AskingDrops, AskingThen
    <3>4. Asking(p, {"castFind", "castInsert"})' = Asking(p, {"castFind", "castInsert"}) \cup {v}
      BY <1>3, <2>2, AskingJoins, AskingThen
    <3>5. /\ v \in Queues[p] /\ Queues'[p] \in {Queues[p], Queues[p] \ {v}}
          /\ Desks'[p] = Desks[p] \cup {v}
      BY <1>1, <2>2, <2>4, <3>2, <3>3, <3>4, HallChanges
    <3>6. Queues' = [Queues EXCEPT ![p] = Queues'[p]] /\ Desks' = [Desks EXCEPT ![p] = Desks'[p]]
      BY <1>1, <2>2, HallChanges
    <3>7. Queues' \in Rules!Dropping(Queues, p, v)
      BY <3>5, <3>6, LineDrops, ViewsAreFunctions
    <3>8. UNCHANGED <<apartment, members, home, Stages, Permissions, Boxes, Results>>
      BY <1>1, <2>2, HallChanges
    <3>9. Rules!Admit(p, v)
      BY <3>1, <3>5, <3>6, <3>7, <3>8 DEF Rules!Admit, Rules!people, Rules!outcome
    <3> QED
      BY <3>9 DEF Rules!Next
  <2> QED
    BY <2>3, <2>4
<1> QED
  BY <1>4, <1>5

(* Everything that a voter's request does. *)
LEMMA VotersShow ==
    ASSUME Facts, NEW r \in Requests, VoterStep(r)
    PROVE  [Rules!Next]_(Rules!vars)
<1> USE DEF Facts
<1>1. ASSUME NEW v \in Voters, NEW p \in Polls, NEW c \in Choices,
             CastVote(r, v, [poll |-> p, edition |-> poll[p].edition, choice |-> c])
      PROVE  [Rules!Next]_(Rules!vars)
  BY <1>1, AskingShows
<1>2. ASSUME NEW v \in Voters, NEW o, CancelVote(r, v, o) PROVE [Rules!Next]_(Rules!vars)
  <2>1. OnlyMoves(r) /\ request'[r] = [pc |-> "cancelFind", voter |-> v, option |-> o]
    BY <1>2, OneRequestMoves DEF CancelVote
  <2>2. HallStep(r) /\ request[r].pc \notin Points /\ request'[r].pc \notin Points
    BY <1>2, <2>1 DEF CancelVote, HallStep, Idle, Points
  <2> QED
    BY <2>2, HallStays
<1>3. CASE GetUserVote(r)
  <2>1. request[r] \in [pc : {"castFind", "castInsert", "cancelFind", "cancelDelete"},
                        voter : Voters, option : Option]
    BY <1>3, RequestFields DEF GetUserVote
  <2>2. /\ OnlyMoves(r)
        /\ request'[r] = Idle \/ request'[r] = [request[r] EXCEPT !.pc = "castInsert"]
    BY <1>3, OneRequestMoves DEF GetUserVote
  <2>3. HallStep(r) /\ request[r].pc = "castFind"
    BY <1>3, <2>2 DEF GetUserVote, HallStep
  <2>4. CASE request'[r] = Idle
    BY <2>3, <2>4, GivingUpShows DEF Idle, Points
  <2>5. CASE request'[r] = [request[r] EXCEPT !.pc = "castInsert"]
    <3>1. /\ request'[r].pc = "castInsert" /\ request'[r].option = request[r].option
          /\ request'[r].voter = request[r].voter
      BY <2>1, <2>5
    <3> QED
      BY <2>3, <3>1, HallStays
  <2> QED
    BY <2>2, <2>4, <2>5
<1>4. CASE InsertVote(r)
  <2>1. PICK x : x = [voter |-> request[r].voter, option |-> request[r].option, createdAt |-> now]
    OBVIOUS
  <2>2. UNCHANGED votes \/ Inserts(x, r)
    BY <1>4, <2>1 DEF InsertVote, Inserts
  <2>3. OnlyMoves(r) /\ request'[r] = Idle
    BY <1>4, OneRequestMoves DEF InsertVote
  <2>4. request[r].pc \in Points /\ request'[r].pc \notin Points
    BY <1>4, <2>3 DEF InsertVote, Idle, Points
  <2>5. UNCHANGED votes => HallStep(r)
    BY <1>4, <2>3 DEF InsertVote, HallStep
  <2> QED
    BY <2>2, <2>4, <2>5, InsertShows, GivingUpShows
<1>5. CASE FindVoteToCancel(r)
  <2>1. request[r] \in [pc : {"castFind", "castInsert", "cancelFind", "cancelDelete"},
                        voter : Voters, option : Option]
    BY <1>5, RequestFields DEF FindVoteToCancel
  <2>2. /\ OnlyMoves(r)
        /\ request'[r] = Idle \/ request'[r] = [request[r] EXCEPT !.pc = "cancelDelete"]
    BY <1>5, OneRequestMoves DEF FindVoteToCancel
  <2>3. request'[r].pc \in {"idle", "cancelDelete"} /\ request[r].pc = "cancelFind"
    BY <1>5, <2>1, <2>2 DEF FindVoteToCancel, Idle
  <2>4. HallStep(r)
    BY <1>5, <2>2 DEF FindVoteToCancel, HallStep
  <2> QED
    BY <2>3, <2>4, HallStays DEF Points
<1>6. CASE DeleteVote(r)
  <2>1. PICK p \in Polls : p = request[r].option.poll
    BY <1>6, RequestFields DEF DeleteVote
  <2>2. PICK v \in Voters : v = request[r].voter
    BY <1>6, RequestFields DEF DeleteVote
  <2> QED
    BY <1>6, <2>1, <2>2, WithdrawalShows DEF DeleteVote
<1> QED
  BY <1>1, <1>2, <1>3, <1>4, <1>5, <1>6, AdmissionShows DEF VoterStep

(* What a step that is no request's leaves of the lines of voters. *)
LEMMA AskingSame ==
    ASSUME UNCHANGED request
    PROVE  \A p : /\ Asking(p, {"castHome"})' = Asking(p, {"castHome"})
                  /\ Asking(p, {"castFind", "castInsert"})' = Asking(p, {"castFind", "castInsert"})
BY DEF Asking

(* updateResident: a resident moves. *)
LEMMA MovingShows ==
    ASSUME NEW v \in Voters, Move(v)
    PROVE  [Rules!Next]_(Rules!vars)
<1>1. /\ UNCHANGED <<apartment, members, poll, votes, notices, raced, request>>
      /\ apartment /\ v \in members
      /\ \E b \in Buildings \cup {NoHome} : home' = [home EXCEPT ![v] = b]
  BY DEF Move
<1>2. \A p \in Polls : ViewSame(p)
  BY <1>1, AskingSame DEF ViewSame, VotesOn
<1>3. UNCHANGED <<Stages, Permissions, Queues, Desks, Boxes, Results>>
  BY <1>2, ViewsKept
<1>4. Rules!Move(v)
  BY <1>1, <1>3 DEF Rules!Move, Rules!hall, Rules!outcome
<1> QED
  BY <1>4 DEF Rules!Next

(* deleteUser: a voter leaves, with his ballots. *)
LEMMA LeavingShows ==
    ASSUME NEW v \in Voters, DeleteUser(v)
    PROVE  [Rules!Next]_(Rules!vars)
<1>1. /\ UNCHANGED <<apartment, poll, notices, raced, request>>
      /\ members' = members \ {v} /\ home' = [home EXCEPT ![v] = NoHome]
  BY DEF DeleteUser
<1>2. ASSUME NEW p \in Polls PROVE Boxes'[p] = {b \in Boxes[p] : b.voter # v}
  <2>1. VotesOn(p)' = {x \in VotesOn(p) : x.voter # v}
    BY DEF VotesOn, DeleteUser
  <2> QED
    BY <1>1, <2>1, BallotsLeft
<1>3. Boxes' = [p \in Polls |-> {b \in Boxes[p] : b.voter # v}]
  <2>1. Boxes' = [p \in Polls |-> Boxes'[p]]
    BY DEF Boxes
  <2> QED
    BY <1>2, <2>1
<1>4. UNCHANGED <<Stages, Permissions, Results>>
  BY <1>1 DEF Stages, Permissions, Results, Visible, Exists
<1>5. UNCHANGED <<Queues, Desks>>
  BY <1>1, AskingSame DEF Queues, Desks, Visible, Exists
<1>6. Rules!Leave(v)
  BY <1>1, <1>3, <1>4, <1>5 DEF Rules!Leave, Rules!hall
<1> QED
  BY <1>6 DEF Rules!Next

(* deleteAdmin: the apartment goes, with everything in it. *)
LEMMA DissolutionShows ==
    ASSUME Facts, DeleteApartment
    PROVE  [Rules!Next]_(Rules!vars)
<1>1. UNCHANGED <<members, raced>> /\ apartment' = FALSE /\ home' = [v \in Voters |-> NoHome]
  BY DEF DeleteApartment
<1>2. ASSUME NEW p \in Polls
      PROVE  /\ Stages'[p] = IF Stages[p] \in {"NONE", "SPOILT"} THEN Stages[p] ELSE "DELETED"
             /\ Permissions'[p] = Everyone /\ Queues'[p] = {} /\ Desks'[p] = {}
             /\ Boxes'[p] = {} /\ Results'[p] = <<>>
  <2>1. poll'[p] = IF Exists(p) THEN NoPoll("DELETED") ELSE poll[p]
    BY DEF DeleteApartment
  <2>2. poll[p].status \in PollStatus \cup {"NONE", "DELETED"}
    BY DEF Facts, TypeOK, Row
  <2>3. poll'[p].status = IF poll[p].status = "NONE" THEN "NONE" ELSE "DELETED"
    BY <2>1, <2>2 DEF Exists, NoPoll, PollStatus
  <2>4. Stages'[p] = IF Stages[p] \in {"NONE", "SPOILT"} THEN Stages[p] ELSE "DELETED"
    BY <1>1, <2>2, <2>3 DEF Stages, PollStatus
  <2>5. ~Exists(p)' /\ VotesOn(p)' = {} /\ notices'[p] = <<>>
    BY <2>3 DEF DeleteApartment, Exists, PollStatus, VotesOn
  <2>6. Ballots(p)' = {}
    BY <2>5 DEF Ballots
  <2>7. ~Visible(p)'
    BY <2>5 DEF Visible
  <2>8. Permissions'[p] = Everyone /\ Queues'[p] = {} /\ Desks'[p] = {}
    BY <2>7 DEF Permissions, Queues, Desks
  <2> QED
    BY <2>4, <2>5, <2>6, <2>8 DEF Boxes, Results
<1>3. /\ Stages' = [p \in Polls |-> IF Stages[p] \in {"NONE", "SPOILT"} THEN Stages[p] ELSE "DELETED"]
      /\ Permissions' = [p \in Polls |-> Everyone]
  BY <1>2, ViewsAreFunctions
<1>4. Queues' = [p \in Polls |-> {}] /\ Desks' = [p \in Polls |-> {}]
  BY <1>2, ViewsAreFunctions
<1>5. Boxes' = [p \in Polls |-> {}] /\ Results' = [p \in Polls |-> <<>>]
  BY <1>2, ViewsAreFunctions
<1>6. Rules!Dissolve
  BY <1>1, <1>3, <1>4, <1>5 DEF Rules!Dissolve
<1> QED
  BY <1>6 DEF Rules!Next

(* PollBallot counts as this module does. *)
LEMMA SameSize == ASSUME NEW S PROVE Rules!Cardinality(S) = Cardinality(S)
BY DEF Rules!Cardinality, Cardinality

(* The ballots cast in time are no more than the votes that are. *)
LEMMA BallotsInTime ==
    ASSUME TypeOK, NEW p \in Polls, p \notin raced, NEW c
    PROVE  /\ Cardinality(Rules!InTime(p, c)) <= Cardinality(InTime(p, c))
           /\ Cardinality(Rules!InTime(p, c)) \in Nat /\ Cardinality(InTime(p, c)) \in Nat
<1>1. PICK S : S = InTime(p, c)
  OBVIOUS
<1>2. PICK T : T = Rules!InTime(p, c)
  OBVIOUS
<1>3. PICK f : f = [x \in S |-> [voter |-> x.voter, choice |-> x.option.choice,
                                 late |-> x.createdAt > poll[p].endDate]]
  OBVIOUS
<1>4. T = {b \in Ballots(p) : b.choice = c /\ ~b.late}
  BY <1>2 DEF Rules!InTime, Boxes
<1>5. poll[p].endDate \in Nat /\ \A x \in VotesOn(p) : x.createdAt \in Nat
  BY DEF TypeOK, Row, Dates, VotesOn, Vote, Time
<1>6. ASSUME NEW x \in S PROVE f[x] \in T
  <2>1. x \in VotesOn(p) /\ x.option.choice = c /\ ~(x.createdAt > poll[p].endDate)
    BY <1>1, <1>5, <1>6 DEF InTime
  <2>2. f[x] = [voter |-> x.voter, choice |-> x.option.choice, late |-> x.createdAt > poll[p].endDate]
    BY <1>3
  <2>3. f[x] \in Ballots(p)
    BY <2>1, <2>2 DEF Ballots
  <2>4. f[x].choice = c
    BY <2>1, <2>2
  <2>5. ~f[x].late
    <3>1. f[x].late = (x.createdAt > poll[p].endDate)
      BY <2>2
    <3> QED
      BY <2>1, <3>1, Zenon
  <2> QED
    BY <1>4, <2>3, <2>4, <2>5
<1>7. ASSUME NEW b \in T PROVE \E x \in S : f[x] = b
  <2>1. PICK x \in VotesOn(p) :
          b = [voter |-> x.voter, choice |-> x.option.choice, late |-> x.createdAt > poll[p].endDate]
    BY <1>4 DEF Ballots
  <2>2. b.choice = c /\ ~b.late
    BY <1>4
  <2>3. x.option.choice = c
    BY <2>1, <2>2
  <2>4. ~(x.createdAt > poll[p].endDate)
    BY <2>1, <2>2, Zenon
  <2>5. x \in S
    BY <1>1, <1>5, <2>3, <2>4 DEF InTime
  <2> QED
    BY <1>3, <2>1, <2>5
<1>8. f \in Surjection(S, T)
  <2>1. f \in [S -> T]
    BY <1>3, <1>6
  <2> QED
    BY <1>7, <2>1 DEF Surjection
<1>9. IsFiniteSet(S)
  BY <1>1, InTimeFinite
<1> QED
  BY <1>1, <1>2, <1>8, <1>9, FS_Surjection, FS_CardinalityType

(* The notice declares a result that the rules allow. *)
LEMMA AnnouncementShows ==
    ASSUME Facts, NEW s \in Runs, CreateResultNotice(s)
    PROVE  [Rules!Next]_(Rules!vars)
<1> USE DEF Facts
<1>1. UNCHANGED <<apartment, members, home, poll, votes, raced, request>>
  BY DEF CreateResultNotice, RunStep
<1>2. PICK f \in ToClose : f = run[s].closed
  BY RunFields DEF CreateResultNotice
<1>3. PICK p \in Polls : p = f.poll
  BY DEF ToClose
<1>4. PICK t : t = f.tally
  OBVIOUS
<1>5. CASE ~apartment
  BY <1>1, <1>5, StutterShows DEF CreateResultNotice
<1>6. CASE apartment
  <2>1. notices' = [notices EXCEPT ![p] = Append(notices[p], t)] /\ run[s].pc = "announcing"
    BY <1>2, <1>3, <1>4, <1>6 DEF CreateResultNotice
  <2>2. \A q \in Polls \ {p} : ViewSame(q)
    BY <1>1, <2>1, AskingSame DEF ViewSame, VotesOn, TypeOK
  <2>3. CASE p \in raced
    <3>1. \A q \in Polls : ViewSame(q)
      BY <1>1, <2>2, <2>3 DEF ViewSame
    <3> QED
      BY <1>1, <3>1, ViewsKept DEF Rules!vars
  <2>4. CASE p \notin raced
    <3>1. notices[p] = <<>> /\ poll[p].status = "CLOSED"
      <4>1. OneAnnouncer(p) /\ Announces(s, p)
        BY <1>2, <1>3, <2>1, <2>4 DEF AnnouncedOnce, Announces
      <4> QED
        BY <1>6, <4>1 DEF OneAnnouncer
    <3>2. t \in Rules!Tally
      BY <1>2, <1>4, <2>1, SameSize DEF TalliesPlausible, Plausible, Rules!Tally
    <3>3. \A c \in Choices : t[c] \in Nat /\ Cardinality(InTime(p, c)) <= t[c]
      <4>1. CoveredEntry(f)
        BY <1>2, <2>1 DEF TalliesCover
      <4>2. Covered(p, t)
        BY <1>3, <1>4, <2>4, <4>1 DEF CoveredEntry
      <4>3. t \in Tally
        BY <1>4 DEF ToClose
      <4> QED
        BY <3>1, <4>2, <4>3 DEF Covered, Exists, PollStatus, Tally
    <3>4. \A c \in Choices : Cardinality(Rules!InTime(p, c)) <= t[c]
      BY <2>4, <3>3, BallotsInTime
    <3>5. notices'[p] = <<t>>
      BY <2>1, <3>1 DEF TypeOK
    <3>6. Stages[p] = "CLOSED" /\ Results[p] = <<>> /\ Results'[p] = <<t>>
      BY <1>1, <2>4, <3>1, <3>5 DEF Stages, Results
    <3>7. VotesOn(p)' = VotesOn(p)
      BY <1>1 DEF VotesOn
    <3>8. /\ UNCHANGED <<Stages, Permissions, Queues, Desks, Boxes>>
          /\ Results' = [Results EXCEPT ![p] = <<t>>]
      <4>1. UNCHANGED <<Stages, Permissions, Queues, Desks, Boxes>>
        BY <1>1, <2>2, <2>4, <3>7, AskingSame, OneBoxChanges
      <4>2. Results' = [Results EXCEPT ![p] = Results'[p]]
        BY <2>2, OneViewChanges
      <4> QED
        BY <3>6, <4>1, <4>2
    <3>9. Rules!Declare(p, t)
      BY <1>1, <1>6, <3>4, <3>6, <3>8, SameSize
      DEF Rules!Declare, Rules!people, Rules!hall
    <3> QED
      BY <3>2, <3>9 DEF Rules!Next
  <2> QED
    BY <2>3, <2>4
<1> QED
  BY <1>5, <1>6

(* Every step of the program is a step of PollBallot, or shows nothing of itself there. *)
LEMMA StepsShow == ASSUME Facts, [Next]_vars PROVE [Rules!Next]_(Rules!vars)
<1> USE DEF Facts
<1>1. CASE UNCHANGED vars
  BY <1>1, StutterShows DEF vars
<1>2. ASSUME NEW p \in Polls, CreatePoll(p) PROVE [Rules!Next]_(Rules!vars)
  <2>1. Next
    BY <1>2 DEF Next
  <2>2. UNCHANGED <<apartment, members, home, notices, votes, raced, request>>
    BY <1>2 DEF CreatePoll
  <2>3. \A q \in Polls \ {p} : ViewSame(q)
    BY <1>2, <2>2, AskingSame DEF CreatePoll, ViewSame, VotesOn, TypeOK
  <2>4. VotesOn(p)' = VotesOn(p)
    BY <2>2 DEF VotesOn
  <2> QED
    BY <2>1, <2>2, <2>3, <2>4, RowShows
<1>3. ASSUME NEW a \in Admins, AdminStep(a) PROVE [Rules!Next]_(Rules!vars)
  <2>1. Next /\ UNCHANGED <<apartment, members, home, notices, request>>
    BY <1>3, AdminFrame DEF Next
  <2>2. CASE UNCHANGED <<poll, votes, raced>>
    BY <2>1, <2>2, StutterShows
  <2>3. ASSUME UpdatePoll(a) \/ DeletePoll(a), ~UNCHANGED <<poll, votes, raced>>
        PROVE  [Rules!Next]_(Rules!vars)
    <3>1. PICK p \in Polls : p = admin[a].poll
      BY <2>3, AdminFields DEF UpdatePoll, DeletePoll
    <3>2. admin[a].seen.status = "PENDING"
      BY <2>3 DEF UpdatePoll, DeletePoll, SeenRows, AdminSaw
    <3>3. PICK row : /\ Exists(p) /\ Overwrite(p, admin[a].seen, row)
                     /\ votes' = votes \/ votes' = votes \ VotesOn(p)
      BY <2>3, <3>1 DEF UpdatePoll, DeletePoll
    <3> QED
      BY <2>1, <3>2, <3>3, OverwriteShows
  <2> QED
    BY <1>3, <2>2, <2>3 DEF AdminStep, FindPollById
<1>4. ASSUME NEW r \in Requests, VoterStep(r) PROVE [Rules!Next]_(Rules!vars)
  BY <1>4, VotersShow
<1>5. ASSUME NEW s \in Runs, SchedulerStep(s) \/ AbortRun(s) PROVE [Rules!Next]_(Rules!vars)
  <2>1. Next /\ UNCHANGED <<apartment, members, home, votes, request>>
    BY <1>5, RunFrame DEF Next, RunStep
  <2>2. CASE UNCHANGED <<poll, notices, raced>>
    BY <2>1, <2>2, StutterShows
  <2>3. ASSUME NEW f \in run[s].todo, StartPoll(s, f) \/ ClosePoll(s, f)
        PROVE  [Rules!Next]_(Rules!vars)
    <3>1. f.poll \in Polls /\ UNCHANGED notices
      BY <2>3, RunFields DEF StartPoll, ClosePoll, ToStart, ToClose
    <3>2. UNCHANGED <<poll, raced>> \/ \E row : Exists(f.poll) /\ Overwrite(f.poll, f.seen, row)
      BY <2>3 DEF StartPoll, ClosePoll
    <3> QED
      BY <2>1, <2>2, <3>1, <3>2, OverwriteShows
  <2>4. CASE CreateResultNotice(s)
    BY <2>4, AnnouncementShows
  <2> QED
    BY <1>5, <2>2, <2>3, <2>4 DEF SchedulerStep, FindPendingToStart, FindInProgressToClose,
       FinishRun, AbortRun
<1>6. CASE Tick
  BY <1>6, StutterShows DEF Tick
<1> QED
  BY <1>1, <1>2, <1>3, <1>4, <1>5, <1>6, LeavingShows, MovingShows, DissolutionShows DEF Next

(* poll.service and runSchedule implement PollBallot, for any number of polls, voters,
   requests and overlapping runs: what they do on rows read long before comes down to
   drafting, scrapping and closing polls, letting voters of the right building through,
   casting and withdrawing ballots and declaring one result that counts what was cast in
   time, and in no step to anything else, while residents come, move and go. *)
THEOREM PollsHeldByTheRules == Spec => HeldByTheRules
<1>1. Init => Rules!Init
  <2> SUFFICES ASSUME Init PROVE Rules!Init
    OBVIOUS
  <2>1. ASSUME NEW p \in Polls
        PROVE  ~Exists(p) /\ ~Visible(p) /\ VotesOn(p) = {} /\ poll[p].status = "NONE"
    BY DEF Init, NoPoll, Exists, Visible, PollStatus, VotesOn
  <2>2. \A p \in Polls : Ballots(p) = {}
    BY <2>1 DEF Ballots
  <2>3. /\ Stages = [p \in Polls |-> "NONE"] /\ Permissions = [p \in Polls |-> Everyone]
        /\ Queues = [p \in Polls |-> {}] /\ Desks = [p \in Polls |-> {}]
    BY <2>1 DEF Init, Stages, Permissions, Queues, Desks
  <2>4. Boxes = [p \in Polls |-> {}] /\ Results = [p \in Polls |-> <<>>]
    BY <2>1, <2>2 DEF Init, Boxes, Results
  <2> QED
    BY <2>3, <2>4 DEF Init, Rules!Init
<1>2. Init => Housed /\ CastsLate /\ TalliesPlausible
  BY DEF Init, Housed, CastsLate, TalliesPlausible, Exists, NoPoll, PollStatus, Idle, Points
<1>3. Facts /\ [Next]_vars => [Rules!Next]_(Rules!vars)
  BY StepsShow
<1> QED
  BY <1>1, <1>2, <1>3, HousedKept, CastsLateKept, PlausibleKept, TypeCorrect, RowsReadAreRight,
     OneVoteEach, VotesAskedWhileOpen, AnnouncersAreUnique, TalliesAlwaysCover,
     PTL DEF Spec, HeldByTheRules, Rules!Spec, Facts
=============================================================================
