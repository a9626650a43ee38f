---------------------------- MODULE PollLifecycle ----------------------------
(***************************************************************************)
(* Polls of the residents: administrators create, edit and delete them     *)
(* (poll.service.ts), voters cast and cancel votes, and the scheduler      *)
(* (poll.scheduler.ts) starts the polls whose start date has come, closes  *)
(* those whose end date has passed and announces the result.               *)
(*                                                                         *)
(* A step is one awaited database call with the local code up to the next  *)
(* await: every request and every scheduler run acts on rows it read one   *)
(* or more steps before.  Requests that are refused change nothing and are *)
(* not modelled, except where they were already under way.                 *)
(* A poll's options are numbered by the edition of its option list: the    *)
(* ids of a replaced list never come back.  A scheduler run ends early     *)
(* when a call fails or its process dies, at most MaxFaults times.         *)
(* Notifications about polls and notices are NotificationOutbox's affair.  *)
(***************************************************************************)
EXTENDS Naturals, FiniteSets, Sequences

CONSTANTS
    Polls,       \* ids of polls that may be created
    Voters,      \* users present initially
    Choices,     \* positions in an option list
    Buildings,   \* buildings of the apartment, as polls and residents name them
    Everyone,    \* the permission 0, which admits all voters
    NoHome,      \* no roster entry, hence no building
    Admins,      \* concurrent administrator requests
    Requests,    \* concurrent voter requests
    Runs,        \* concurrent executions of runSchedule
    Horizon,     \* bound on the clock
    MaxEdits,    \* bound on edits and deletions of polls and on moves of residents
    MaxFaults    \* bound on failures of scheduler runs

ASSUME ConstantsAssumption ==
    /\ IsFiniteSet(Polls) /\ IsFiniteSet(Voters) /\ IsFiniteSet(Choices)
    /\ Everyone \notin Buildings /\ NoHome \notin Buildings
    /\ Horizon \in Nat \ {0} /\ MaxEdits \in Nat /\ MaxFaults \in Nat

VARIABLES
    now,         \* the clock the dates are compared with
    apartment,   \* whether the apartment with its boards still exists
    members,     \* rows of User
    home,        \* the building in the roster entry of each voter
    poll,        \* the Poll row with its option list's edition
    votes,       \* rows of Vote
    notices,     \* result notices of each poll, as the tallies they announce
    admin,       \* pc, poll id and poll as read of each administrator request
    request,     \* pc, voter, option and permission as read of each voter request
    run,         \* pc and work left of each scheduler run
    edits,       \* edits spent
    faults,      \* faults spent
    raced,       \* history: polls overwritten by somebody who had read another row
    autoClosed   \* history: polls the scheduler has closed

vars == <<now, apartment, members, home, poll, votes, notices, admin, request, run, edits, faults,
          raced, autoClosed>>

Time == 0..Horizon
Dates == 0..(Horizon - 1)      \* so that every end date passes within the horizon
PollStatus == {"PENDING", "IN_PROGRESS", "CLOSED"}
Row == [status : PollStatus \cup {"NONE", "DELETED"}, startDate : Dates, endDate : Dates,
        permission : Buildings \cup {Everyone}, edition : Nat]
Option == [poll : Polls, edition : Nat, choice : Choices]
Vote == [voter : Voters, option : Option, createdAt : Time]
Tally == [Choices -> Nat]

Idle == [pc |-> "idle"]
AdminState == {Idle} \cup [pc : {"update", "delete"}, poll : Polls, seen : Row]
RequestState == {Idle} \cup [pc : {"castFind", "castInsert", "cancelFind", "cancelDelete"},
                             voter : Voters, option : Option]
                        \cup [pc : {"castHome"}, voter : Voters, option : Option,
                              permission : Buildings]
ToStart == [poll : Polls, seen : Row]
ToClose == [poll : Polls, seen : Row, tally : Tally]
RunState == {Idle} \cup [pc : {"starting"}, todo : SUBSET ToStart]
                   \cup [pc : {"closing"}, todo : SUBSET ToClose]
                   \cup [pc : {"announcing"}, todo : SUBSET ToClose, closed : ToClose]

NoPoll(s) ==
    [status |-> s, startDate |-> 0, endDate |-> 0, permission |-> Everyone, edition |-> 0]
Exists(p) == poll[p].status \in PollStatus
OptionExists(o) == Exists(o.poll) /\ poll[o.poll].edition = o.edition
VotesOn(p) == {x \in votes : x.option.poll = p}
TallyOf(p) == [c \in Choices |-> Cardinality({x \in VotesOn(p) : x.option.choice = c})]

Init ==
    /\ now = 0
    /\ apartment = TRUE
    /\ members = Voters
    /\ home \in [Voters -> Buildings \cup {NoHome}]
    /\ poll = [p \in Polls |-> NoPoll("NONE")]
    /\ votes = {}
    /\ notices = [p \in Polls |-> <<>>]
    /\ admin = [a \in Admins |-> Idle]
    /\ request = [r \in Requests |-> Idle]
    /\ run = [s \in Runs |-> Idle]
    /\ edits = 0
    /\ faults = 0
    /\ raced = {}
    /\ autoClosed = {}

\* The write of row p by somebody who read it as seen.
Overwrite(p, seen, row) ==
    /\ poll' = [poll EXCEPT ![p] = row]
    /\ raced' = IF poll[p] = seen THEN raced ELSE raced \cup {p}

-----------------------------------------------------------------------------
(* Administrators.                                                         *)

CreatePoll(p) ==
    /\ apartment /\ poll[p].status = "NONE"
    /\ \E s \in PollStatus, d, e \in Dates, b \in Buildings \cup {Everyone} :
         /\ d < e
         /\ poll' = [poll EXCEPT ![p] = [status |-> s, startDate |-> d, endDate |-> e,
                                         permission |-> b, edition |-> 0]]
    /\ UNCHANGED <<now, apartment, members, home, votes, notices, admin, request, run, edits, faults,
                   raced, autoClosed>>

\* Mutant: polls under way stay editable.
EditableUntilClosed(row) == row.status # "CLOSED"
Editable(row) == row.status = "PENDING"

FindPollById(a, pc) ==
    /\ admin[a] = Idle
    /\ edits < MaxEdits
    /\ \E p \in Polls :
         /\ Exists(p) /\ Editable(poll[p])
         /\ admin' = [admin EXCEPT ![a] = [pc |-> pc, poll |-> p, seen |-> poll[p]]]
    /\ edits' = edits + 1
    /\ UNCHANGED <<now, apartment, members, home, poll, votes, notices, request, run, faults,
                   raced, autoClosed>>

\* Mutant: dates are compared only when both are given.
EditedRowsHalfChecked(row, seen) ==
    {new \in [status : PollStatus, startDate : Dates, endDate : Dates,
              permission : Buildings \cup {Everyone}, edition : {row.edition, row.edition + 1}] :
        new.startDate = row.startDate \/ new.endDate = row.endDate \/ new.startDate < new.endDate}

\* The rows an edit may leave in place of row, for a validated against the poll as
\* seen: a date that is not given is taken from seen for the comparison only.
EditedRows(row, seen) ==
    {new \in [status : PollStatus, startDate : Dates, endDate : Dates,
              permission : Buildings \cup {Everyone}, edition : {row.edition, row.edition + 1}] :
        \/ new.startDate = row.startDate /\ new.endDate = row.endDate
        \/ new.startDate < new.endDate
        \/ new.startDate = row.startDate /\ seen.startDate < new.endDate
        \/ new.endDate = row.endDate /\ new.startDate < seen.endDate}

\* deleteMany and createMany of the options and the update, in one transaction; a
\* missing row rolls it back.  Votes go with the options they were cast for.
UpdatePoll(a) ==
    LET p == admin[a].poll IN
    /\ admin[a].pc = "update"
    /\ \/ /\ Exists(p)
          /\ \E new \in EditedRows(poll[p], admin[a].seen) :
               /\ Overwrite(p, admin[a].seen, new)
               /\ votes' = IF new.edition = poll[p].edition THEN votes
                                                            ELSE votes \ VotesOn(p)
       \/ ~Exists(p) /\ UNCHANGED <<poll, votes, raced>>
    /\ admin' = [admin EXCEPT ![a] = Idle]
    /\ UNCHANGED <<now, apartment, members, home, notices, request, run, edits, faults, autoClosed>>

DeletePoll(a) ==
    LET p == admin[a].poll IN
    /\ admin[a].pc = "delete"
    /\ \/ /\ Exists(p)
          /\ Overwrite(p, admin[a].seen, NoPoll("DELETED"))
          /\ votes' = votes \ VotesOn(p)
       \/ ~Exists(p) /\ UNCHANGED <<poll, votes, raced>>
    /\ admin' = [admin EXCEPT ![a] = Idle]
    /\ UNCHANGED <<now, apartment, members, home, notices, request, run, edits, faults, autoClosed>>

-----------------------------------------------------------------------------
(* Voters.                                                                 *)

RequestStep == UNCHANGED <<now, apartment, members, home, poll, notices, admin, run, edits,
                           faults, raced, autoClosed>>

\* castVote: the option with its poll, whose permission is remembered.
CastVote(r, v, o) ==
    /\ request[r] = Idle
    /\ OptionExists(o)
    /\ poll[o.poll].status = "IN_PROGRESS"
    /\ request' = [request EXCEPT ![r] =
                     IF poll[o.poll].permission = Everyone
                     THEN [pc |-> "castFind", voter |-> v, option |-> o]
                     ELSE [pc |-> "castHome", voter |-> v, option |-> o,
                           permission |-> poll[o.poll].permission]]
    /\ UNCHANGED votes /\ RequestStep

Entitled(q) == [pc |-> "castFind", voter |-> q.voter, option |-> q.option]

\* Mutant: a user without roster entry is let through.
FindAnyResidentBuilding(r) ==
    LET q == request[r] IN
    /\ q.pc = "castHome"
    /\ request' = [request EXCEPT ![r] =
                     IF home[q.voter] \in {q.permission, NoHome} THEN Entitled(q) ELSE Idle]
    /\ UNCHANGED votes /\ RequestStep

\* The building the voter is registered in by now, which he may leave before his vote
\* is stored.
FindUserResidentBuilding(r) ==
    LET q == request[r] IN
    /\ q.pc = "castHome"
    /\ request' = [request EXCEPT ![r] = IF home[q.voter] = q.permission THEN Entitled(q) ELSE Idle]
    /\ UNCHANGED votes /\ RequestStep

UserVote(v, p) == {x \in VotesOn(p) : x.voter = v}

GetUserVote(r) ==
    LET q == request[r] IN
    /\ q.pc = "castFind"
    /\ request' = [request EXCEPT ![r] =
                     IF UserVote(q.voter, q.option.poll) = {}
                     THEN [q EXCEPT !.pc = "castInsert"] ELSE Idle]
    /\ UNCHANGED votes /\ RequestStep

\* Mutant: no unique index on Vote.
InsertableAgain(q) == q.voter \in members /\ OptionExists(q.option)
\* The foreign keys and the unique index (userId, pollId) decide.
Insertable(q) ==
    /\ q.voter \in members /\ OptionExists(q.option)
    /\ UserVote(q.voter, q.option.poll) = {}

InsertVote(r) ==
    LET q == request[r] IN
    /\ q.pc = "castInsert"
    /\ votes' = IF Insertable(q)
                THEN votes \cup {[voter |-> q.voter, option |-> q.option, createdAt |-> now]}
                ELSE votes
    /\ request' = [request EXCEPT ![r] = Idle]
    /\ RequestStep

CancelVote(r, v, o) ==
    /\ request[r] = Idle
    /\ OptionExists(o)
    /\ request' = [request EXCEPT ![r] = [pc |-> "cancelFind", voter |-> v, option |-> o]]
    /\ UNCHANGED votes /\ RequestStep

FindVoteToCancel(r) ==
    LET q == request[r] IN
    /\ q.pc = "cancelFind"
    /\ request' = [request EXCEPT ![r] =
                     IF \E x \in UserVote(q.voter, q.option.poll) : x.option = q.option
                     THEN [q EXCEPT !.pc = "cancelDelete"] ELSE Idle]
    /\ UNCHANGED votes /\ RequestStep

\* Mutant: the condition on the voter is forgotten.
DeleteVotesOfPoll(r) ==
    LET q == request[r] IN
    /\ q.pc = "cancelDelete"
    /\ votes' = votes \ VotesOn(q.option.poll)
    /\ request' = [request EXCEPT ![r] = Idle]
    /\ RequestStep

\* deleteMany by voter and poll, whatever the option is by now.
DeleteVote(r) ==
    LET q == request[r] IN
    /\ q.pc = "cancelDelete"
    /\ votes' = votes \ UserVote(q.voter, q.option.poll)
    /\ request' = [request EXCEPT ![r] = Idle]
    /\ RequestStep

DeleteUser(v) ==
    /\ v \in members
    /\ members' = members \ {v}
    /\ home' = [home EXCEPT ![v] = NoHome]
    /\ votes' = {x \in votes : x.voter # v}
    /\ UNCHANGED <<now, apartment, poll, notices, admin, request, run, edits, faults, raced, autoClosed>>

\* updateResident and deleteResident, and the approvals that link an account to its
\* roster entry: whatever polls and requests there are, the voter's building changes.
Move(v) ==
    /\ apartment /\ v \in members
    /\ edits < MaxEdits
    /\ \E b \in (Buildings \cup {NoHome}) \ {home[v]} : home' = [home EXCEPT ![v] = b]
    /\ edits' = edits + 1
    /\ UNCHANGED <<now, apartment, members, poll, votes, notices, admin, request, run, faults,
                   raced, autoClosed>>

\* deleteAdmin: the boards of the apartment go, and polls and notices with them; so
\* does its roster.
DeleteApartment ==
    /\ apartment
    /\ apartment' = FALSE
    /\ home' = [v \in Voters |-> NoHome]
    /\ poll' = [p \in Polls |-> IF Exists(p) THEN NoPoll("DELETED") ELSE poll[p]]
    /\ votes' = {}
    /\ notices' = [p \in Polls |-> <<>>]
    /\ UNCHANGED <<now, members, admin, request, run, edits, faults, raced, autoClosed>>

-----------------------------------------------------------------------------
(* runSchedule: one execution of it at a time per process, unless the      *)
(* previous one has outlived the minute.                                   *)

RunStep == UNCHANGED <<now, apartment, members, home, votes, admin, request, edits>>

\* Mutants: only the polls of this very minute; polls ending now; closed polls again.
StartedThisMinute(p) == poll[p].status = "PENDING" /\ poll[p].startDate = now
EndedOrEnding(p) == poll[p].status = "IN_PROGRESS" /\ poll[p].endDate <= now
EndedOrClosed(p) == poll[p].status \in {"IN_PROGRESS", "CLOSED"} /\ poll[p].endDate < now
Started(p) == poll[p].status = "PENDING" /\ poll[p].startDate <= now
Ended(p) == poll[p].status = "IN_PROGRESS" /\ poll[p].endDate < now

FindPendingToStart(s) ==
    /\ run[s] = Idle
    /\ run' = [run EXCEPT ![s] =
                 [pc |-> "starting",
                  todo |-> {[poll |-> p, seen |-> poll[p]] : p \in {p \in Polls : Started(p)}}]]
    /\ UNCHANGED <<poll, notices, faults, raced, autoClosed>> /\ RunStep

\* updatePollStatus writes whatever the row has become; a missing row ends the run.
StartPoll(s, f) ==
    /\ run[s].pc = "starting"
    /\ f \in run[s].todo
    /\ \/ /\ Exists(f.poll)
          /\ Overwrite(f.poll, f.seen, [poll[f.poll] EXCEPT !.status = "IN_PROGRESS"])
          /\ run' = [run EXCEPT ![s] = [pc |-> "starting", todo |-> run[s].todo \ {f}]]
       \/ /\ ~Exists(f.poll)
          /\ run' = [run EXCEPT ![s] = Idle]
          /\ UNCHANGED <<poll, raced>>
    /\ UNCHANGED <<notices, faults, autoClosed>> /\ RunStep

\* Mutant: the query leaves out the vote counts.
FindToCloseUncounted(s) ==
    /\ run[s].pc = "starting"
    /\ run[s].todo = {}
    /\ run' = [run EXCEPT ![s] =
                 [pc |-> "closing",
                  todo |-> {[poll |-> p, seen |-> poll[p]] : p \in {p \in Polls : Ended(p)}}]]
    /\ UNCHANGED <<poll, notices, faults, raced, autoClosed>> /\ RunStep

FindInProgressToClose(s) ==
    /\ run[s].pc = "starting"
    /\ run[s].todo = {}
    /\ run' = [run EXCEPT ![s] =
                 [pc |-> "closing",
                  todo |-> {[poll |-> p, seen |-> poll[p], tally |-> TallyOf(p)] :
                              p \in {p \in Polls : Ended(p)}}]]
    /\ UNCHANGED <<poll, notices, faults, raced, autoClosed>> /\ RunStep

\* Mutant: no notice for a poll without votes.
ClosePollQuietly(s, f) ==
    /\ run[s].pc = "closing"
    /\ f \in run[s].todo
    /\ Exists(f.poll)
    /\ Overwrite(f.poll, f.seen, [poll[f.poll] EXCEPT !.status = "CLOSED"])
    /\ autoClosed' = autoClosed \cup {f.poll}
    /\ run' = [run EXCEPT ![s] = IF \A c \in Choices : f.tally[c] = 0
                                 THEN [pc |-> "closing", todo |-> run[s].todo \ {f}]
                                 ELSE [pc |-> "announcing", todo |-> run[s].todo \ {f},
                                       closed |-> f]]
    /\ UNCHANGED <<notices, faults>> /\ RunStep

ClosePoll(s, f) ==
    /\ run[s].pc = "closing"
    /\ f \in run[s].todo
    /\ \/ /\ Exists(f.poll)
          /\ Overwrite(f.poll, f.seen, [poll[f.poll] EXCEPT !.status = "CLOSED"])
          /\ autoClosed' = autoClosed \cup {f.poll}
          /\ run' = [run EXCEPT ![s] = [pc |-> "announcing", todo |-> run[s].todo \ {f},
                                        closed |-> f]]
       \/ /\ ~Exists(f.poll)
          /\ run' = [run EXCEPT ![s] = Idle]
          /\ UNCHANGED <<poll, raced, autoClosed>>
    /\ UNCHANGED <<notices, faults>> /\ RunStep

\* prisma.notice.create, with the tally read by findInProgressToClose.  Every apartment
\* has a NOTICE board as long as it exists.
CreateResultNotice(s) ==
    /\ run[s].pc = "announcing"
    /\ \/ /\ apartment
          /\ notices' = [notices EXCEPT ![run[s].closed.poll] = Append(@, run[s].closed.tally)]
          /\ run' = [run EXCEPT ![s] = [pc |-> "closing", todo |-> run[s].todo]]
       \/ /\ ~apartment
          /\ run' = [run EXCEPT ![s] = Idle]
          /\ UNCHANGED notices
    /\ UNCHANGED <<poll, faults, raced, autoClosed>> /\ RunStep

FinishRun(s) ==
    /\ run[s].pc = "closing"
    /\ run[s].todo = {}
    /\ run' = [run EXCEPT ![s] = Idle]
    /\ UNCHANGED <<poll, notices, faults, raced, autoClosed>> /\ RunStep

\* A call throws, and the outer catch block ends the run, or the process dies.
AbortRun(s) ==
    /\ run[s] # Idle
    /\ faults < MaxFaults
    /\ faults' = faults + 1
    /\ run' = [run EXCEPT ![s] = Idle]
    /\ UNCHANGED <<poll, notices, raced, autoClosed>> /\ RunStep

Tick ==
    /\ now < Horizon
    /\ now' = now + 1
    /\ UNCHANGED <<apartment, members, home, poll, votes, notices, admin, request, run, edits,
                   faults, raced, autoClosed>>

AdminStep(a) ==
    \/ \E pc \in {"update", "delete"} : FindPollById(a, pc)
    \/ UpdatePoll(a)
    \/ DeletePoll(a)
VoterStep(r) ==
    \/ \E v \in Voters, p \in Polls, c \in Choices :
         LET o == [poll |-> p, edition |-> poll[p].edition, choice |-> c]
         IN  CastVote(r, v, o) \/ CancelVote(r, v, o)
    \/ FindUserResidentBuilding(r)
    \/ GetUserVote(r)
    \/ InsertVote(r)
    \/ FindVoteToCancel(r)
    \/ DeleteVote(r)
SchedulerStep(s) ==
    \/ FindPendingToStart(s)
    \/ run[s].pc = "starting" /\ \E f \in run[s].todo : StartPoll(s, f)
    \/ FindInProgressToClose(s)
    \/ run[s].pc = "closing" /\ \E f \in run[s].todo : ClosePoll(s, f)
    \/ CreateResultNotice(s)
    \/ FinishRun(s)

Next ==
    \/ \E p \in Polls : CreatePoll(p)
    \/ \E a \in Admins : AdminStep(a)
    \/ \E r \in Requests : VoterStep(r)
    \/ \E v \in Voters : DeleteUser(v) \/ Move(v)
    \/ DeleteApartment
    \/ \E s \in Runs : SchedulerStep(s) \/ AbortRun(s)
    \/ Tick

Spec == Init /\ [][Next]_vars

\* Time passes and setInterval keeps firing; nobody has to vote or to administrate.
Fairness == WF_vars(Tick) /\ \A s \in Runs : WF_vars(SchedulerStep(s))
FairSpec == Spec /\ Fairness

-----------------------------------------------------------------------------
(* Properties.  Several are about polls outside raced: what holds as long  *)
(* as every write to the poll finds the row that led to it, which neither  *)
(* the services nor the scheduler ensure.                                  *)

\* Every table and every request keeps to its columns and program points.
TypeOK ==
    /\ now \in Time /\ apartment \in BOOLEAN /\ members \subseteq Voters
    /\ home \in [Voters -> Buildings \cup {NoHome}]
    /\ poll \in [Polls -> Row]
    /\ votes \subseteq Vote /\ IsFiniteSet(votes)
    /\ notices \in [Polls -> Seq(Tally)]
    /\ admin \in [Admins -> AdminState]
    /\ request \in [Requests -> RequestState]
    /\ run \in [Runs -> RunState]
    /\ edits \in 0..MaxEdits /\ faults \in 0..MaxFaults
    /\ raced \subseteq Polls /\ autoClosed \subseteq Polls

\* castVote and updatePoll: two concurrent votes of one voter never both count, and
\* no vote outlives the option or the user it refers to.
BallotBox ==
    /\ \A x, y \in votes : x.voter = y.voter /\ x.option.poll = y.option.poll => x = y
    /\ \A x \in votes : x.voter \in members /\ OptionExists(x.option)

\* updatePoll: an edit of one date is validated against the other date as read, and that
\* suffices to keep the dates in order.
DatesInOrder == \A p \in Polls \ raced : Exists(p) => poll[p].startDate < poll[p].endDate

\* runSchedule: a poll's result is announced once, and only when it is closed.
OneResultNotice ==
    \A p \in Polls \ raced :
        /\ Len(notices[p]) <= 1
        /\ notices[p] # <<>> => poll[p].status = "CLOSED"

\* findInProgressToClose: an announced result counts every vote cast by the end date
\* and not withdrawn since, although it was read before the poll was closed.
VotesInTimeCount ==
    \A p \in Polls \ raced : \A i \in DOMAIN notices[p] : \A c \in Choices :
        Cardinality({x \in VotesOn(p) : x.option.choice = c /\ x.createdAt <= poll[p].endDate})
            <= notices[p][i][c]

\* runSchedule: without failures, a poll the scheduler closed has its result announced,
\* or a run is about to; deletions that end runs early do not interfere.
ClosedIsAnnounced ==
    \A p \in autoClosed :
        \/ notices[p] # <<>>
        \/ \E s \in Runs : run[s].pc = "announcing" /\ run[s].closed.poll = p
        \/ ~apartment
        \/ faults > 0

Rank(status) ==
    CASE status = "NONE" -> 0 [] status = "PENDING" -> 1 [] status = "IN_PROGRESS" -> 2
      [] status = "CLOSED" -> 3 [] status = "DELETED" -> 4

Moves(p) ==
    /\ Rank(poll[p].status) <= Rank(poll'[p].status)
    /\ poll[p].status \in {"IN_PROGRESS", "CLOSED"} =>
         \E s \in {"IN_PROGRESS", "CLOSED"} : poll'[p] = [poll[p] EXCEPT !.status = s]

\* updatePoll and updatePollStatus: a poll never returns to an earlier status, and once
\* it has started neither its dates, permission and options change nor is it deleted,
\* unless its apartment is.
StartedIsSettled == [][\A p \in Polls : p \notin raced' /\ apartment' => Moves(p)]_vars

Withdraws(x) ==
    \E r \in Requests : /\ request[r].pc = "cancelDelete" /\ request[r].voter = x.voter
                        /\ request'[r] = Idle

\* A vote leaves the box only when its voter withdraws it or is deleted, or with
\* the apartment.
VotesAreKept ==
    [][\A x \in votes \ votes' :
         \/ x.option.poll \in raced'
         \/ x.voter \notin members' \/ ~apartment'
         \/ Withdraws(x)]_vars

\* findPendingToStart and findInProgressToClose: every poll gets closed, whatever
\* failures, late edits and overlapping runs come in between.
EventuallyClosed == \A p \in Polls : Exists(p) ~> (~Exists(p) \/ poll[p].status = "CLOSED")

\* What PollBallot knows of these tables and requests, but for polls in raced.
Asking(p, points) ==
    {request[r].voter : r \in {r \in Requests : request[r].pc \in points /\ request[r].option.poll = p}}
Ballots(p) == {[voter |-> x.voter, choice |-> x.option.choice, late |-> x.createdAt > poll[p].endDate] :
                 x \in VotesOn(p)}
Visible(p) == p \notin raced /\ Exists(p)

Stages == [p \in Polls |-> IF p \in raced THEN "SPOILT" ELSE poll[p].status]
Permissions == [p \in Polls |-> IF Visible(p) THEN poll[p].permission ELSE Everyone]
Queues == [p \in Polls |-> IF Visible(p) THEN Asking(p, {"castHome"}) ELSE {}]
Desks == [p \in Polls |-> IF Visible(p) THEN Asking(p, {"castFind", "castInsert"}) ELSE {}]
Boxes == [p \in Polls |-> IF p \in raced THEN {} ELSE Ballots(p)]
Results == [p \in Polls |-> IF p \in raced THEN <<>> ELSE notices[p]]

Rules == INSTANCE PollBallot WITH
    standing <- apartment, residents <- members, stage <- Stages, permission <- Permissions,
    queue <- Queues, desk <- Desks, box <- Boxes, result <- Results

\* poll.service and runSchedule hold polls by the rules of PollBallot: reads long before
\* the writes, racing requests, residents who move in between and overlapping, failing
\* runs add nothing to what happens in a poll that nobody overwrites unseen
\* (poll.service.ts:66-205, poll.scheduler.ts:6-62).
HeldByTheRules == Rules!Spec
=============================================================================
