------------------------------ MODULE PollBallot ------------------------------
(***************************************************************************)
(* What polls promise to residents, without requests, scheduler runs,      *)
(* option lists and dates: a poll is rewritten and scrapped only before it *)
(* starts; whoever asks while it runs, and is then found to live in the    *)
(* building it is for, gets to put one ballot in its box, lost only to its *)
(* voter; when it is closed, one result is declared that counts every      *)
(* ballot cast in time; and nothing that happens in one poll touches       *)
(* another.                                                                *)
(*                                                                         *)
(* Residents move.  Nobody looks again at where they live, neither when    *)
(* they put in their ballot nor when the ballots are counted.              *)
(*                                                                         *)
(* A poll may be spoilt, by a write of somebody who had read another row.  *)
(* Nothing is promised of it from then on.                                 *)
(***************************************************************************)
EXTENDS Naturals, FiniteSets

CONSTANTS Polls, Voters, Choices, Buildings, Everyone, NoHome

Ballot == [voter : Voters, choice : Choices, late : BOOLEAN]
Tally == [Choices -> 0 .. Cardinality(Voters)]

VARIABLES
    standing,    \* whether the apartment is there
    residents,   \* the voters who are
    home,        \* the building each of them lives in
    stage,       \* how far each poll has come
    permission,  \* the building it is for
    queue,       \* voters who have asked to vote in it
    desk,        \* voters who may put in their ballot
    box,         \* the ballots cast in it
    result       \* the results declared of it

people == <<standing, residents, home>>
hall == <<queue, desk>>
outcome == <<box, result>>
vars == <<standing, residents, home, stage, permission, queue, desk, box, result>>

Init ==
    /\ standing = TRUE /\ residents = Voters
    /\ home \in [Voters -> Buildings \cup {NoHome}]
    /\ stage = [p \in Polls |-> "NONE"]
    /\ permission = [p \in Polls |-> Everyone]
    /\ queue = [p \in Polls |-> {}] /\ desk = [p \in Polls |-> {}]
    /\ box = [p \in Polls |-> {}]
    /\ result = [p \in Polls |-> <<>>]

Enter(p, s, e) ==
    /\ stage' = [stage EXCEPT ![p] = s]
    /\ permission' = [permission EXCEPT ![p] = e]
    /\ UNCHANGED people

\* p is created, edited or started.
Draft(p) ==
    /\ standing /\ stage[p] \in {"NONE", "PENDING"}
    /\ \E s \in {"PENDING", "IN_PROGRESS", "CLOSED"}, e \in Buildings \cup {Everyone} : Enter(p, s, e)
    /\ UNCHANGED <<hall, outcome>>

Scrap(p) ==
    /\ stage[p] = "PENDING"
    /\ Enter(p, "DELETED", Everyone)
    /\ UNCHANGED <<hall, outcome>>

Close(p) ==
    /\ stage[p] = "IN_PROGRESS"
    /\ Enter(p, "CLOSED", permission[p])
    /\ UNCHANGED <<hall, outcome>>

Spoil(p) ==
    /\ stage[p] \in {"PENDING", "IN_PROGRESS", "CLOSED"}
    /\ Enter(p, "SPOILT", Everyone)
    /\ queue' = [queue EXCEPT ![p] = {}] /\ desk' = [desk EXCEPT ![p] = {}]
    /\ box' = [box EXCEPT ![p] = {}]
    /\ result' = [result EXCEPT ![p] = <<>>]

\* A request of v leaves a line of p, in which v may have another.
Dropping(line, p, v) == {line, [line EXCEPT ![p] = line[p] \ {v}]}

Ask(p, v) ==
    /\ stage[p] = "IN_PROGRESS"
    /\ IF permission[p] = Everyone
       THEN desk' = [desk EXCEPT ![p] = desk[p] \cup {v}] /\ UNCHANGED queue
       ELSE queue' = [queue EXCEPT ![p] = queue[p] \cup {v}] /\ UNCHANGED desk
    /\ UNCHANGED <<people, stage, permission, outcome>>

Admit(p, v) ==
    /\ v \in queue[p] /\ home[v] = permission[p]
    /\ desk' = [desk EXCEPT ![p] = desk[p] \cup {v}]
    /\ queue' \in Dropping(queue, p, v)
    /\ UNCHANGED <<people, stage, permission, outcome>>

\* v is turned away, has voted already or meets with an error.
GiveUp(p, v) ==
    /\ queue' \in Dropping(queue, p, v) /\ desk' \in Dropping(desk, p, v)
    /\ UNCHANGED <<people, stage, permission, outcome>>

Cast(p, b) ==
    /\ stage[p] \in IF b.late THEN {"IN_PROGRESS", "CLOSED"} ELSE {"IN_PROGRESS"}
    /\ b.voter \in desk[p] \cap residents
    /\ \A a \in box[p] : a.voter # b.voter
    /\ box' = [box EXCEPT ![p] = box[p] \cup {b}]
    /\ desk' \in Dropping(desk, p, b.voter)
    /\ UNCHANGED <<people, stage, permission, queue, result>>

Withdraw(p, v) ==
    /\ box' = [box EXCEPT ![p] = {b \in box[p] : b.voter # v}]
    /\ UNCHANGED <<people, stage, permission, hall, result>>

InTime(p, c) == {b \in box[p] : b.choice = c /\ ~b.late}

Declare(p, t) ==
    /\ standing /\ stage[p] = "CLOSED" /\ result[p] = <<>>
    /\ \A c \in Choices : Cardinality(InTime(p, c)) <= t[c]
    /\ result' = [result EXCEPT ![p] = <<t>>]
    /\ UNCHANGED <<people, stage, permission, hall, box>>

Move(v) ==
    /\ standing /\ v \in residents
    /\ \E b \in Buildings \cup {NoHome} : home' = [home EXCEPT ![v] = b]
    /\ UNCHANGED <<standing, residents, stage, permission, hall, outcome>>

Leave(v) ==
    /\ residents' = residents \ {v}
    /\ home' = [home EXCEPT ![v] = NoHome]
    /\ box' = [p \in Polls |-> {b \in box[p] : b.voter # v}]
    /\ UNCHANGED <<standing, stage, permission, hall, result>>

Dissolve ==
    /\ standing' = FALSE
    /\ home' = [v \in Voters |-> NoHome]
    /\ stage' = [p \in Polls |-> IF stage[p] \in {"NONE", "SPOILT"} THEN stage[p] ELSE "DELETED"]
    /\ permission' = [p \in Polls |-> Everyone]
    /\ queue' = [p \in Polls |-> {}] /\ desk' = [p \in Polls |-> {}]
    /\ box' = [p \in Polls |-> {}]
    /\ result' = [p \in Polls |-> <<>>]
    /\ UNCHANGED residents

Next ==
    \/ \E p \in Polls :
         \/ Draft(p) \/ Scrap(p) \/ Close(p) \/ Spoil(p)
         \/ \E v \in Voters : Ask(p, v) \/ Admit(p, v) \/ GiveUp(p, v) \/ Withdraw(p, v)
         \/ \E b \in Ballot : Cast(p, b)
         \/ \E t \in Tally : Declare(p, t)
    \/ \E v \in Voters : Move(v) \/ Leave(v)
    \/ Dissolve

Spec == Init /\ [][Next]_vars
=============================================================================
