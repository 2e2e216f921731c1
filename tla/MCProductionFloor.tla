-------------------------- MODULE MCProductionFloor --------------------------
(* Small instances of ProductionFloor for TLC. *)
EXTENDS ProductionFloor, TLC

CONSTANTS A, B, m, o, p1, p2

OnePlan == {A}
TwoPlans == {A, B}
Keys1 == 1..1
Keys2 == 1..2
Keys3 == 1..3
AllOfA == <<A>>            \* one line
BothOfA == <<A, A>>        \* two lines of one plan
TwoOfA == <<A, A, B>>      \* two lines of one plan, one of another
One == <<1>>
OneTwo == <<1, 2>>
Ones3 == <<1, 1, 1>>

NoneUnderway == <<>>
FirstUnderway == <<1>>
BothUnderway == <<1, 2>>
Member == {m}
WithOfficer == {m, o}
TheOfficer == {o}
NoOfficer == {}
OneWorker == {p1}
Workers == {p1, p2}

JobOps == {"board", "create", "claim", "status", "cancel", "edit", "deliver", "push",
           "lead", "archive", "release"}
ClaimOps == {"deliver", "reserve", "setplan", "recount"}
PushOps == {"push"}
RaceOps == {"deliver", "reserve", "setplan"}
OwnClaimOps == {"push", "reserve", "board"}
EditOps == {"create", "claim", "edit", "recount"}
PlainOps == {"push", "claim", "deliver"}

\* Workers are interchangeable.
WorkerSymmetry == Permutations(Workers)
=============================================================================
