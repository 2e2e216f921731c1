------------------------ MODULE ProductionFloorProofs ------------------------
(***************************************************************************)
(* Proofs about ProductionFloor, for every number of plans, lines, jobs,   *)
(* claims, pilots and workers, every bound, with and without crashes.      *)
(*                                                                         *)
(* What makes the types inductive is that keys are handed out in order (an *)
(* insert never overwrites a job) and that a request names a job that      *)
(* exists, however long ago it was read.                                   *)
(***************************************************************************)
EXTENDS ProductionFloor, TotalsProofs

-----------------------------------------------------------------------------
(* Keys in order: the ranks of a finite set of numbers                     *)

LEMMA RankRange ==
    ASSUME NEW S \in SUBSET Nat, IsFiniteSet(S), NEW x \in S
    PROVE  Rank(x, S) \in 1..Cardinality(S)
<1> DEFINE T == {y \in S : y <= x}
<1>1. T \in SUBSET S /\ x \in T
  OBVIOUS
<1>2. IsFiniteSet(T) /\ Cardinality(T) <= Cardinality(S)
  BY <1>1, FS_Subset
<1>3. Cardinality(T) # 0
  BY <1>1, <1>2, FS_EmptySet
<1>4. Cardinality(T) \in Nat /\ Cardinality(S) \in Nat
  BY <1>2, FS_CardinalityType
<1>5. Rank(x, S) = Cardinality(T)
  BY DEF Rank
<1> HIDE DEF T
<1> QED BY <1>2, <1>3, <1>4, <1>5

\* A larger element has a larger rank.
LEMMA RankGrows ==
    ASSUME NEW S \in SUBSET Nat, IsFiniteSet(S), NEW x \in S, NEW y \in S, x < y
    PROVE  Rank(x, S) < Rank(y, S)
<1> DEFINE T == {z \in S : z <= x}
           U == {z \in S : z <= y}
<1>1. T \in SUBSET U /\ T # U /\ U \in SUBSET S
  <2>1. x \in Nat /\ y \in Nat
    OBVIOUS
  <2>2. y \in U /\ y \notin T
    BY <2>1
  <2>3. \A z \in S : z <= x => z <= y
    BY <2>1
  <2> QED BY <2>2, <2>3
<1>2. IsFiniteSet(U)
  BY <1>1, FS_Subset
<1>3. IsFiniteSet(T) /\ Cardinality(T) <= Cardinality(U) /\ Cardinality(T) # Cardinality(U)
  BY <1>1, <1>2, FS_Subset
<1>4. Cardinality(T) \in Nat /\ Cardinality(U) \in Nat
  BY <1>2, <1>3, FS_CardinalityType
<1>5. Rank(x, S) = Cardinality(T) /\ Rank(y, S) = Cardinality(U)
  BY DEF Rank
<1> HIDE DEF T, U
<1> QED BY <1>3, <1>4, <1>5

\* Ranks number the elements from 1 to their count.
LEMMA RankOnto ==
    ASSUME NEW S \in SUBSET Nat, IsFiniteSet(S)
    PROVE  /\ \A x \in S, y \in S : Rank(x, S) = Rank(y, S) => x = y
           /\ \A i \in 1..Cardinality(S) : \E x \in S : Rank(x, S) = i
<1> DEFINE f == [x \in S |-> Rank(x, S)]
           N == 1..Cardinality(S)
<1>1. Cardinality(S) \in Nat
  BY FS_CardinalityType
<1>2. IsFiniteSet(N) /\ Cardinality(N) = Cardinality(S)
  BY <1>1, FS_Interval
<1>3. \A x \in S, y \in S : Rank(x, S) = Rank(y, S) => x = y
  <2> SUFFICES ASSUME NEW x \in S, NEW y \in S, Rank(x, S) = Rank(y, S), x # y PROVE FALSE
    OBVIOUS
  <2>1. x \in Nat /\ y \in Nat
    OBVIOUS
  <2>2. Rank(x, S) \in Nat /\ Rank(y, S) \in Nat
    BY <1>1, RankRange
  <2>3. x < y \/ y < x
    BY <2>1
  <2> QED BY <2>2, <2>3, RankGrows
<1>4. f \in Injection(S, N)
  BY <1>3, RankRange DEF Injection, IsInjective
<1>5. f \in Surjection(S, N)
  <2> HIDE DEF f, N
  <2> QED BY <1>2, <1>4, FS_Injection
<1>6. \A i \in N : \E x \in S : f[x] = i
  <2> HIDE DEF f, N
  <2> QED BY <1>5 DEF Surjection
<1> QED BY <1>3, <1>6

\* A finite set of numbers that is not empty has a last element.
LEMMA LastExists ==
    ASSUME NEW S \in SUBSET Nat, IsFiniteSet(S), S # {}
    PROVE  \E m \in S : \A x \in S : x <= m
<1>1. Cardinality(S) \in Nat /\ Cardinality(S) # 0
  BY FS_CardinalityType, FS_EmptySet
<1>2. PICK m \in S : Rank(m, S) = Cardinality(S)
  BY <1>1, RankOnto
<1> SUFFICES ASSUME NEW x \in S, ~(x <= m) PROVE FALSE
  BY <1>2
<1>3. m < x
  OBVIOUS
<1>4. Rank(m, S) < Rank(x, S) /\ Rank(x, S) \in 1..Cardinality(S)
  BY <1>3, RankGrows, RankRange
<1> QED BY <1>1, <1>2, <1>4

-----------------------------------------------------------------------------
(* The inductive invariant                                                 *)

\* Job keys are handed out in order.
KeysInOrder == Jobs = 1..Cardinality(Jobs)

\* A step carries a request of its own kind, about a job that exists.
Fits(step, request, jobs) ==
    /\ step \in {"recheck", "claim"} => request \in RecheckReq
    /\ step = "set" => request \in SetReq
    /\ step = "edit" => request \in EditReq
    /\ step \in {"lock", "deliver"} => request \in DeliverReq
    /\ step \in {"read", "push"} => request \in PushReq
    /\ step = "lead" => request \in LeadReq
    /\ step \in {"save", "list", "release"} => request \in ReleaseReq
    /\ step = "save" => request.op = "archive" \/ request.to \in PlanStatus
    /\ step \in {"lockplan", "reserve"} => request \in ReserveReq
    /\ step \in {"recheck", "claim", "set", "edit", "lock", "deliver"}
          => request.job \in jobs
StepsMatch == \A p \in Proc : Fits(pc[p], req[p], Jobs)

FloorInv == TypeOK /\ KeysInOrder /\ StepsMatch

\* What every step keeps of a job: its owner and its plan line.
JobsKept ==
    \A j \in Job :
        /\ job[j].status # "none" => job'[j].line = job[j].line
        /\ job[j].owner # Nobody => job'[j].owner = job[j].owner

LEMMA KeySets ==
    /\ IsFiniteSet(Line) /\ IsFiniteSet(Row) /\ IsFiniteSet(Job) /\ IsFiniteSet(Claim)
    /\ Line \subseteq Nat /\ Row \subseteq Nat /\ Job \subseteq Nat /\ Claim \subseteq Nat
    /\ Line = 1..Cardinality(Line) /\ Row = 1..Cardinality(Row)
    /\ Job = 1..Cardinality(Job) /\ Claim = 1..Cardinality(Claim)
<1>1. ASSUME NEW K \in {Line, Row, Job, Claim}
      PROVE  IsFiniteSet(K) /\ K = 1..Cardinality(K) /\ K \subseteq Nat
  <2>1. IsFiniteSet(K) /\ K = 1..Cardinality(K)
    BY KeyAssumption
  <2>2. Cardinality(K) \in Nat
    BY <2>1, FS_CardinalityType
  <2>3. 1..Cardinality(K) \subseteq Nat
    BY <2>2
  <2> QED BY <2>1, <2>3
<1> QED BY <1>1

LEMMA JobsFinite == IsFiniteSet(Jobs) /\ Cardinality(Jobs) \in Nat /\ Jobs \subseteq Job
<1>1. Jobs \in SUBSET Job
  BY DEF Jobs
<1> QED BY <1>1, KeySets, FS_Subset, FS_CardinalityType

\* A job that exists is a row; one that does not has neither owner nor quantity.
LEMMA JobShape ==
    ASSUME StoreType
    PROVE  /\ \A j \in Jobs : job[j] \in JobRow
           /\ \A j \in Job \ Jobs : job[j] = NoJob
<1>1. "none" \notin JobStatus
  BY DEF JobStatus, Startable, Finished
<1> QED BY <1>1 DEF StoreType, Jobs, JobRow, NoJob

\* A worker's step changes its own program counter and request only.
LEMMA StepSafe ==
    ASSUME FloorInv, Jobs \subseteq Jobs', NEW p \in Proc,
           NEW step \in Step, NEW request \in Request, Fits(step, request, Jobs'),
           pc' = [pc EXCEPT ![p] = step], req' = [req EXCEPT ![p] = request]
    PROVE  /\ pc' \in [Proc -> Step] /\ req' \in [Proc -> Request] /\ StepsMatch'
<1>1. pc' \in [Proc -> Step] /\ req' \in [Proc -> Request]
  BY DEF FloorInv, TypeOK, WorkerType
<1>2. ASSUME NEW q \in Proc PROVE Fits(pc'[q], req'[q], Jobs')
  <2>1. CASE q = p
    BY <2>1 DEF FloorInv, TypeOK, WorkerType
  <2>2. CASE q # p
    <3>1. pc'[q] = pc[q] /\ req'[q] = req[q]
      BY <2>2 DEF FloorInv, TypeOK, WorkerType
    <3>2. Fits(pc[q], req[q], Jobs)
      BY DEF FloorInv, StepsMatch
    <3> QED BY <3>1, <3>2 DEF Fits
  <2> QED BY <2>1, <2>2
<1> QED BY <1>1, <1>2 DEF StepsMatch

\* A worker that is done.
LEMMA DoneSafe ==
    ASSUME FloorInv, Jobs \subseteq Jobs', NEW p \in Proc, Done(p)
    PROVE  /\ pc' \in [Proc -> Step] /\ req' \in [Proc -> Request] /\ StepsMatch'
<1>1. "idle" \in Step /\ NoReq \in Request
  BY DEF Step, Request
<1>2. Fits("idle", NoReq, Jobs')
  BY DEF Fits
<1> QED BY <1>1, <1>2, StepSafe DEF Done, Goto

\* A worker that goes on with the request it has.
LEMMA GotoSafe ==
    ASSUME FloorInv, Jobs \subseteq Jobs', NEW p \in Proc, NEW step \in Step,
           Goto(p, step), UNCHANGED req, Fits(step, req[p], Jobs)
    PROVE  /\ pc' \in [Proc -> Step] /\ req' \in [Proc -> Request] /\ StepsMatch'
<1>1. req[p] \in Request
  BY DEF FloorInv, TypeOK, WorkerType
<1>2. req' = [req EXCEPT ![p] = req[p]]
  BY DEF FloorInv, TypeOK, WorkerType
<1>3. Fits(step, req[p], Jobs')
  BY DEF Fits
<1> DEFINE r == req[p]
<1>4. r \in Request /\ req' = [req EXCEPT ![p] = r] /\ Fits(step, r, Jobs')
  BY <1>1, <1>2, <1>3
<1> HIDE DEF r
<1> QED BY <1>4, StepSafe DEF Goto

\* A step that leaves the jobs alone.
LEMMA SameJobs ==
    ASSUME FloorInv, UNCHANGED job
    PROVE  Jobs' = Jobs /\ KeysInOrder' /\ JobsKept
BY DEF FloorInv, KeysInOrder, Jobs, JobsKept

\* A request that begins, on a job that exists if it is about one.
LEMMA BeginSafe ==
    ASSUME FloorInv, NEW p \in Proc, NEW step \in Step, NEW request \in Request,
           Fits(step, request, Jobs), Begin(p, step, request)
    PROVE  FloorInv' /\ JobsKept
<1>1. UNCHANGED <<board, plans, goods, locks>> /\ Keep(p, step, request)
  BY DEF Begin
<1>2. Jobs' = Jobs /\ KeysInOrder' /\ JobsKept
  BY <1>1, SameJobs DEF board
<1>3. Fits(step, request, Jobs')
  BY <1>2
<1>4. pc' \in [Proc -> Step] /\ req' \in [Proc -> Request] /\ StepsMatch'
  BY <1>1, <1>2, <1>3, StepSafe DEF Keep, Goto
<1> QED
  BY <1>1, <1>2, <1>4
  DEF FloorInv, TypeOK, StoreType, WorkerType, board, plans, goods, locks

-----------------------------------------------------------------------------
(* Requests on jobs                                                        *)

LEMMA StartSafe ==
    ASSUME FloorInv, NEW p \in Proc,
           StartBoard(p) \/ StartClaim(p) \/ StartStatus(p) \/ StartCancel(p)
             \/ StartEdit(p) \/ StartDeliver(p)
    PROVE  FloorInv' /\ JobsKept
<1> USE DEF Fits, Step, Request
<1>1. \A j \in Jobs : j \in Job /\ job[j] \in JobRow
  BY JobShape, JobsFinite DEF FloorInv, TypeOK
<1>2. CASE StartBoard(p)
  <2>1. PICK j \in Jobs : \E u \in User :
            Begin(p, "recheck", [op |-> "board", job |-> j, user |-> u,
                                 seen |-> job[j].status, qty |-> job[j].qty])
    BY <1>2 DEF StartBoard
  <2>2. PICK u \in User :
            Begin(p, "recheck", [op |-> "board", job |-> j, user |-> u,
                                 seen |-> job[j].status, qty |-> job[j].qty])
    BY <2>1
  <2> DEFINE r == [op |-> "board", job |-> j, user |-> u,
                   seen |-> job[j].status, qty |-> job[j].qty]
  <2>3. r \in RecheckReq /\ r.job \in Jobs
    BY <1>1 DEF RecheckReq, JobRow
  <2> HIDE DEF r
  <2> QED BY <2>2, <2>3, BeginSafe DEF r
<1>3. CASE StartClaim(p)
  <2>1. PICK j \in Jobs : \E u \in User :
            Begin(p, "recheck", [op |-> "claim", job |-> j, user |-> u,
                                 seen |-> job[j].status, qty |-> job[j].qty])
    BY <1>3 DEF StartClaim
  <2>2. PICK u \in User :
            Begin(p, "recheck", [op |-> "claim", job |-> j, user |-> u,
                                 seen |-> job[j].status, qty |-> job[j].qty])
    BY <2>1
  <2> DEFINE r == [op |-> "claim", job |-> j, user |-> u,
                   seen |-> job[j].status, qty |-> job[j].qty]
  <2>3. r \in RecheckReq /\ r.job \in Jobs
    BY <1>1 DEF RecheckReq, JobRow
  <2> HIDE DEF r
  <2> QED BY <2>2, <2>3, BeginSafe DEF r
<1>4. CASE StartStatus(p) \/ StartCancel(p)
  <2>1. PICK j \in Jobs : \E u \in User, to \in JobStatus, op \in {"status", "cancel"} :
            Begin(p, "set", [op |-> op, job |-> j, user |-> u, to |-> to])
    <3>1. "cancelled" \in JobStatus
      BY DEF JobStatus, Finished
    <3> QED BY <1>4, <3>1 DEF StartStatus, StartCancel
  <2>2. PICK u \in User, to \in JobStatus, op \in {"status", "cancel"} :
            Begin(p, "set", [op |-> op, job |-> j, user |-> u, to |-> to])
    BY <2>1
  <2> DEFINE r == [op |-> op, job |-> j, user |-> u, to |-> to]
  <2>3. r \in SetReq /\ r.job \in Jobs
    BY <1>1 DEF SetReq
  <2> HIDE DEF r
  <2> QED BY <2>2, <2>3, BeginSafe DEF r
<1>5. CASE StartEdit(p)
  <2>1. PICK j \in Jobs : \E u \in User, q \in 1..MaxUnits :
            Begin(p, "edit", [op |-> "edit", job |-> j, user |-> u, qty |-> q])
    BY <1>5 DEF StartEdit
  <2>2. PICK u \in User, q \in 1..MaxUnits :
            Begin(p, "edit", [op |-> "edit", job |-> j, user |-> u, qty |-> q])
    BY <2>1
  <2> DEFINE r == [op |-> "edit", job |-> j, user |-> u, qty |-> q]
  <2>3. r \in EditReq /\ r.job \in Jobs
    BY <1>1 DEF EditReq
  <2> HIDE DEF r
  <2> QED BY <2>2, <2>3, BeginSafe DEF r
<1>6. CASE StartDeliver(p)
  <2>1. PICK j \in Jobs : \E u \in User :
            Begin(p, "lock", [op |-> "deliver", job |-> j, user |-> u, last |-> FALSE])
    BY <1>6 DEF StartDeliver
  <2>2. PICK u \in User :
            Begin(p, "lock", [op |-> "deliver", job |-> j, user |-> u, last |-> FALSE])
    BY <2>1
  <2> DEFINE r == [op |-> "deliver", job |-> j, user |-> u, last |-> FALSE]
  <2>3. r \in DeliverReq /\ r.job \in Jobs
    BY <1>1 DEF DeliverReq
  <2> HIDE DEF r
  <2> QED BY <2>2, <2>3, BeginSafe DEF r
<1> QED BY <1>2, <1>3, <1>4, <1>5, <1>6

\* The update of one existing job's row.
LEMMA RowSafe ==
    ASSUME FloorInv, NEW j \in Jobs, NEW row \in JobRow, job' = [job EXCEPT ![j] = row],
           row.line = job[j].line, job[j].owner # Nobody => row.owner = job[j].owner
    PROVE  /\ job' \in [Job -> {NoJob} \cup JobRow]
           /\ Jobs' = Jobs /\ KeysInOrder' /\ JobsKept
<1>1. job \in [Job -> {NoJob} \cup JobRow] /\ j \in Job
  BY JobsFinite DEF FloorInv, TypeOK, StoreType
<1>2. row.status # "none" /\ job[j].status # "none"
  BY DEF JobRow, JobStatus, Startable, Finished, Jobs
<1>3. Jobs' = Jobs
  <2>1. \A i \in Job : job'[i].status # "none" <=> job[i].status # "none"
    BY <1>1, <1>2
  <2> QED BY <2>1 DEF Jobs
<1>4. JobsKept
  BY <1>1 DEF JobsKept
<1> QED BY <1>1, <1>3, <1>4 DEF FloorInv, KeysInOrder

\* What a new status leaves of a row.
LEMMA Restatus ==
    ASSUME NEW j \in Jobs, job[j] \in JobRow, NEW to \in JobStatus
    PROVE  LET row == [job[j] EXCEPT !.status = to]
           IN  /\ row \in JobRow /\ row.line = job[j].line
               /\ row.owner = job[j].owner /\ row.qty = job[j].qty
BY DEF JobRow

LEMMA CreateSafe ==
    ASSUME FloorInv, NEW p \in Proc, StartCreate(p)
    PROVE  FloorInv' /\ JobsKept
<1>1. PICK u \in Officer, q \in 1..MaxUnits : \E j \in Job :
        /\ j = Cardinality(Jobs) + 1
        /\ job' = [job EXCEPT ![j] = [status |-> "queued", owner |-> Nobody, by |-> u,
                                      line |-> Nobody, qty |-> q]]
        /\ Keep(p, "recheck", [op |-> "create", job |-> j, user |-> u,
                               seen |-> "queued", qty |-> q])
        /\ UNCHANGED <<deliveries, plans, goods, locks>>
  BY DEF StartCreate
<1>2. PICK j \in Job :
        /\ j = Cardinality(Jobs) + 1
        /\ job' = [job EXCEPT ![j] = [status |-> "queued", owner |-> Nobody, by |-> u,
                                      line |-> Nobody, qty |-> q]]
        /\ Keep(p, "recheck", [op |-> "create", job |-> j, user |-> u,
                               seen |-> "queued", qty |-> q])
        /\ UNCHANGED <<deliveries, plans, goods, locks>>
  BY <1>1
<1> DEFINE row == [status |-> "queued", owner |-> Nobody, by |-> u, line |-> Nobody, qty |-> q]
           r == [op |-> "create", job |-> j, user |-> u, seen |-> "queued", qty |-> q]
<1>3. u \in User /\ "queued" \in JobStatus
  BY UserAssumption DEF JobStatus, Startable
<1>4. row \in JobRow /\ row.status # "none"
  BY <1>3 DEF JobRow
<1>5. r \in RecheckReq
  BY <1>3 DEF RecheckReq
<1>6. r.job = j /\ job' = [job EXCEPT ![j] = row] /\ Keep(p, "recheck", r)
  BY <1>2
<1> HIDE DEF row, r
<1>7. job \in [Job -> {NoJob} \cup JobRow] /\ Cardinality(Jobs) \in Nat
      /\ Jobs = 1..Cardinality(Jobs)
  BY JobsFinite DEF FloorInv, TypeOK, StoreType, KeysInOrder
<1>8. j \notin Jobs /\ job[j] = NoJob
  BY <1>2, <1>7, JobShape DEF FloorInv, TypeOK
<1>9. Jobs' = Jobs \cup {j}
  BY <1>4, <1>6, <1>7 DEF Jobs
<1>10. KeysInOrder'
  <2>1. Cardinality(Jobs \cup {j}) = Cardinality(Jobs) + 1
    BY <1>8, JobsFinite, FS_AddElement
  <2>2. Jobs \cup {j} = 1..(Cardinality(Jobs) + 1)
    BY <1>2, <1>7
  <2> QED BY <1>9, <2>1, <2>2 DEF KeysInOrder
<1>11. JobsKept
  BY <1>6, <1>7, <1>8 DEF JobsKept, NoJob, Deliverable
<1>12. Fits("recheck", r, Jobs') /\ "recheck" \in Step /\ r \in Request
  BY <1>5, <1>6, <1>9 DEF Fits, Step, Request
<1>13. pc' \in [Proc -> Step] /\ req' \in [Proc -> Request] /\ StepsMatch'
  BY <1>6, <1>9, <1>12, StepSafe DEF Keep, Goto
<1>14. job' \in [Job -> {NoJob} \cup JobRow]
  BY <1>4, <1>6, <1>7
<1> QED
  BY <1>2, <1>10, <1>11, <1>13, <1>14
  DEF FloorInv, TypeOK, StoreType, WorkerType, plans, goods, locks

\* A step that rewrites at most one job's row, after which the worker is done.
LEMMA WriteSafe ==
    ASSUME FloorInv, NEW p \in Proc, Done(p), NEW j \in Jobs, NEW row \in JobRow,
           job' = [job EXCEPT ![j] = row] \/ UNCHANGED job,
           row.line = job[j].line, job[j].owner # Nobody => row.owner = job[j].owner,
           UNCHANGED <<deliveries, plans, goods, locks>>
    PROVE  FloorInv' /\ JobsKept
<1>1. /\ job' \in [Job -> {NoJob} \cup JobRow]
      /\ Jobs' = Jobs /\ KeysInOrder' /\ JobsKept
  BY RowSafe, SameJobs DEF FloorInv, TypeOK, StoreType
<1>2. pc' \in [Proc -> Step] /\ req' \in [Proc -> Request] /\ StepsMatch'
  BY <1>1, DoneSafe
<1> QED
  BY <1>1, <1>2 DEF FloorInv, TypeOK, StoreType, WorkerType, plans, goods, locks

LEMMA RecheckSafe ==
    ASSUME FloorInv, NEW p \in Proc, Recheck(p)
    PROVE  FloorInv' /\ JobsKept
<1> DEFINE j == req[p].job
           seen == req[p].seen
           verdict == IF seen \in Startable THEN Verdict(req[p].qty) ELSE seen
           row == [job[j] EXCEPT !.status = verdict]
<1>1. req[p] \in RecheckReq /\ j \in Jobs
  BY DEF FloorInv, StepsMatch, Fits, Recheck
<1>2. verdict \in JobStatus
  BY <1>1 DEF RecheckReq, Verdict, JobStatus, Startable
<1>3. job[j] \in JobRow
  BY <1>1, JobShape DEF FloorInv, TypeOK
<1>4. /\ row \in JobRow /\ row.line = job[j].line
      /\ row.owner = job[j].owner /\ row.qty = job[j].qty
  BY <1>1, <1>2, <1>3, Restatus
<1>5. job' = [job EXCEPT ![j] = row] \/ UNCHANGED job
  BY DEF Recheck
<1>6. UNCHANGED <<deliveries, plans, goods, locks>>
  BY DEF Recheck
<1>7. Done(p) \/ (Goto(p, "claim") /\ UNCHANGED req)
  BY DEF Recheck
<1> HIDE DEF row, verdict, seen
<1>8. CASE Done(p)
  BY <1>1, <1>4, <1>5, <1>6, <1>8, WriteSafe
<1>9. CASE Goto(p, "claim") /\ UNCHANGED req
  <2>1. /\ job' \in [Job -> {NoJob} \cup JobRow]
        /\ Jobs' = Jobs /\ KeysInOrder' /\ JobsKept
    BY <1>1, <1>4, <1>5, RowSafe, SameJobs DEF FloorInv, TypeOK, StoreType
  <2>2. Fits("claim", req[p], Jobs) /\ "claim" \in Step
    BY <1>1 DEF Fits, Step
  <2>3. pc' \in [Proc -> Step] /\ req' \in [Proc -> Request] /\ StepsMatch'
    BY <1>9, <2>1, <2>2, GotoSafe
  <2> QED
    BY <1>6, <2>1, <2>3 DEF FloorInv, TypeOK, StoreType, WorkerType, plans, goods, locks
<1> QED BY <1>7, <1>8, <1>9

LEMMA JobWriteSafe ==
    ASSUME FloorInv, NEW p \in Proc, ClaimJob(p) \/ SetStatus(p) \/ Edit(p)
    PROVE  FloorInv' /\ JobsKept
<1> DEFINE j == req[p].job
<1>0. j \in Jobs
  BY DEF FloorInv, StepsMatch, Fits, ClaimJob, SetStatus, Edit
<1>1. job[j] \in JobRow
  BY <1>0, JobShape DEF FloorInv, TypeOK
<1>2. CASE ClaimJob(p)
  <2> DEFINE row == IF Claimable(j)
                    THEN [job[j] EXCEPT !.owner = req[p].user, !.status = "building"]
                    ELSE job[j]
  <2>1. req[p] \in RecheckReq
    BY <1>2 DEF FloorInv, StepsMatch, Fits, ClaimJob
  <2>2. row \in JobRow
    BY <1>1, <2>1 DEF RecheckReq, JobRow, JobStatus
  <2>3. /\ job[j].owner # Nobody => row.owner = job[j].owner
        /\ row.qty = job[j].qty /\ row.line = job[j].line
    BY <1>1 DEF Claimable, JobRow
  <2>4. job' = [job EXCEPT ![j] = row] \/ UNCHANGED job
    BY <1>2 DEF ClaimJob
  <2>5. Done(p) /\ UNCHANGED <<deliveries, plans, goods, locks>>
    BY <1>2 DEF ClaimJob
  <2> HIDE DEF row
  <2> QED BY <1>0, <2>2, <2>3, <2>4, <2>5, WriteSafe
<1>3. CASE SetStatus(p)
  <2> DEFINE row == [job[j] EXCEPT !.status = req[p].to]
  <2>1. req[p] \in SetReq
    BY <1>3 DEF FloorInv, StepsMatch, Fits, SetStatus
  <2>2. /\ row \in JobRow /\ row.line = job[j].line
        /\ row.owner = job[j].owner /\ row.qty = job[j].qty
    BY <1>0, <1>1, <2>1, Restatus DEF SetReq
  <2>3. job' = [job EXCEPT ![j] = row] \/ UNCHANGED job
    BY <1>3 DEF SetStatus
  <2>4. Done(p) /\ UNCHANGED <<deliveries, plans, goods, locks>>
    BY <1>3 DEF SetStatus
  <2> HIDE DEF row
  <2> QED BY <1>0, <2>2, <2>3, <2>4, WriteSafe
<1>4. CASE Edit(p)
  <2> DEFINE q == req[p].qty
             row == IF Editable(j) THEN [job[j] EXCEPT !.qty = q, !.status = Verdict(q)]
                    ELSE job[j]
  <2>1. req[p] \in EditReq
    BY <1>4 DEF FloorInv, StepsMatch, Fits, Edit
  <2>2. q \in 1..MaxUnits /\ Verdict(q) \in JobStatus
    BY <2>1 DEF EditReq, Verdict, JobStatus, Startable
  <2>3. row \in JobRow /\ row.owner = job[j].owner /\ row.line = job[j].line
    BY <1>1, <2>2 DEF JobRow
  <2>4. job' = [job EXCEPT ![j] = row] \/ UNCHANGED job
    BY <1>4 DEF Edit
  <2>5. Done(p) /\ UNCHANGED <<deliveries, plans, goods, locks>>
    BY <1>4 DEF Edit
  <2> HIDE DEF row
  <2> QED BY <1>0, <2>3, <2>4, <2>5, WriteSafe
<1> QED BY <1>2, <1>3, <1>4

-----------------------------------------------------------------------------
(* Deliveries                                                              *)

LEMMA LiveShape ==
    ASSUME StoreType
    PROVE  Live \subseteq Claim /\ IsFiniteSet(Live) /\ \A c \in Live : claims[c] \in ClaimRow
<1>1. Live \in SUBSET Claim
  BY DEF Live
<1>2. \A c \in Live : claims[c] \in ClaimRow
  BY DEF StoreType, Live, Unused, Gone
<1> QED BY <1>1, <1>2, KeySets, FS_Subset

\* What is claimed of a row.
LEMMA SumType ==
    ASSUME StoreType, NEW cs \in SUBSET Live
    PROVE  /\ IsFiniteSet(cs) /\ [c \in cs |-> claims[c].qty] \in [cs -> Nat]
           /\ Sum(cs) \in Nat
<1>1. IsFiniteSet(cs)
  BY LiveShape, FS_Subset
<1>2. [c \in cs |-> claims[c].qty] \in [cs -> Nat]
  BY LiveShape DEF ClaimRow
<1> QED BY <1>1, <1>2, TotalType DEF Sum

LEMMA AtMostIs ==
    ASSUME NEW a \in Int, NEW b \in Int
    PROVE  AtMost(a, b) <= a /\ AtMost(a, b) <= b /\ AtMost(a, b) \in {a, b}
BY DEF AtMost

\* Takes off a plan's claims stay within the claims and within the row.
LEMMA OffRowFits ==
    ASSUME StoreType, NEW cs \in SUBSET Live, NEW q \in Nat, NEW t \in OwnTakes(cs, q),
           NEW r \in Row
    PROVE  /\ OffRow(t, r) \in Nat /\ OffRow(t, r) <= stock[r] /\ OffRow(t, r) <= Claimed(r)
           /\ \A c \in cs : t[c] <= claims[c].qty
<1> DEFINE S == {d \in cs : claims[d].row = r}
           f == [c \in S |-> t[c]]
<1>1. t \in [cs -> 0..q] /\ t \in [cs -> Nat] /\ cs \subseteq Nat /\ IsFiniteSet(cs)
  <2>1. Claim \subseteq Nat /\ Live \subseteq Claim
    BY KeySets, LiveShape
  <2>2. t \in [cs -> 0..q]
    BY DEF OwnTakes
  <2>3. 0..q \subseteq Nat
    OBVIOUS
  <2>4. t \in [cs -> Nat]
    BY <2>2, <2>3
  <2> QED BY <2>1, <2>2, <2>4, SumType
<1>2. S \in SUBSET cs /\ S \in SUBSET Nat /\ IsFiniteSet(S) /\ f \in [S -> Nat]
  <2>1. S \in SUBSET cs
    OBVIOUS
  <2>2. f \in [S -> Nat]
    BY <1>1, <2>1
  <2>3. IsFiniteSet(S)
    BY <1>1, <2>1, FS_Subset
  <2> HIDE DEF S, f
  <2> QED BY <1>1, <2>1, <2>2, <2>3
<1>3. OffRow(t, r) = Total(f)
  <2>1. DOMAIN t = cs
    BY <1>1
  <2> QED BY <2>1 DEF OffRow
<1>4. \A c \in cs :
        LET before == {d \in cs : d < c}
            sameRow == {d \in before : claims[d].row = claims[c].row}
            a == q - Total([d \in before |-> t[d]])
            b == stock[claims[c].row] - Total([d \in sameRow |-> t[d]])
        IN  t[c] <= claims[c].qty /\ t[c] <= b
  <2> SUFFICES ASSUME NEW c \in cs
               PROVE LET before == {d \in cs : d < c}
                         sameRow == {d \in before : claims[d].row = claims[c].row}
                         b == stock[claims[c].row] - Total([d \in sameRow |-> t[d]])
                     IN  t[c] <= claims[c].qty /\ t[c] <= b
    OBVIOUS
  <2> DEFINE before == {d \in cs : d < c}
             sameRow == {d \in before : claims[d].row = claims[c].row}
             a == q - Total([d \in before |-> t[d]])
             b == stock[claims[c].row] - Total([d \in sameRow |-> t[d]])
  <2>1. t[c] = Least(claims[c].qty, a, b)
    BY DEF OwnTakes
  <2>2. a \in Int /\ b \in Int
    <3>1. before \in SUBSET cs /\ sameRow \in SUBSET cs
      OBVIOUS
    <3>2. IsFiniteSet(before) /\ IsFiniteSet(sameRow)
      BY <1>1, <3>1, FS_Subset
    <3>3. [d \in before |-> t[d]] \in [before -> Nat]
          /\ [d \in sameRow |-> t[d]] \in [sameRow -> Nat]
      BY <1>1, <3>1
    <3>4. Total([d \in before |-> t[d]]) \in Nat /\ Total([d \in sameRow |-> t[d]]) \in Nat
      BY <3>2, <3>3, TotalType
    <3>5. stock[claims[c].row] \in Nat
      <4>1. claims[c].row \in Row
        BY LiveShape DEF ClaimRow
      <4>2. stock[claims[c].row] \in 0..MaxUnits
        BY <4>1 DEF StoreType
      <4> QED BY <4>2
    <3> QED BY <3>4, <3>5
  <2>3. claims[c].qty \in Int
    BY LiveShape DEF ClaimRow
  <2> HIDE DEF a, b
  <2>4. t[c] <= claims[c].qty /\ t[c] <= b
    <3>1. AtMost(claims[c].qty, a) \in Int /\ AtMost(claims[c].qty, a) <= claims[c].qty
      BY <2>2, <2>3, AtMostIs
    <3> QED BY <2>1, <2>2, <2>3, <3>1, AtMostIs DEF Least
  <2> QED BY <2>4 DEF b
<1>5. OffRow(t, r) \in Nat
  BY <1>2, <1>3, TotalType
<1>6. OffRow(t, r) <= stock[r]
  <2>0. stock[r] \in Nat
    <3>1. stock[r] \in 0..MaxUnits
      BY DEF StoreType
    <3> QED BY <3>1
  <2>1. CASE S = {}
    <3>1. Total(f) = 0
      BY <1>2, <2>1, TotalZero
    <3> QED BY <1>3, <2>0, <3>1
  <2>2. CASE S # {}
    <3>1. PICK m \in S : \A x \in S : x <= m
      BY <1>2, <2>2, LastExists
    <3>2. {d \in {e \in cs : e < m} : claims[d].row = claims[m].row} = S \ {m}
      <4>1. \A x \in S \ {m} : x < m
        <5> SUFFICES ASSUME NEW x \in S \ {m} PROVE x < m
          OBVIOUS
        <5>1. x \in Nat /\ m \in Nat /\ x <= m /\ x # m
          BY <1>2, <3>1
        <5> QED BY <5>1
      <4>2. m \in Nat /\ ~(m < m)
        BY <1>2, <3>1
      <4> QED BY <3>1, <4>1, <4>2
    <3>3. m \in cs /\ claims[m].row = r
      BY <3>1
    <3>4. t[m] <= stock[r] - Total([d \in S \ {m} |-> t[d]])
      BY <1>4, <3>2, <3>3
    <3>5. [d \in S \ {m} |-> t[d]] = [d \in S \ {m} |-> f[d]]
      OBVIOUS
    <3>6. Total(f) = Total([d \in S \ {m} |-> f[d]]) + f[m]
          /\ Total([d \in S \ {m} |-> f[d]]) \in Nat
      <4> HIDE DEF S, f
      <4> QED BY <1>2, <3>1, TotalWithout
    <3>7. f[m] = t[m] /\ t[m] \in Nat
      BY <1>1, <3>1
    <3> HIDE DEF S, f
    <3> QED BY <1>3, <2>0, <3>4, <3>5, <3>6, <3>7
  <2> QED BY <2>1, <2>2
<1>7. OffRow(t, r) <= Claimed(r)
  <2> DEFINE T == {c \in Live : claims[c].row = r}
             g == [c \in T |-> claims[c].qty]
  <2>1. T \in SUBSET Live /\ S \subseteq T
    OBVIOUS
  <2>2. IsFiniteSet(T) /\ g \in [T -> Nat]
    BY <2>1, SumType
  <2>3. \A x \in S : f[x] <= g[x]
    BY <1>4, <2>1
  <2>4. Claimed(r) = Total(g)
    BY DEF Claimed, Sum
  <2> HIDE DEF S, T, f, g
  <2>5. Total(f) <= Total(g)
    BY <1>2, <2>1, <2>2, <2>3, TotalWithin
  <2> QED BY <1>3, <2>4, <2>5
<1> QED BY <1>4, <1>5, <1>6, <1>7

\* A delivery takes no row below zero.
LEMMA StockStaysTyped ==
    ASSUME StoreType, NEW cs \in SUBSET Live, NEW q \in Nat, NEW t \in OwnTakes(cs, q),
           NEW left, left = [r \in Row |-> stock[r] - OffRow(t, r)],
           NEW n, NEW g \in FreeTakes(left, n)
    PROVE  [r \in Row |-> left[r] - g[r]] \in [Row -> 0..MaxUnits]
<1> SUFFICES ASSUME NEW r \in Row PROVE left[r] - g[r] \in 0..MaxUnits
  OBVIOUS
<1>1. stock[r] \in 0..MaxUnits /\ MaxUnits \in Nat
  BY LimitAssumption DEF StoreType
<1>2. OffRow(t, r) \in Nat /\ OffRow(t, r) <= stock[r] /\ OffRow(t, r) <= Claimed(r)
  BY OffRowFits
<1>3. g[r] \in Nat /\ g[r] <= FreeUnits(r)
  <2>1. g[r] \in 0..n /\ g[r] <= FreeUnits(r)
    BY DEF FreeTakes
  <2> QED BY <2>1
<1>4. Claimed(r) \in Nat
  <2>1. {c \in Live : claims[c].row = r} \in SUBSET Live
    OBVIOUS
  <2> QED BY <2>1, SumType DEF Claimed
<1>5. FreeUnits(r) \in Int /\ FreeUnits(r) <= stock[r] - OffRow(t, r)
  BY <1>1, <1>2, <1>4 DEF FreeUnits, AtLeast
<1>6. left[r] = stock[r] - OffRow(t, r)
  OBVIOUS
<1> QED BY <1>1, <1>2, <1>3, <1>5, <1>6

\* What is left of a split claim is a claim.
LEMMA ConsumedShape ==
    ASSUME StoreType, NEW cs \in SUBSET Live, NEW q \in Nat, NEW t \in OwnTakes(cs, q),
           NEW ids
    PROVE  /\ Consumed(t) \in [Claim -> {Unused, Gone} \cup ClaimRow]
           /\ Released(Consumed(t), ids) \in [Claim -> {Unused, Gone} \cup ClaimRow]
<1>1. t \in [cs -> 0..q] /\ cs \subseteq Live /\ DOMAIN t = cs
  BY DEF OwnTakes
<1>2. ASSUME NEW d \in Split(t)
      PROVE  Active(claims[d].plan, claims[d].row, claims[d].qty - t[d]) \in ClaimRow
  <2>1. d \in cs /\ t[d] < claims[d].qty /\ t[d] \in Nat
    <3>1. d \in cs /\ t[d] < claims[d].qty /\ t[d] \in 0..q
      BY <1>1 DEF Split
    <3> QED BY <3>1
  <2>2. claims[d] \in ClaimRow
    BY <2>1, LiveShape
  <2>3. claims[d].qty - t[d] \in Nat \ {0}
    BY <2>1, <2>2 DEF ClaimRow
  <2> QED BY <2>2, <2>3 DEF Active, ClaimRow
<1>3. ASSUME NEW c \in Claim PROVE Consumed(t)[c] \in {Unused, Gone} \cup ClaimRow
  <2>1. CASE c \in DOMAIN t /\ t[c] > 0
    BY <2>1 DEF Consumed
  <2>2. CASE ~(c \in DOMAIN t /\ t[c] > 0) /\ \E d \in Split(t) : c = UsedKeys + Rank(d, Split(t))
    <3> DEFINE d == CHOOSE x \in Split(t) : c = UsedKeys + Rank(x, Split(t))
    <3>1. d \in Split(t)
      BY <2>2
    <3>2. Consumed(t)[c] = Active(claims[d].plan, claims[d].row, claims[d].qty - t[d])
      BY <2>2 DEF Consumed
    <3> HIDE DEF d
    <3> QED BY <1>2, <3>1, <3>2
  <2>3. CASE ~(c \in DOMAIN t /\ t[c] > 0)
             /\ ~ \E d \in Split(t) : c = UsedKeys + Rank(d, Split(t))
    <3>1. Consumed(t)[c] = claims[c]
      BY <2>3 DEF Consumed
    <3> QED BY <3>1 DEF StoreType
  <2> QED BY <2>1, <2>2, <2>3
<1>4. Consumed(t) \in [Claim -> {Unused, Gone} \cup ClaimRow]
  BY <1>3 DEF Consumed
<1>5. \A c \in Claim : Released(Consumed(t), ids)[c] \in {Consumed(t)[c], Gone}
  BY DEF Released
<1>6. Released(Consumed(t), ids) \in [Claim -> {Unused, Gone} \cup ClaimRow]
  BY <1>3, <1>5 DEF Released
<1> QED BY <1>4, <1>6

LEMMA DeliverSafe ==
    ASSUME FloorInv, NEW p \in Proc, Deliver(p)
    PROVE  FloorInv' /\ JobsKept
<1> DEFINE j == req[p].job
           mine == IF PlanLine(j) THEN Own(PlanAt(j)) ELSE {}
           q == job[j].qty
           row == [job[j] EXCEPT !.status = "delivered"]
<1>1. req[p] \in DeliverReq /\ j \in Jobs /\ StoreType
  BY DEF FloorInv, TypeOK, StepsMatch, Fits, Deliver
<1>2. job[j] \in JobRow
  BY <1>1, JobShape
<1>3. mine \in SUBSET Live /\ q \in Nat
  <2>1. mine \in SUBSET Live
    BY DEF Own
  <2>2. q \in 1..MaxUnits
    BY <1>2 DEF JobRow
  <2> QED BY <2>1, <2>2
<1>4. PICK t \in OwnTakes(mine, q) :
         LET left == [r \in Row |-> stock[r] - OffRow(t, r)]
         IN  /\ \E g \in FreeTakes(left, q - Total(t)) : stock' = [r \in Row |-> left[r] - g[r]]
             /\ claims' = IF req[p].last
                          THEN Released(Consumed(t), StillOwn(Consumed(t), PlanAt(j)))
                          ELSE Consumed(t)
  BY DEF Deliver
<1>5. stock' \in [Row -> 0..MaxUnits]
  <2> DEFINE left == [r \in Row |-> stock[r] - OffRow(t, r)]
  <2>1. PICK g \in FreeTakes(left, q - Total(t)) : stock' = [r \in Row |-> left[r] - g[r]]
    BY <1>4
  <2>2. left = [r \in Row |-> stock[r] - OffRow(t, r)]
    OBVIOUS
  <2> HIDE DEF left, q, mine, j
  <2> QED BY <1>1, <1>3, <2>1, <2>2, StockStaysTyped
<1>6. claims' \in [Claim -> {Unused, Gone} \cup ClaimRow]
  <2>1. claims' = Consumed(t) \/ \E ids \in {StillOwn(Consumed(t), PlanAt(j))} :
             claims' = Released(Consumed(t), ids)
    BY <1>4
  <2> HIDE DEF q, mine, j
  <2> QED BY <1>1, <1>3, <2>1, ConsumedShape
<1>7. /\ row \in JobRow /\ row.line = job[j].line
      /\ row.owner = job[j].owner /\ row.qty = job[j].qty
  <2>1. "delivered" \in JobStatus
    BY DEF JobStatus, Finished
  <2> QED BY <1>1, <1>2, <2>1, Restatus
<1>8. job' = [job EXCEPT ![j] = row]
  BY DEF Deliver
<1>9. /\ job' \in [Job -> {NoJob} \cup JobRow]
      /\ Jobs' = Jobs /\ KeysInOrder' /\ JobsKept
  <2> HIDE DEF row, j
  <2> QED BY <1>1, <1>7, <1>8, RowSafe
<1>10. pc' \in [Proc -> Step] /\ req' \in [Proc -> Request] /\ StepsMatch'
  BY <1>9, DoneSafe DEF Deliver
<1>11. deliveries' \in [Job -> Nat]
  <2>1. deliveries \in [Job -> Nat] /\ deliveries' = [deliveries EXCEPT ![j] = @ + 1]
    BY <1>1 DEF StoreType, Deliver
  <2>2. j \in Job
    BY <1>1, JobsFinite
  <2> HIDE DEF j
  <2>3. deliveries[j] + 1 \in Nat
    BY <2>1, <2>2
  <2> QED BY <2>1, <2>3
<1>12. plan' \in [Plan -> PlanStatus] /\ archived' \in [Plan -> BOOLEAN]
  <2>1. "done" \in PlanStatus
    BY DEF PlanStatus, Closed
  <2>2. plan' = plan \/ plan' = [plan EXCEPT ![PlanAt(j)] = "done"]
    BY DEF Deliver
  <2>3. archived' = archived /\ plan \in [Plan -> PlanStatus] /\ archived \in [Plan -> BOOLEAN]
    BY <1>1 DEF StoreType, Deliver
  <2> HIDE DEF j
  <2> QED BY <2>1, <2>2, <2>3
<1>13. jobLock' \in [Job -> Proc \cup {Nobody}] /\ planLock' \in [Plan -> Proc \cup {Nobody}]
  BY DEF Deliver, FloorInv, TypeOK, WorkerType
<1> HIDE DEF row, q, mine, j
<1> QED
  BY <1>5, <1>6, <1>9, <1>10, <1>11, <1>12, <1>13 DEF FloorInv, TypeOK, StoreType, WorkerType

LEMMA LockDeliverySafe ==
    ASSUME FloorInv, NEW p \in Proc, RefuseDelivery(p) \/ LockDelivery(p)
    PROVE  FloorInv' /\ JobsKept
<1>1. req[p] \in DeliverReq /\ req[p].job \in Jobs
  BY DEF FloorInv, StepsMatch, Fits, RefuseDelivery, LockDelivery
<1>2. UNCHANGED <<board, plans, goods>>
  BY DEF RefuseDelivery, LockDelivery
<1>3. Jobs' = Jobs /\ KeysInOrder' /\ JobsKept
  BY <1>2, SameJobs DEF board
<1>4. pc' \in [Proc -> Step] /\ req' \in [Proc -> Request] /\ StepsMatch'
  <2>1. CASE RefuseDelivery(p)
    BY <1>3, <2>1, DoneSafe DEF RefuseDelivery
  <2>2. CASE LockDelivery(p)
    <3> DEFINE r == [req[p] EXCEPT !.last = LastLine(req[p].job)]
    <3>1. LastLine(req[p].job) \in BOOLEAN
      BY DEF LastLine
    <3>2. r \in DeliverReq /\ r.job \in Jobs
      BY <1>1, <3>1 DEF DeliverReq
    <3>3. pc' = [pc EXCEPT ![p] = "deliver"] /\ req' = [req EXCEPT ![p] = r]
      BY <2>2 DEF LockDelivery, Keep, Goto
    <3> HIDE DEF r
    <3>4. Fits("deliver", r, Jobs') /\ "deliver" \in Step /\ r \in Request
      BY <1>3, <3>2 DEF Fits, Step, Request
    <3> QED BY <1>3, <3>3, <3>4, StepSafe
  <2> QED BY <2>1, <2>2
<1>5. jobLock' \in [Job -> Proc \cup {Nobody}] /\ planLock' \in [Plan -> Proc \cup {Nobody}]
  BY DEF RefuseDelivery, LockDelivery, locks, FloorInv, TypeOK, WorkerType
<1> QED
  BY <1>2, <1>3, <1>4, <1>5
  DEF FloorInv, TypeOK, StoreType, WorkerType, board, plans, goods

-----------------------------------------------------------------------------
(* Requests on plans                                                       *)

LEMMA StartPlanSafe ==
    ASSUME FloorInv, NEW p \in Proc,
           StartPush(p) \/ StartLead(p) \/ StartSetPlan(p) \/ StartArchive(p)
             \/ StartRelease(p) \/ StartReserve(p)
    PROVE  FloorInv' /\ JobsKept
<1> USE DEF Fits, Step, Request
<1>1. \A pl \in Plan : plan[pl] \in PlanStatus
  BY DEF FloorInv, TypeOK, StoreType
<1>2. CASE StartPush(p)
  <2>1. PICK pl \in Plan, u \in User :
            Begin(p, "read", [op |-> "push", plan |-> pl, user |-> u,
                              seen |-> plan[pl], lines |-> {}])
    BY <1>2 DEF StartPush
  <2> DEFINE r == [op |-> "push", plan |-> pl, user |-> u, seen |-> plan[pl], lines |-> {}]
  <2>2. r \in PushReq
    BY <1>1 DEF PushReq
  <2> HIDE DEF r
  <2> QED BY <2>1, <2>2, BeginSafe DEF r
<1>3. CASE StartLead(p)
  <2>1. PICK pl \in Plan : Begin(p, "lead", [op |-> "lead", plan |-> pl, seen |-> plan[pl]])
    BY <1>3 DEF StartLead
  <2> DEFINE r == [op |-> "lead", plan |-> pl, seen |-> plan[pl]]
  <2>2. r \in LeadReq
    BY <1>1 DEF LeadReq
  <2> HIDE DEF r
  <2> QED BY <2>1, <2>2, BeginSafe DEF r
<1>4. CASE StartSetPlan(p) \/ StartArchive(p) \/ StartRelease(p)
  <2>1. PICK pl \in Plan : \E step \in {"save", "list"}, op \in {"release", "setplan", "archive"},
               to \in PlanStatus \cup {"archived", "restored", "same"} :
            /\ step = "save" => op = "archive" \/ to \in PlanStatus
            /\ Begin(p, step, [op |-> op, plan |-> pl, to |-> to, ids |-> {}])
    <3>1. CASE StartSetPlan(p)
      BY <3>1 DEF StartSetPlan
    <3>2. CASE StartArchive(p)
      BY <3>2 DEF StartArchive
    <3>3. CASE StartRelease(p)
      BY <3>3 DEF StartRelease
    <3> QED BY <1>4, <3>1, <3>2, <3>3
  <2>2. PICK step \in {"save", "list"}, op \in {"release", "setplan", "archive"},
               to \in PlanStatus \cup {"archived", "restored", "same"} :
            /\ step = "save" => op = "archive" \/ to \in PlanStatus
            /\ Begin(p, step, [op |-> op, plan |-> pl, to |-> to, ids |-> {}])
    BY <2>1
  <2> DEFINE r == [op |-> op, plan |-> pl, to |-> to, ids |-> {}]
  <2>3. r \in ReleaseReq /\ (step = "save" => r.op = "archive" \/ r.to \in PlanStatus)
    BY <2>2 DEF ReleaseReq
  <2>4. Begin(p, step, r)
    BY <2>2
  <2> HIDE DEF r
  <2>5. Fits(step, r, Jobs) /\ step \in Step /\ r \in Request
    BY <2>3
  <2> QED BY <2>4, <2>5, BeginSafe
<1>5. CASE StartReserve(p)
  <2>1. PICK pl \in Plan : Begin(p, "lockplan", [op |-> "reserve", plan |-> pl])
    BY <1>5 DEF StartReserve
  <2> DEFINE r == [op |-> "reserve", plan |-> pl]
  <2>2. r \in ReserveReq
    BY DEF ReserveReq
  <2> HIDE DEF r
  <2> QED BY <2>1, <2>2, BeginSafe DEF r
<1> QED BY <1>2, <1>3, <1>4, <1>5

LEMMA ReadSafe ==
    ASSUME FloorInv, NEW p \in Proc, ReadLines(p) \/ ListClaims(p)
    PROVE  FloorInv' /\ JobsKept
<1>1. UNCHANGED <<board, plans, goods, locks>>
  BY DEF ReadLines, ListClaims
<1>2. Jobs' = Jobs /\ KeysInOrder' /\ JobsKept
  BY <1>1, SameJobs DEF board
<1>3. \E step \in Step, r \in Request : Keep(p, step, r) /\ Fits(step, r, Jobs)
  <2>1. CASE ReadLines(p)
    <3> DEFINE r == [req[p] EXCEPT !.lines = {l \in Lines(req[p].plan) : ~Taken(l)}]
    <3>1. req[p] \in PushReq
      BY <2>1 DEF ReadLines, FloorInv, StepsMatch, Fits
    <3>2. r \in PushReq
      BY <3>1 DEF PushReq, Lines
    <3>3. Keep(p, "push", r)
      BY <2>1 DEF ReadLines
    <3> HIDE DEF r
    <3> QED BY <3>2, <3>3 DEF Fits, Step, Request
  <2>2. CASE ListClaims(p)
    <3> DEFINE r == [req[p] EXCEPT !.ids = Own(req[p].plan)]
    <3>1. req[p] \in ReleaseReq
      BY <2>2 DEF ListClaims, FloorInv, StepsMatch, Fits
    <3>2. r \in ReleaseReq
      BY <3>1 DEF ReleaseReq, Own, Live
    <3>3. Keep(p, "release", r)
      BY <2>2 DEF ListClaims
    <3> HIDE DEF r
    <3> QED BY <3>2, <3>3 DEF Fits, Step, Request
  <2> QED BY <2>1, <2>2
<1>4. PICK step \in Step, r \in Request : Keep(p, step, r) /\ Fits(step, r, Jobs)
  BY <1>3
<1>5. pc' \in [Proc -> Step] /\ req' \in [Proc -> Request] /\ StepsMatch'
  BY <1>2, <1>4, StepSafe DEF Keep, Goto
<1> QED
  BY <1>1, <1>2, <1>5
  DEF FloorInv, TypeOK, StoreType, WorkerType, board, plans, goods, locks

\* A push appends its jobs after those on the board.
LEMMA PushSafe ==
    ASSUME FloorInv, NEW p \in Proc, Push(p)
    PROVE  FloorInv' /\ JobsKept
<1> DEFINE pl == req[p].plan
           lines == req[p].lines
           n == Cardinality(Jobs)
           k == Cardinality(lines)
           key(l) == n + Rank(l, lines)
           row(l) == [status |-> Verdict(Size[l]), owner |-> Nobody,
                      by |-> req[p].user, line |-> l, qty |-> Size[l]]
<1>1. req[p] \in PushReq
  BY DEF FloorInv, StepsMatch, Fits, Push
<1>2. /\ pl \in Plan /\ lines \in SUBSET Line /\ req[p].user \in User
      /\ lines \in SUBSET Nat /\ IsFiniteSet(lines) /\ k \in Nat
  <2>1. pl \in Plan /\ lines \in SUBSET Line /\ req[p].user \in User
    BY <1>1 DEF PushReq
  <2> HIDE DEF lines
  <2> QED BY <2>1, KeySets, FS_Subset, FS_CardinalityType
<1>3. n \in Nat /\ Jobs = 1..n /\ job \in [Job -> {NoJob} \cup JobRow]
      /\ Job = 1..Cardinality(Job) /\ Cardinality(Job) \in Nat
  BY JobsFinite, KeySets, FS_CardinalityType DEF FloorInv, TypeOK, StoreType, KeysInOrder
<1>4. n + k <= Cardinality(Job)
  BY DEF Push
<1>5. job' = [j \in Job |-> IF \E l \in lines : j = key(l)
                            THEN row(CHOOSE l \in lines : j = key(l)) ELSE job[j]]
  BY DEF Push
<1>6. \A l \in lines : row(l) \in JobRow
  <2> SUFFICES ASSUME NEW l \in lines PROVE row(l) \in JobRow
    OBVIOUS
  <2>1. l \in Line /\ Size[l] \in 1..MaxUnits
    BY <1>2, LineAssumption
  <2>2. Verdict(Size[l]) \in JobStatus
    BY DEF Verdict, JobStatus, Startable
  <2> QED BY <1>2, <2>1, <2>2 DEF JobRow
<1>7. \A l \in lines : Rank(l, lines) \in 1..k
  <2> HIDE DEF lines
  <2> QED BY <1>2, RankRange
<1>8. \A i \in 1..k : \E l \in lines : Rank(l, lines) = i
  <2> HIDE DEF lines
  <2> QED BY <1>2, RankOnto
<1>9. \A j \in Job : (\E l \in lines : j = key(l)) <=> j \in (n+1)..(n+k)
  <2> SUFFICES ASSUME NEW j \in Job PROVE (\E l \in lines : j = key(l)) <=> j \in (n+1)..(n+k)
    OBVIOUS
  <2>1. ASSUME NEW l \in lines, j = key(l) PROVE j \in (n+1)..(n+k)
    BY <1>2, <1>3, <1>7, <2>1
  <2>2. ASSUME j \in (n+1)..(n+k) PROVE \E l \in lines : j = key(l)
    <3>1. j - n \in 1..k /\ j \in Nat
      BY <1>2, <1>3, <2>2
    <3>2. PICK l \in lines : Rank(l, lines) = j - n
      BY <1>8, <3>1
    <3>3. j = key(l)
      BY <1>3, <3>1, <3>2
    <3> QED BY <3>3
  <2> QED BY <2>1, <2>2
<1>10. \A j \in Job : (job'[j] = job[j] /\ j \notin (n+1)..(n+k))
                      \/ (job'[j] \in JobRow /\ j \in (n+1)..(n+k))
  <2> SUFFICES ASSUME NEW j \in Job
               PROVE (job'[j] = job[j] /\ j \notin (n+1)..(n+k))
                      \/ (job'[j] \in JobRow /\ j \in (n+1)..(n+k))
    OBVIOUS
  <2>1. CASE \E l \in lines : j = key(l)
    <3> DEFINE l == CHOOSE x \in lines : j = key(x)
    <3>1. l \in lines /\ job'[j] = row(l)
      BY <1>5, <2>1
    <3> HIDE DEF l, row, key, lines
    <3> QED BY <1>6, <1>9, <2>1, <3>1
  <2>2. CASE ~ \E l \in lines : j = key(l)
    BY <1>5, <1>9, <2>2
  <2> QED BY <2>1, <2>2
<1> HIDE DEF row, key, lines, pl, n, k
<1>11. job' \in [Job -> {NoJob} \cup JobRow]
  <2>1. \A j \in Job : job'[j] \in {NoJob} \cup JobRow
    BY <1>3, <1>10
  <2> QED BY <1>5, <2>1
<1>12. Jobs' = 1..(n+k)
  <2>1. \A j \in Job : job'[j].status # "none" <=> j \in 1..(n+k)
    <3> SUFFICES ASSUME NEW j \in Job PROVE job'[j].status # "none" <=> j \in 1..(n+k)
      OBVIOUS
    <3>1. j \in Nat
      BY KeySets
    <3>2. CASE j \in (n+1)..(n+k)
      <4>1. job'[j] \in JobRow
        BY <1>10, <3>2
      <4>2. job'[j].status # "none"
        BY <4>1 DEF JobRow, JobStatus, Startable, Finished
      <4> QED BY <1>2, <1>3, <3>1, <3>2, <4>2
    <3>3. CASE j \notin (n+1)..(n+k)
      <4>1. job'[j] = job[j]
        BY <1>10, <3>3
      <4>2. job[j].status # "none" <=> j \in 1..n
        BY <1>3 DEF Jobs
      <4> QED BY <1>2, <1>3, <3>1, <3>3, <4>1, <4>2
    <3> QED BY <3>2, <3>3
  <2>2. 1..(n+k) \subseteq Job
    BY <1>2, <1>3, <1>4
  <2> QED BY <2>1, <2>2 DEF Jobs
<1>13. KeysInOrder' /\ Jobs \subseteq Jobs'
  <2>1. Cardinality(1..(n+k)) = n + k
    BY <1>2, <1>3, FS_Interval
  <2>2. 1..n \subseteq 1..(n+k)
    BY <1>2, <1>3
  <2> QED BY <1>3, <1>12, <2>1, <2>2 DEF KeysInOrder
<1>14. JobsKept
  <2> SUFFICES ASSUME NEW j \in Job
               PROVE  /\ job[j].status # "none" => job'[j].line = job[j].line
                      /\ job[j].owner # Nobody => job'[j].owner = job[j].owner
                      /\ Deliverable(j) => job'[j].qty = job[j].qty
    BY DEF JobsKept
  <2>1. CASE j \notin (n+1)..(n+k)
    BY <1>10, <2>1
  <2>2. CASE j \in (n+1)..(n+k)
    <3>1. j \notin Jobs
      BY <1>2, <1>3, <2>2
    <3>2. job[j] = NoJob
      BY <3>1, JobShape DEF FloorInv, TypeOK
    <3> QED BY <3>2 DEF NoJob, Deliverable
  <2> QED BY <2>1, <2>2
<1>15. pc' \in [Proc -> Step] /\ req' \in [Proc -> Request] /\ StepsMatch'
  BY <1>13, DoneSafe DEF Push
<1>16. plan' \in [Plan -> PlanStatus]
  <2>1. "active" \in PlanStatus /\ plan \in [Plan -> PlanStatus]
    BY DEF PlanStatus, FloorInv, TypeOK, StoreType
  <2>2. plan' = plan \/ plan' = [plan EXCEPT ![pl] = "active"]
    BY DEF Push, pl
  <2> QED BY <2>1, <2>2
<1>17. UNCHANGED <<deliveries, archived, goods, locks>>
  BY DEF Push
<1> QED
  BY <1>11, <1>13, <1>14, <1>15, <1>16, <1>17
  DEF FloorInv, TypeOK, StoreType, WorkerType, goods, locks

\* A step that writes plans and their locks but no job, no stock and no claim.
LEMMA PlanWriteSafe ==
    ASSUME FloorInv, NEW p \in Proc, Lead(p) \/ SavePlan(p) \/ RefuseReserve(p) \/ LockPlan(p)
    PROVE  FloorInv' /\ JobsKept
<1>1. UNCHANGED <<job, deliveries, stock, claims, jobLock>>
  BY DEF Lead, SavePlan, RefuseReserve, LockPlan, board, goods, locks
<1>2. Jobs' = Jobs /\ KeysInOrder' /\ JobsKept
  BY <1>1, SameJobs
<1>3. pc' \in [Proc -> Step] /\ req' \in [Proc -> Request] /\ StepsMatch'
  <2>1. CASE Lead(p) \/ RefuseReserve(p)
    BY <1>2, <2>1, DoneSafe DEF Lead, RefuseReserve
  <2>2. CASE SavePlan(p)
    <3>1. req[p] \in ReleaseReq
      BY <2>2 DEF SavePlan, FloorInv, StepsMatch, Fits
    <3>2. Fits("list", req[p], Jobs) /\ "list" \in Step
      BY <3>1 DEF Fits, Step
    <3>3. Done(p) \/ (Goto(p, "list") /\ UNCHANGED req)
      BY <2>2 DEF SavePlan
    <3> QED BY <1>2, <3>2, <3>3, DoneSafe, GotoSafe
  <2>3. CASE LockPlan(p)
    <3>1. req[p] \in ReserveReq
      BY <2>3 DEF LockPlan, FloorInv, StepsMatch, Fits
    <3>2. Fits("reserve", req[p], Jobs) /\ "reserve" \in Step
      BY <3>1 DEF Fits, Step
    <3>3. Goto(p, "reserve") /\ UNCHANGED req
      BY <2>3 DEF LockPlan
    <3> QED BY <1>2, <3>2, <3>3, GotoSafe
  <2> QED BY <2>1, <2>2, <2>3
<1>4. plan' \in [Plan -> PlanStatus] /\ archived' \in [Plan -> BOOLEAN]
  <2>0. plan \in [Plan -> PlanStatus] /\ archived \in [Plan -> BOOLEAN]
    BY DEF FloorInv, TypeOK, StoreType
  <2>1. CASE Lead(p)
    <3>1. req[p] \in LeadReq
      BY <2>1 DEF Lead, FloorInv, StepsMatch, Fits
    <3>2. req[p].seen \in PlanStatus /\ "active" \in PlanStatus
      BY <3>1 DEF LeadReq, PlanStatus
    <3> QED BY <2>0, <2>1, <3>2 DEF Lead
  <2>2. CASE SavePlan(p)
    <3>1. req[p] \in ReleaseReq
      BY <2>2 DEF SavePlan, FloorInv, StepsMatch, Fits
    <3>2. CASE req[p].op = "archive"
      BY <2>0, <2>2, <3>2 DEF SavePlan
    <3>3. CASE req[p].op # "archive"
      <4>1. plan' = [plan EXCEPT ![req[p].plan] = req[p].to] /\ UNCHANGED archived
        BY <2>2, <3>3 DEF SavePlan
      <4>2. req[p].to \in PlanStatus
        BY <2>2, <3>3 DEF SavePlan, FloorInv, StepsMatch, Fits
      <4> QED BY <2>0, <4>1, <4>2
    <3> QED BY <3>2, <3>3
  <2>3. CASE RefuseReserve(p) \/ LockPlan(p)
    BY <2>0, <2>3 DEF RefuseReserve, LockPlan, plans
  <2> QED BY <2>1, <2>2, <2>3
<1>5. planLock' \in [Plan -> Proc \cup {Nobody}]
  BY DEF Lead, SavePlan, RefuseReserve, LockPlan, locks, FloorInv, TypeOK, WorkerType
<1> QED
  BY <1>1, <1>2, <1>3, <1>4, <1>5 DEF FloorInv, TypeOK, StoreType, WorkerType

\* Releasing claims leaves the stock and the other claims as they are.
LEMMA ReleaseSafe ==
    ASSUME FloorInv, NEW p \in Proc, Release(p)
    PROVE  FloorInv' /\ JobsKept
<1>1. UNCHANGED <<board, plans, stock, locks>>
  BY DEF Release
<1>2. Jobs' = Jobs /\ KeysInOrder' /\ JobsKept
  BY <1>1, SameJobs DEF board
<1>3. pc' \in [Proc -> Step] /\ req' \in [Proc -> Request] /\ StepsMatch'
  BY <1>2, DoneSafe DEF Release
<1>4. claims' \in [Claim -> {Unused, Gone} \cup ClaimRow]
  <2>1. claims \in [Claim -> {Unused, Gone} \cup ClaimRow]
    BY DEF FloorInv, TypeOK, StoreType
  <2>2. claims' = [c \in Claim |-> IF c \in req[p].ids /\ claims[c].state = "active"
                                   THEN Gone ELSE claims[c]]
    BY DEF Release, Released
  <2> QED BY <2>1, <2>2
<1> QED
  BY <1>1, <1>2, <1>3, <1>4
  DEF FloorInv, TypeOK, StoreType, WorkerType, board, plans, locks

\* A reservation adds claims on rows, each of at least one unit.
LEMMA ReserveSafe ==
    ASSUME FloorInv, NEW p \in Proc, Reserve(p)
    PROVE  FloorInv' /\ JobsKept
<1> DEFINE pl == req[p].plan
<1>1. UNCHANGED <<board, plans, stock, jobLock>>
  BY DEF Reserve
<1>2. Jobs' = Jobs /\ KeysInOrder' /\ JobsKept
  BY <1>1, SameJobs DEF board
<1>3. pc' \in [Proc -> Step] /\ req' \in [Proc -> Request] /\ StepsMatch'
  BY <1>2, DoneSafe DEF Reserve
<1>4. planLock' \in [Plan -> Proc \cup {Nobody}]
  BY DEF Reserve, FloorInv, TypeOK, WorkerType
<1>5. pl \in Plan
  <2>1. req[p] \in ReserveReq
    BY DEF Reserve, FloorInv, StepsMatch, Fits
  <2> QED BY <2>1 DEF ReserveReq
<1>6. PICK g \in [Row -> 0..Net(pl)] :
         claims' = [c \in Claim |->
             IF \E r \in {x \in Row : g[x] > 0} :
                    c = UsedKeys + Rank(r, {x \in Row : g[x] > 0})
             THEN LET r == CHOOSE s \in {x \in Row : g[x] > 0} :
                               c = UsedKeys + Rank(s, {x \in Row : g[x] > 0})
                  IN  Active(pl, r, g[r])
             ELSE claims[c]]
  BY DEF Reserve
<1> DEFINE rows == {x \in Row : g[x] > 0}
           chosen(c) == CHOOSE s \in rows : c = UsedKeys + Rank(s, rows)
<1>7. ASSUME NEW r \in rows PROVE Active(pl, r, g[r]) \in ClaimRow
  <2>1. g[r] \in 0..Net(pl) /\ g[r] > 0 /\ r \in Row
    OBVIOUS
  <2>2. g[r] \in Nat \ {0}
    BY <2>1
  <2> HIDE DEF pl
  <2> QED BY <1>5, <2>1, <2>2 DEF Active, ClaimRow
<1>8. ASSUME NEW c \in Claim PROVE claims'[c] \in {Unused, Gone} \cup ClaimRow
  <2>1. CASE \E r \in rows : c = UsedKeys + Rank(r, rows)
    <3>1. chosen(c) \in rows
      BY <2>1
    <3>2. claims'[c] = Active(pl, chosen(c), g[chosen(c)])
      BY <1>6, <2>1
    <3> HIDE DEF chosen, rows, pl
    <3> QED BY <1>7, <3>1, <3>2
  <2>2. CASE ~ \E r \in rows : c = UsedKeys + Rank(r, rows)
    <3>1. claims'[c] = claims[c]
      BY <1>6, <2>2
    <3> QED BY <3>1 DEF FloorInv, TypeOK, StoreType
  <2> QED BY <2>1, <2>2
<1>9. claims' \in [Claim -> {Unused, Gone} \cup ClaimRow]
  BY <1>6, <1>8
<1> QED
  BY <1>1, <1>2, <1>3, <1>4, <1>9
  DEF FloorInv, TypeOK, StoreType, WorkerType, board, plans

-----------------------------------------------------------------------------
(* Stocktakes and crashes                                                  *)

LEMMA RecountSafe ==
    ASSUME FloorInv, Recount
    PROVE  FloorInv' /\ JobsKept
<1>1. UNCHANGED <<board, plans, claims, locks, pc, req>>
  BY DEF Recount
<1>2. Jobs' = Jobs /\ KeysInOrder' /\ JobsKept
  BY <1>1, SameJobs DEF board
<1>3. StepsMatch'
  BY <1>1, <1>2 DEF FloorInv, StepsMatch
<1>4. stock' \in [Row -> 0..MaxUnits]
  BY DEF Recount, FloorInv, TypeOK, StoreType
<1> QED
  BY <1>1, <1>2, <1>3, <1>4
  DEF FloorInv, TypeOK, StoreType, WorkerType, board, plans, locks

LEMMA CrashSafe ==
    ASSUME FloorInv, NEW p \in Proc, Crash(p)
    PROVE  FloorInv' /\ JobsKept
<1>1. UNCHANGED <<board, plans, goods>>
  BY DEF Crash
<1>2. Jobs' = Jobs /\ KeysInOrder' /\ JobsKept
  BY <1>1, SameJobs DEF board
<1>3. pc' \in [Proc -> Step] /\ req' \in [Proc -> Request] /\ StepsMatch'
  BY <1>2, DoneSafe DEF Crash
<1>4. jobLock' \in [Job -> Proc \cup {Nobody}] /\ planLock' \in [Plan -> Proc \cup {Nobody}]
  BY DEF Crash, FloorInv, TypeOK, WorkerType
<1> QED
  BY <1>1, <1>2, <1>3, <1>4
  DEF FloorInv, TypeOK, StoreType, WorkerType, board, plans, goods

-----------------------------------------------------------------------------
(* The theorems                                                            *)

\* The model begins with the jobs in progress, and every worker idle.
LEMMA InitFloorInv == ASSUME Init PROVE FloorInv
<1> DEFINE n == Cardinality(DOMAIN Underway)
<1>1. PICK u \in User : job = [j \in Job |->
           IF j \in DOMAIN Underway
           THEN [status |-> "building", owner |-> u, by |-> u,
                 line |-> Underway[j], qty |-> Size[Underway[j]]]
           ELSE NoJob]
  BY DEF Init
<1>2. DOMAIN Underway = 1..n /\ DOMAIN Underway \subseteq Job
      /\ \A j \in DOMAIN Underway : Underway[j] \in Line /\ Size[Underway[j]] \in 1..MaxUnits
  BY StartAssumption, LineAssumption
<1>3. job \in [Job -> {NoJob} \cup JobRow]
  <2>1. "building" \in JobStatus
    BY DEF JobStatus
  <2> QED BY <1>1, <1>2, <2>1 DEF JobRow
<1>4. Jobs = DOMAIN Underway
  BY <1>1, <1>2 DEF Jobs, NoJob
<1>5. KeysInOrder
  BY <1>2, <1>4 DEF KeysInOrder
<1>6. StoreType
  <2>1. {"draft", "active"} \subseteq PlanStatus
    BY DEF PlanStatus
  <2> QED BY <1>3, <2>1 DEF StoreType, Init
<1>7. WorkerType
  BY DEF WorkerType, Init, Step, Request
<1>8. StepsMatch
  BY DEF StepsMatch, Fits, Init
<1> QED BY <1>5, <1>6, <1>7, <1>8 DEF FloorInv, TypeOK

\* Every step keeps the invariant, and the owners and the plan lines of the jobs.
LEMMA NextFloorInv == ASSUME FloorInv, Next PROVE FloorInv' /\ JobsKept
<1>1. CASE Recount
  BY <1>1, RecountSafe
<1>2. ASSUME NEW p \in Proc, JobStep(p) PROVE FloorInv' /\ JobsKept
  <2>1. CASE StartBoard(p) \/ StartClaim(p) \/ StartStatus(p) \/ StartCancel(p)
               \/ StartEdit(p) \/ StartDeliver(p)
    BY <2>1, StartSafe
  <2>2. CASE StartCreate(p)
    BY <2>2, CreateSafe
  <2>3. CASE Recheck(p)
    BY <2>3, RecheckSafe
  <2>4. CASE ClaimJob(p) \/ SetStatus(p) \/ Edit(p)
    BY <2>4, JobWriteSafe
  <2>5. CASE RefuseDelivery(p) \/ LockDelivery(p)
    BY <2>5, LockDeliverySafe
  <2>6. CASE Deliver(p)
    BY <2>6, DeliverSafe
  <2> QED BY <1>2, <2>1, <2>2, <2>3, <2>4, <2>5, <2>6 DEF JobStep
<1>3. ASSUME NEW p \in Proc, PlanStep(p) PROVE FloorInv' /\ JobsKept
  <2>1. CASE StartPush(p) \/ StartLead(p) \/ StartSetPlan(p) \/ StartArchive(p)
               \/ StartRelease(p) \/ StartReserve(p)
    BY <2>1, StartPlanSafe
  <2>2. CASE ReadLines(p) \/ ListClaims(p)
    BY <2>2, ReadSafe
  <2>3. CASE Push(p)
    BY <2>3, PushSafe
  <2>4. CASE Lead(p) \/ SavePlan(p) \/ RefuseReserve(p) \/ LockPlan(p)
    BY <2>4, PlanWriteSafe
  <2>5. CASE Release(p)
    BY <2>5, ReleaseSafe
  <2>6. CASE Reserve(p)
    BY <2>6, ReserveSafe
  <2> QED BY <1>3, <2>1, <2>2, <2>3, <2>4, <2>5, <2>6 DEF PlanStep
<1>4. ASSUME NEW p \in Proc, Crash(p) PROVE FloorInv' /\ JobsKept
  BY <1>4, CrashSafe
<1> QED BY <1>1, <1>2, <1>3, <1>4 DEF Next

LEMMA StutterFloorInv == ASSUME FloorInv, UNCHANGED vars PROVE FloorInv' /\ JobsKept
<1>1. Jobs' = Jobs /\ KeysInOrder' /\ JobsKept
  BY SameJobs DEF vars
<1>2. StepsMatch'
  BY <1>1 DEF vars, FloorInv, StepsMatch
<1> QED BY <1>1, <1>2 DEF vars, FloorInv, TypeOK, StoreType, WorkerType

\* What is inductive of the board: its types, the order of its keys and the
\* requests its workers hold.
THEOREM FloorInvariant == Spec => []FloorInv
<1>1. Init => FloorInv
  BY InitFloorInv
<1>2. FloorInv /\ [Next]_vars => FloorInv'
  BY NextFloorInv, StutterFloorInv
<1> QED BY <1>1, <1>2, PTL DEF Spec

\* Every table, lock and worker has its type, however many jobs, plans, claims
\* and workers there are: no delivery takes a row below zero, no key is used
\* twice, no request names a job that is not there.
THEOREM FloorTypesHold == Spec => []TypeOK
<1>1. FloorInv => TypeOK
  BY DEF FloorInv
<1> QED BY <1>1, FloorInvariant, PTL

\* A job keeps the pilot whose claim was granted, whatever others read before
\* their own claim of it and whatever a recheck writes over its status.
THEOREM OwnersKept == Spec => OwnerKeeps
<1>1. FloorInv /\ [Next]_vars =>
          [\A j \in Job : job[j].owner # Nobody => job'[j].owner = job[j].owner]_vars
  BY NextFloorInv DEF JobsKept
<1> QED BY <1>1, FloorInvariant, PTL DEF Spec, OwnerKeeps

-----------------------------------------------------------------------------
(***************************************************************************)
(* The claims on stock: plans never hold more than they need, only a       *)
(* stocktake leaves a row short and closed plans gain nothing.             *)
(*                                                                         *)
(* Sums of claims are compared through where each claim comes from.  A     *)
(* consumption or a release maps every claim left to the one it was, with  *)
(* no more units on the same row for the same plan; a reservation maps     *)
(* every claim it adds to its row.                                         *)
(***************************************************************************)

-----------------------------------------------------------------------------
(* Tables of claims                                                        *)

ClaimTable == [Claim -> {Unused, Gone} \cup ClaimRow]
LiveIn(cs) == {c \in Claim : cs[c].state = "active"}
OwnIn(cs, pl) == {c \in LiveIn(cs) : cs[c].plan = pl}
OnRow(cs, r) == {c \in LiveIn(cs) : cs[c].row = r}
QtyOf(cs, k) == [c \in k |-> cs[c].qty]
SumIn(cs, k) == Total(QtyOf(cs, k))

\* Every claim of new comes from a claim of old, no two from the same, and holds
\* at most what was not taken off it.
ComesFrom(old, new, taken, h) ==
    /\ h \in [LiveIn(new) -> LiveIn(old)]
    /\ \A c \in LiveIn(new), d \in LiveIn(new) : h[c] = h[d] => c = d
    /\ \A c \in LiveIn(new) : /\ new[c].plan = old[h[c]].plan
                              /\ new[c].row = old[h[c]].row
                              /\ new[c].qty <= old[h[c]].qty - taken[h[c]]
Shrinks(old, new, taken) ==
    /\ new \in ClaimTable
    /\ taken \in [LiveIn(old) -> Nat]
    /\ \A c \in LiveIn(old) : taken[c] <= old[c].qty
    /\ \E h \in [LiveIn(new) -> LiveIn(old)] : ComesFrom(old, new, taken, h)

LEMMA TableShape ==
    ASSUME NEW cs \in ClaimTable
    PROVE  /\ IsFiniteSet(LiveIn(cs)) /\ LiveIn(cs) \subseteq Claim
           /\ \A c \in LiveIn(cs) : cs[c] \in ClaimRow /\ cs[c].qty \in Nat
<1>1. LiveIn(cs) \in SUBSET Claim
  BY DEF LiveIn
<1>2. \A c \in LiveIn(cs) : cs[c] \in ClaimRow
  BY DEF ClaimTable, LiveIn, Unused, Gone
<1>3. \A c \in LiveIn(cs) : cs[c].qty \in Nat
  BY <1>2 DEF ClaimRow
<1> QED BY <1>1, <1>2, <1>3, KeySets, FS_Subset

LEMMA SumInType ==
    ASSUME NEW cs \in ClaimTable, NEW k \in SUBSET LiveIn(cs)
    PROVE  IsFiniteSet(k) /\ QtyOf(cs, k) \in [k -> Nat] /\ SumIn(cs, k) \in Nat
<1>1. IsFiniteSet(k)
  BY TableShape, FS_Subset
<1>2. QtyOf(cs, k) \in [k -> Nat]
  BY TableShape DEF QtyOf
<1> QED BY <1>1, <1>2, TotalType DEF SumIn

\* What shrinks does so for any two sets of claims that match.
LEMMA ShrinkSum ==
    ASSUME NEW old \in ClaimTable, NEW new \in ClaimTable,
           NEW taken \in [LiveIn(old) -> Nat],
           \A c \in LiveIn(old) : taken[c] <= old[c].qty,
           NEW h \in [LiveIn(new) -> LiveIn(old)], ComesFrom(old, new, taken, h),
           NEW A \in SUBSET LiveIn(new), NEW B \in SUBSET LiveIn(old),
           \A c \in A : h[c] \in B
    PROVE  /\ Total([d \in B |-> taken[d]]) \in Nat
           /\ SumIn(new, A) + Total([d \in B |-> taken[d]]) <= SumIn(old, B)
<1> DEFINE t == [d \in B |-> taken[d]]
           rest == [d \in B |-> old[d].qty - taken[d]]
           i == [c \in A |-> h[c]]
<1>1. IsFiniteSet(B) /\ QtyOf(old, B) \in [B -> Nat] /\ SumIn(old, B) \in Nat
      /\ QtyOf(new, A) \in [A -> Nat] /\ SumIn(new, A) \in Nat
  BY SumInType
<1>2. t \in [B -> Nat] /\ rest \in [B -> Nat]
  <2>1. \A d \in B : taken[d] \in Nat /\ old[d].qty \in Nat /\ taken[d] <= old[d].qty
    BY TableShape
  <2>2. \A d \in B : old[d].qty - taken[d] \in Nat
    BY <2>1
  <2> QED BY <2>1, <2>2
<1>3. \A d \in B : QtyOf(old, B)[d] = t[d] + rest[d]
  <2>1. \A d \in B : taken[d] \in Nat /\ old[d].qty \in Nat
    BY TableShape
  <2> QED BY <2>1 DEF QtyOf
<1>4. i \in [A -> B] /\ \A x \in A, y \in A : i[x] = i[y] => x = y
  BY DEF ComesFrom
<1>5. \A c \in A : QtyOf(new, A)[c] <= rest[i[c]]
  BY DEF QtyOf, ComesFrom
<1> HIDE DEF t, rest, i
<1>6. Total(QtyOf(old, B)) = Total(t) + Total(rest)
  BY <1>1, <1>2, <1>3, TotalPlus
<1>7. Total(QtyOf(new, A)) <= Total(rest)
  BY <1>1, <1>2, <1>4, <1>5, TotalInjects
<1>8. Total(t) \in Nat /\ Total(rest) \in Nat
  BY <1>1, <1>2, TotalType
<1>9. SumIn(new, A) + Total(t) <= SumIn(old, B)
  BY <1>1, <1>6, <1>7, <1>8 DEF SumIn
<1> QED BY <1>8, <1>9 DEF t

\* Hence no plan gains, and a row's claims shrink by what was taken off them.
LEMMA ShrinkHeld ==
    ASSUME NEW old \in ClaimTable, NEW new, NEW taken, Shrinks(old, new, taken)
    PROVE  /\ \A pl \in Plan : SumIn(new, OwnIn(new, pl)) <= SumIn(old, OwnIn(old, pl))
           /\ \A r \in Row :
                 /\ Total([d \in OnRow(old, r) |-> taken[d]]) \in Nat
                 /\ SumIn(new, OnRow(new, r)) + Total([d \in OnRow(old, r) |-> taken[d]])
                      <= SumIn(old, OnRow(old, r))
<1>1. PICK h \in [LiveIn(new) -> LiveIn(old)] : ComesFrom(old, new, taken, h)
  BY DEF Shrinks
<1>2. new \in ClaimTable /\ taken \in [LiveIn(old) -> Nat]
      /\ \A c \in LiveIn(old) : taken[c] <= old[c].qty
  BY DEF Shrinks
<1>3. ASSUME NEW pl \in Plan
      PROVE  SumIn(new, OwnIn(new, pl)) <= SumIn(old, OwnIn(old, pl))
  <2>1. OwnIn(new, pl) \in SUBSET LiveIn(new) /\ OwnIn(old, pl) \in SUBSET LiveIn(old)
    BY DEF OwnIn
  <2>2. \A c \in OwnIn(new, pl) : h[c] \in OwnIn(old, pl)
    BY <1>1 DEF OwnIn, ComesFrom
  <2> DEFINE T == Total([d \in OwnIn(old, pl) |-> taken[d]])
  <2>3. T \in Nat /\ SumIn(new, OwnIn(new, pl)) + T <= SumIn(old, OwnIn(old, pl))
    BY <1>1, <1>2, <2>1, <2>2, ShrinkSum
  <2>4. SumIn(new, OwnIn(new, pl)) \in Nat /\ SumIn(old, OwnIn(old, pl)) \in Nat
    BY <1>2, <2>1, SumInType
  <2> HIDE DEF T
  <2> QED BY <2>3, <2>4
<1>4. ASSUME NEW r \in Row
      PROVE  /\ Total([d \in OnRow(old, r) |-> taken[d]]) \in Nat
             /\ SumIn(new, OnRow(new, r)) + Total([d \in OnRow(old, r) |-> taken[d]])
                  <= SumIn(old, OnRow(old, r))
  <2>1. OnRow(new, r) \in SUBSET LiveIn(new) /\ OnRow(old, r) \in SUBSET LiveIn(old)
    BY DEF OnRow
  <2>2. \A c \in OnRow(new, r) : h[c] \in OnRow(old, r)
    BY <1>1 DEF OnRow, ComesFrom
  <2> QED BY <1>1, <1>2, <2>1, <2>2, ShrinkSum
<1> QED BY <1>3, <1>4

\* Releasing claims takes nothing off the others.
LEMMA ReleasedShrinks ==
    ASSUME NEW old \in ClaimTable, NEW new, NEW taken, Shrinks(old, new, taken), NEW ids
    PROVE  Shrinks(old, Released(new, ids), taken)
<1> DEFINE fin == Released(new, ids)
<1>1. PICK h \in [LiveIn(new) -> LiveIn(old)] : ComesFrom(old, new, taken, h)
  BY DEF Shrinks
<1>2. new \in ClaimTable /\ taken \in [LiveIn(old) -> Nat]
      /\ \A c \in LiveIn(old) : taken[c] <= old[c].qty
  BY DEF Shrinks
<1>3. fin \in ClaimTable
  BY <1>2 DEF Released, ClaimTable
<1>4. \A c \in LiveIn(fin) : c \in LiveIn(new) /\ fin[c] = new[c]
  BY DEF LiveIn, Released, Gone
<1> HIDE DEF fin
<1> DEFINE i == [c \in LiveIn(fin) |-> h[c]]
<1>5. i \in [LiveIn(fin) -> LiveIn(old)]
  BY <1>4
<1>6. ComesFrom(old, fin, taken, i)
  BY <1>1, <1>4, <1>5 DEF ComesFrom
<1> QED BY <1>2, <1>3, <1>5, <1>6 DEF Shrinks, fin

\* Nothing taken, nothing changed.
LEMMA SameShrinks ==
    ASSUME NEW old \in ClaimTable
    PROVE  Shrinks(old, old, [c \in LiveIn(old) |-> 0])
<1> DEFINE h == [c \in LiveIn(old) |-> c]
           z == [c \in LiveIn(old) |-> 0]
<1>1. \A c \in LiveIn(old) : old[c].qty \in Nat
  BY TableShape
<1>2. h \in [LiveIn(old) -> LiveIn(old)] /\ z \in [LiveIn(old) -> Nat]
  OBVIOUS
<1>3. \A c \in LiveIn(old) : h[c] = c /\ z[c] = 0
  OBVIOUS
<1> HIDE DEF h, z
<1>4. ComesFrom(old, old, z, h)
  BY <1>1, <1>2, <1>3 DEF ComesFrom
<1>5. Shrinks(old, old, z)
  BY <1>1, <1>2, <1>3, <1>4 DEF Shrinks
<1> QED BY <1>5 DEF z

-----------------------------------------------------------------------------
(* Consumption                                                             *)

\* The units a delivery takes off every claim.
TakenBy(t) == [c \in LiveIn(claims) |-> IF c \in DOMAIN t THEN t[c] ELSE 0]
Spent(t, c) == c \in DOMAIN t /\ t[c] > 0
KeyOf(t, d) == UsedKeys + Rank(d, Split(t))
Remainder(t, c) == ~Spent(t, c) /\ \E d \in Split(t) : c = KeyOf(t, d)
SplitOf(t, c) == CHOOSE d \in Split(t) : c = KeyOf(t, d)

\* A claim after a consumption is one that was not needed or what is left of one
\* that was split.
LEMMA ConsumedClaim ==
    ASSUME StoreType, NEW cs \in SUBSET Live, NEW q \in Nat, NEW t \in OwnTakes(cs, q),
           NEW c \in LiveIn(Consumed(t))
    PROVE  /\ c \in Claim /\ ~Spent(t, c)
           /\ Remainder(t, c) =>
                 LET d == SplitOf(t, c)
                 IN  /\ d \in Split(t) /\ c = KeyOf(t, d)
                     /\ Consumed(t)[c]
                          = Active(claims[d].plan, claims[d].row, claims[d].qty - t[d])
           /\ ~Remainder(t, c) => Consumed(t)[c] = claims[c] /\ c \in Live
<1>1. c \in Claim /\ Consumed(t)[c].state = "active"
  BY DEF LiveIn
<1>2. ~Spent(t, c)
  BY <1>1 DEF Consumed, Spent, Gone
<1>3. ASSUME Remainder(t, c)
      PROVE  /\ SplitOf(t, c) \in Split(t) /\ c = KeyOf(t, SplitOf(t, c))
             /\ Consumed(t)[c] = Active(claims[SplitOf(t, c)].plan, claims[SplitOf(t, c)].row,
                                        claims[SplitOf(t, c)].qty - t[SplitOf(t, c)])
  <2>1. SplitOf(t, c) \in Split(t) /\ c = KeyOf(t, SplitOf(t, c))
    BY <1>3 DEF Remainder, SplitOf
  <2>2. ~(c \in DOMAIN t /\ t[c] > 0) /\ \E d \in Split(t) : c = UsedKeys + Rank(d, Split(t))
    BY <1>2, <1>3 DEF Spent, Remainder, KeyOf
  <2> QED BY <1>1, <2>1, <2>2 DEF Consumed, SplitOf, KeyOf
<1>4. ASSUME ~Remainder(t, c) PROVE Consumed(t)[c] = claims[c] /\ c \in Live
  <2>1. ~(c \in DOMAIN t /\ t[c] > 0) /\ ~ \E d \in Split(t) : c = UsedKeys + Rank(d, Split(t))
    BY <1>2, <1>4 DEF Spent, Remainder, KeyOf
  <2>2. Consumed(t)[c] = claims[c]
    BY <1>1, <2>1 DEF Consumed
  <2> QED BY <1>1, <2>2 DEF Live
<1> QED BY <1>1, <1>2, <1>3, <1>4

LEMMA ConsumedShrinks ==
    ASSUME StoreType, NEW cs \in SUBSET Live, NEW q \in Nat, NEW t \in OwnTakes(cs, q)
    PROVE  Shrinks(claims, Consumed(t), TakenBy(t))
<1> DEFINE new == Consumed(t)
           taken == TakenBy(t)
           from(c) == IF Remainder(t, c) THEN SplitOf(t, c) ELSE c
           h == [c \in LiveIn(new) |-> from(c)]
<1>1. claims \in ClaimTable /\ new \in ClaimTable
  BY ConsumedShape DEF StoreType, ClaimTable
<1>2. t \in [cs -> Nat] /\ DOMAIN t = cs /\ Live = LiveIn(claims)
  <2>1. t \in [cs -> 0..q]
    BY DEF OwnTakes
  <2>2. 0..q \subseteq Nat
    OBVIOUS
  <2> QED BY <2>1, <2>2 DEF Live, LiveIn
<1>3. taken \in [LiveIn(claims) -> Nat]
  BY <1>2 DEF TakenBy
<1>4. \A c \in LiveIn(claims) : taken[c] <= claims[c].qty /\ claims[c].qty \in Nat
  <2> SUFFICES ASSUME NEW c \in LiveIn(claims)
               PROVE taken[c] <= claims[c].qty /\ claims[c].qty \in Nat
    OBVIOUS
  <2>1. claims[c].qty \in Nat
    BY <1>1, TableShape
  <2>2. CASE c \in cs
    <3>1. t[c] <= claims[c].qty
      <4>1. \A x \in cs : t[x] <= claims[x].qty
        <5> SUFFICES ASSUME NEW x \in cs PROVE t[x] <= claims[x].qty
          OBVIOUS
        <5>1. claims[x].row \in Row
          BY LiveShape DEF ClaimRow
        <5> QED BY <5>1, OffRowFits
      <4> QED BY <2>2, <4>1
    <3> QED BY <1>2, <2>1, <2>2, <3>1 DEF TakenBy
  <2>3. CASE c \notin cs
    BY <1>2, <2>1, <2>3 DEF TakenBy
  <2> QED BY <2>2, <2>3
<1>5. ASSUME NEW c \in LiveIn(new)
      PROVE  /\ from(c) \in LiveIn(claims)
             /\ new[c].plan = claims[from(c)].plan /\ new[c].row = claims[from(c)].row
             /\ new[c].qty <= claims[from(c)].qty - taken[from(c)]
  <2>1. CASE Remainder(t, c)
    <3>1. /\ SplitOf(t, c) \in Split(t)
          /\ new[c] = Active(claims[SplitOf(t, c)].plan, claims[SplitOf(t, c)].row,
                             claims[SplitOf(t, c)].qty - t[SplitOf(t, c)])
      BY <2>1, ConsumedClaim
    <3> DEFINE d == SplitOf(t, c)
    <3>2. d \in cs /\ d \in LiveIn(claims)
      BY <1>2, <3>1 DEF Split
    <3>3. from(c) = d /\ taken[d] = t[d]
      BY <1>2, <2>1, <3>2 DEF TakenBy
    <3>4. t[d] \in Nat /\ claims[d].qty \in Nat
      BY <1>2, <1>4, <3>2
    <3>5. new[c].plan = claims[d].plan /\ new[c].row = claims[d].row
          /\ new[c].qty = claims[d].qty - t[d]
      BY <3>1 DEF Active
    <3> HIDE DEF d, from, new, taken
    <3> QED BY <3>2, <3>3, <3>4, <3>5
  <2>2. CASE ~Remainder(t, c)
    <3>1. new[c] = claims[c] /\ c \in LiveIn(claims) /\ ~Spent(t, c)
      BY <1>2, <2>2, ConsumedClaim
    <3>2. taken[c] = 0
      <4>1. c \in cs => t[c] \in Nat /\ ~(t[c] > 0)
        BY <1>2, <3>1 DEF Spent
      <4> QED BY <1>2, <3>1, <4>1 DEF TakenBy
    <3>3. from(c) = c /\ claims[c].qty \in Nat
      BY <1>4, <2>2, <3>1
    <3> HIDE DEF from, new, taken
    <3> QED BY <3>1, <3>2, <3>3
  <2> QED BY <2>1, <2>2
<1>6. ASSUME NEW c \in LiveIn(new), NEW d \in LiveIn(new), from(c) = from(d) PROVE c = d
  <2>1. ~Spent(t, c) /\ ~Spent(t, d)
    BY ConsumedClaim
  <2>2. Remainder(t, c) => SplitOf(t, c) \in Split(t) /\ c = KeyOf(t, SplitOf(t, c))
    BY ConsumedClaim
  <2>3. Remainder(t, d) => SplitOf(t, d) \in Split(t) /\ d = KeyOf(t, SplitOf(t, d))
    BY ConsumedClaim
  <2>4. \A x \in Split(t) : Spent(t, x)
    BY DEF Split, Spent
  <2> QED BY <1>6, <2>1, <2>2, <2>3, <2>4
<1> HIDE DEF from, new, taken
<1>7. h \in [LiveIn(new) -> LiveIn(claims)]
  BY <1>5
<1>8. ComesFrom(claims, new, taken, h)
  BY <1>5, <1>6, <1>7 DEF ComesFrom
<1> HIDE DEF h
<1>9. Shrinks(claims, new, taken)
  BY <1>1, <1>3, <1>4, <1>7, <1>8 DEF Shrinks
<1> QED BY <1>9 DEF new, taken

-----------------------------------------------------------------------------
(* Reservation                                                             *)

\* The claims after a reservation of g[r] units of each row r.
RowsOf(g) == {r \in Row : g[r] > 0}
Reserved(cs, n, pl, g) ==
    [c \in Claim |->
        IF \E r \in RowsOf(g) : c = n + Rank(r, RowsOf(g))
        THEN LET r == CHOOSE x \in RowsOf(g) : c = n + Rank(x, RowsOf(g))
             IN  Active(pl, r, g[r])
        ELSE cs[c]]

LEMMA ReservedGrows ==
    ASSUME NEW old \in ClaimTable, NEW new \in ClaimTable, NEW n \in Nat, NEW pl \in Plan,
           NEW g \in [Row -> Nat], new = Reserved(old, n, pl, g)
    PROVE  /\ SumIn(new, OwnIn(new, pl)) <= SumIn(old, OwnIn(old, pl)) + Total(g)
           /\ \A k \in Plan \ {pl} : SumIn(new, OwnIn(new, k)) <= SumIn(old, OwnIn(old, k))
           /\ \A r \in Row : SumIn(new, OnRow(new, r)) <= SumIn(old, OnRow(old, r)) + g[r]
<1> DEFINE rows == RowsOf(g)
           fresh == {c \in LiveIn(new) : \E r \in rows : c = n + Rank(r, rows)}
           rowAt(c) == CHOOSE x \in rows : c = n + Rank(x, rows)
<1>1. ASSUME NEW c \in fresh
      PROVE  /\ rowAt(c) \in rows /\ rowAt(c) \in Row /\ c = n + Rank(rowAt(c), rows)
             /\ new[c].plan = pl /\ new[c].row = rowAt(c) /\ new[c].qty = g[rowAt(c)]
  <2>1. rowAt(c) \in rows /\ c = n + Rank(rowAt(c), rows) /\ c \in Claim
    BY DEF LiveIn
  <2>0. rowAt(c) \in Row
    BY <2>1 DEF RowsOf
  <2>2. new[c] = Active(pl, rowAt(c), g[rowAt(c)])
    BY <2>1 DEF Reserved
  <2> HIDE DEF rowAt, rows
  <2> QED BY <2>0, <2>1, <2>2 DEF Active
<1>2. ASSUME NEW c \in LiveIn(new) \ fresh PROVE new[c] = old[c] /\ c \in LiveIn(old)
  BY DEF LiveIn, Reserved
<1> HIDE DEF fresh, rowAt, rows
<1>3. fresh \in SUBSET LiveIn(new)
  BY DEF fresh
<1>4. IsFiniteSet(Row)
  BY KeySets
<1>5. ASSUME NEW A \in SUBSET LiveIn(new), NEW B \in SUBSET LiveIn(old), A \ fresh \subseteq B
      PROVE  /\ SumIn(new, A) \in Nat /\ SumIn(old, B) \in Nat /\ SumIn(new, A \cap fresh) \in Nat
             /\ SumIn(new, A) <= SumIn(new, A \cap fresh) + SumIn(old, B)
  <2> DEFINE N == A \cap fresh
             O == A \ fresh
  <2>1. N \in SUBSET LiveIn(new) /\ O \in SUBSET LiveIn(new) /\ A = N \cup O
    OBVIOUS
  <2> HIDE DEF N, O
  <2>2. /\ IsFiniteSet(N) /\ IsFiniteSet(O) /\ IsFiniteSet(B)
        /\ QtyOf(new, A) \in [A -> Nat] /\ QtyOf(new, O) \in [O -> Nat]
        /\ QtyOf(old, B) \in [B -> Nat]
        /\ SumIn(new, A) \in Nat /\ SumIn(new, N) \in Nat /\ SumIn(new, O) \in Nat
        /\ SumIn(old, B) \in Nat
    BY <2>1, SumInType
  <2>3. /\ [x \in N |-> QtyOf(new, A)[x]] = QtyOf(new, N)
        /\ [x \in O |-> QtyOf(new, A)[x]] = QtyOf(new, O)
    BY <2>1 DEF QtyOf
  <2>4. SumIn(new, A) <= SumIn(new, N) + SumIn(new, O)
    <3> DEFINE f == QtyOf(new, A)
    <3>1. f \in [N \cup O -> Nat]
      BY <2>1, <2>2
    <3>2. IsFiniteSet(N) /\ IsFiniteSet(O)
      BY <2>2
    <3> HIDE DEF f
    <3>3. Total(f) <= Total([x \in N |-> f[x]]) + Total([x \in O |-> f[x]])
      BY <3>1, <3>2, TotalParts
    <3> QED BY <2>3, <3>3 DEF SumIn, f
  <2>5. O \subseteq B /\ \A x \in O : QtyOf(new, O)[x] <= QtyOf(old, B)[x]
    <3>1. O \subseteq B
      BY <1>5 DEF O
    <3>2. ASSUME NEW x \in O PROVE QtyOf(new, O)[x] <= QtyOf(old, B)[x]
      <4>1. new[x] = old[x]
        BY <1>2, <2>1 DEF O
      <4>2. QtyOf(new, O)[x] = QtyOf(old, B)[x]
        BY <3>1, <4>1 DEF QtyOf
      <4>3. QtyOf(new, O)[x] \in Nat
        BY <2>2
      <4> QED BY <4>2, <4>3
    <3> QED BY <3>1, <3>2
  <2>6. SumIn(new, O) <= SumIn(old, B)
    BY <2>2, <2>5, TotalWithin DEF SumIn
  <2>7. SumIn(new, A) <= SumIn(new, N) + SumIn(old, B)
    BY <2>2, <2>4, <2>6
  <2> QED BY <2>2, <2>7 DEF N
<1>6. \A c \in fresh, d \in fresh : rowAt(c) = rowAt(d) => c = d
  BY <1>1
<1>7. SumIn(new, OwnIn(new, pl)) <= SumIn(old, OwnIn(old, pl)) + Total(g)
  <2> DEFINE A == OwnIn(new, pl)
             B == OwnIn(old, pl)
             N == A \cap fresh
             h == [c \in N |-> rowAt(c)]
  <2>1. A \in SUBSET LiveIn(new) /\ B \in SUBSET LiveIn(old) /\ A \ fresh \subseteq B
    BY <1>2 DEF OwnIn
  <2>2. N \in SUBSET LiveIn(new)
    BY <1>3
  <2>3. h \in [N -> Row] /\ \A x \in N, y \in N : h[x] = h[y] => x = y
    BY <1>1, <1>6
  <2>4. \A x \in N : QtyOf(new, N)[x] <= g[h[x]]
    <3> SUFFICES ASSUME NEW x \in N PROVE QtyOf(new, N)[x] <= g[h[x]]
      OBVIOUS
    <3>1. QtyOf(new, N)[x] = g[h[x]]
      BY <1>1 DEF QtyOf
    <3>2. g[h[x]] \in Nat
      BY <2>3
    <3> HIDE DEF h, N
    <3> QED BY <3>1, <3>2
  <2> HIDE DEF A, B, N, h
  <2>5. QtyOf(new, N) \in [N -> Nat] /\ SumIn(new, N) \in Nat
    BY <2>2, SumInType
  <2>6. SumIn(new, N) <= Total(g) /\ Total(g) \in Nat
    BY <1>4, <2>3, <2>4, <2>5, TotalInjects, TotalType DEF SumIn
  <2>7. SumIn(new, A) \in Nat /\ SumIn(old, B) \in Nat
        /\ SumIn(new, A) <= SumIn(new, N) + SumIn(old, B)
    BY <1>5, <2>1 DEF N
  <2>8. SumIn(new, A) <= SumIn(old, B) + Total(g)
    BY <2>5, <2>6, <2>7
  <2> QED BY <2>8 DEF A, B
<1>8. ASSUME NEW k \in Plan \ {pl}
      PROVE  SumIn(new, OwnIn(new, k)) <= SumIn(old, OwnIn(old, k))
  <2> DEFINE A == OwnIn(new, k)
             B == OwnIn(old, k)
  <2>1. A \in SUBSET LiveIn(new) /\ B \in SUBSET LiveIn(old) /\ A \ fresh \subseteq B
    BY <1>2 DEF OwnIn
  <2>2. A \cap fresh = {}
    BY <1>1 DEF OwnIn
  <2> HIDE DEF A, B
  <2>3. SumIn(new, A \cap fresh) = 0
    <3>1. QtyOf(new, {}) \in [{} -> Nat]
      BY DEF QtyOf
    <3>2. Total(QtyOf(new, {})) = 0
      BY <3>1, TotalZero
    <3> QED BY <2>2, <3>2 DEF SumIn
  <2>4. SumIn(new, A) \in Nat /\ SumIn(old, B) \in Nat
        /\ SumIn(new, A) <= SumIn(new, A \cap fresh) + SumIn(old, B)
    BY <1>5, <2>1
  <2>5. SumIn(new, A) <= SumIn(old, B)
    BY <2>3, <2>4
  <2> QED BY <2>5 DEF A, B
<1>9. ASSUME NEW r \in Row
      PROVE  SumIn(new, OnRow(new, r)) <= SumIn(old, OnRow(old, r)) + g[r]
  <2> DEFINE A == OnRow(new, r)
             B == OnRow(old, r)
             N == A \cap fresh
             one == [x \in Row |-> IF x = r THEN g[r] ELSE 0]
             h == [c \in N |-> rowAt(c)]
  <2>1. A \in SUBSET LiveIn(new) /\ B \in SUBSET LiveIn(old) /\ A \ fresh \subseteq B
    BY <1>2 DEF OnRow
  <2>2. N \in SUBSET LiveIn(new)
    BY <1>3
  <2>3. h \in [N -> Row] /\ \A x \in N, y \in N : h[x] = h[y] => x = y
    BY <1>1, <1>6
  <2>4. one \in [Row -> Nat] /\ one[r] = g[r] /\ \A x \in Row \ {r} : one[x] = 0
    OBVIOUS
  <2>5. \A x \in N : QtyOf(new, N)[x] <= one[h[x]]
    <3> SUFFICES ASSUME NEW x \in N PROVE QtyOf(new, N)[x] <= one[h[x]]
      OBVIOUS
    <3>1. new[x].row = rowAt(x) /\ new[x].qty = g[rowAt(x)] /\ h[x] = rowAt(x)
      BY <1>1
    <3>2. new[x].row = r
      BY DEF OnRow
    <3>3. QtyOf(new, N)[x] = one[h[x]] /\ one[h[x]] \in Nat
      BY <2>4, <3>1, <3>2 DEF QtyOf
    <3> HIDE DEF h, N, one
    <3> QED BY <3>3
  <2> HIDE DEF A, B, N, h, one
  <2>6. QtyOf(new, N) \in [N -> Nat] /\ SumIn(new, N) \in Nat
    BY <2>2, SumInType
  <2>7. SumIn(new, N) <= Total(one) /\ Total(one) = g[r] /\ g[r] \in Nat
    <3>1. SumIn(new, N) <= Total(one)
      BY <1>4, <2>3, <2>4, <2>5, <2>6, TotalInjects DEF SumIn
    <3>2. Total(one) = one[r]
      BY <1>4, <2>4, TotalSingle
    <3> QED BY <2>4, <3>1, <3>2
  <2>8. SumIn(new, A) \in Nat /\ SumIn(old, B) \in Nat
        /\ SumIn(new, A) <= SumIn(new, N) + SumIn(old, B)
    BY <1>5, <2>1 DEF N
  <2>9. SumIn(new, A) <= SumIn(old, B) + g[r]
    BY <2>6, <2>7, <2>8
  <2> QED BY <2>9 DEF A, B
<1> QED BY <1>7, <1>8, <1>9

-----------------------------------------------------------------------------
(* The steps on claims                                                     *)

LEMMA SumsView ==
    /\ Live = LiveIn(claims)
    /\ \A pl \in Plan : /\ Held(pl) = SumIn(claims, OwnIn(claims, pl))
                        /\ Held(pl)' = SumIn(claims', OwnIn(claims', pl))
    /\ \A r \in Row : /\ Claimed(r) = SumIn(claims, OnRow(claims, r))
                      /\ Claimed(r)' = SumIn(claims', OnRow(claims', r))
BY DEF Held, Claimed, Sum, SumIn, QtyOf, Own, OwnIn, OnRow, Live, LiveIn

LEMMA SumsType ==
    ASSUME StoreType
    PROVE  /\ claims \in ClaimTable
           /\ \A pl \in Plan : Held(pl) \in Nat
           /\ \A r \in Row : Claimed(r) \in Nat /\ stock[r] \in Nat
<1>1. claims \in ClaimTable
  BY DEF StoreType, ClaimTable
<1>2. ASSUME NEW pl \in Plan PROVE Held(pl) \in Nat
  <2>1. OwnIn(claims, pl) \in SUBSET LiveIn(claims)
    BY DEF OwnIn
  <2> QED BY <1>1, <2>1, SumInType, SumsView
<1>3. ASSUME NEW r \in Row PROVE Claimed(r) \in Nat
  <2>1. OnRow(claims, r) \in SUBSET LiveIn(claims)
    BY DEF OnRow
  <2> QED BY <1>1, <2>1, SumInType, SumsView
<1>4. ASSUME NEW r \in Row PROVE stock[r] \in Nat
  <2>1. stock[r] \in 0..MaxUnits
    BY DEF StoreType
  <2> QED BY <2>1
<1> QED BY <1>1, <1>2, <1>3, <1>4

LEMMA SumsTypeAfter ==
    ASSUME StoreType'
    PROVE  /\ claims' \in ClaimTable
           /\ \A pl \in Plan : Held(pl)' \in Nat
           /\ \A r \in Row : Claimed(r)' \in Nat
<1>1. claims' \in ClaimTable
  BY DEF StoreType, ClaimTable
<1>2. ASSUME NEW pl \in Plan PROVE Held(pl)' \in Nat
  <2>1. OwnIn(claims', pl) \in SUBSET LiveIn(claims')
    BY DEF OwnIn
  <2> QED BY <1>1, <2>1, SumInType, SumsView
<1>3. ASSUME NEW r \in Row PROVE Claimed(r)' \in Nat
  <2>1. OnRow(claims', r) \in SUBSET LiveIn(claims')
    BY DEF OnRow
  <2> QED BY <1>1, <2>1, SumInType, SumsView
<1> QED BY <1>1, <1>2, <1>3

LEMMA FreeUnitsAre ==
    ASSUME StoreType, NEW r \in Row
    PROVE  /\ FreeUnits(r) \in Nat
           /\ Claimed(r) <= stock[r] => FreeUnits(r) = stock[r] - Claimed(r)
<1>1. Claimed(r) \in Nat /\ stock[r] \in Nat
  BY SumsType
<1> QED BY <1>1 DEF FreeUnits, AtLeast

\* What every step but a stocktake keeps: claims that fit a row go on fitting it.
RowsFit == \A r \in Row : Claimed(r) <= stock[r] => Claimed(r)' <= stock'[r]
NoneGains == \A pl \in Plan : Held(pl)' <= Held(pl)

LEMMA ReleaseClaims ==
    ASSUME FloorInv, NEW p \in Proc, Release(p)
    PROVE  NoneGains /\ RowsFit
<1> DEFINE zero == [c \in LiveIn(claims) |-> 0]
           ids == req[p].ids
<1>1. StoreType /\ StoreType'
  BY ReleaseSafe DEF FloorInv, TypeOK
<1>2. claims \in ClaimTable /\ claims' = Released(claims, ids) /\ UNCHANGED stock
  BY <1>1, SumsType DEF Release
<1>3. Shrinks(claims, claims, zero)
  BY <1>2, SameShrinks
<1> HIDE DEF zero, ids
<1>4. Shrinks(claims, claims', zero)
  BY <1>2, <1>3, ReleasedShrinks
<1>5. \A pl \in Plan : SumIn(claims', OwnIn(claims', pl)) <= SumIn(claims, OwnIn(claims, pl))
  BY <1>2, <1>4, ShrinkHeld
<1>6. ASSUME NEW r \in Row PROVE Claimed(r)' <= Claimed(r)
  <2> DEFINE T == Total([d \in OnRow(claims, r) |-> zero[d]])
  <2>1. T \in Nat /\ SumIn(claims', OnRow(claims', r)) + T <= SumIn(claims, OnRow(claims, r))
    BY <1>2, <1>4, ShrinkHeld
  <2> HIDE DEF T
  <2>2. T \in Nat /\ Claimed(r)' + T <= Claimed(r)
    BY <2>1, SumsView
  <2>3. Claimed(r) \in Nat /\ Claimed(r)' \in Nat
    BY <1>1, SumsType, SumsTypeAfter
  <2> QED BY <2>2, <2>3
<1>7. NoneGains
  BY <1>5, SumsView DEF NoneGains
<1>8. RowsFit
  <2> SUFFICES ASSUME NEW r \in Row, Claimed(r) <= stock[r] PROVE Claimed(r)' <= stock'[r]
    BY DEF RowsFit
  <2>1. Claimed(r) \in Nat /\ stock[r] \in Nat /\ stock'[r] = stock[r]
    BY <1>1, <1>2, SumsType
  <2>2. Claimed(r)' \in Nat
    BY <1>1, SumsTypeAfter
  <2> QED BY <1>6, <2>1, <2>2
<1> QED BY <1>7, <1>8

LEMMA DeliverClaims ==
    ASSUME FloorInv, NEW p \in Proc, Deliver(p)
    PROVE  NoneGains /\ RowsFit
<1> DEFINE j == req[p].job
           mine == IF PlanLine(j) THEN Own(PlanAt(j)) ELSE {}
           q == job[j].qty
<1>1. req[p] \in DeliverReq /\ j \in Jobs /\ StoreType /\ StoreType'
  BY DeliverSafe DEF FloorInv, TypeOK, StepsMatch, Fits, Deliver
<1>2. mine \in SUBSET Live /\ q \in Nat
  <2>1. mine \in SUBSET Live
    BY DEF Own
  <2>2. q \in 1..MaxUnits
    BY <1>1, JobShape DEF JobRow
  <2> QED BY <2>1, <2>2
<1>3. PICK t \in OwnTakes(mine, q) :
         LET left == [r \in Row |-> stock[r] - OffRow(t, r)]
         IN  /\ \E g \in FreeTakes(left, q - Total(t)) : stock' = [r \in Row |-> left[r] - g[r]]
             /\ claims' = IF req[p].last
                          THEN Released(Consumed(t), StillOwn(Consumed(t), PlanAt(j)))
                          ELSE Consumed(t)
  BY DEF Deliver
<1> DEFINE left == [r \in Row |-> stock[r] - OffRow(t, r)]
           taken == TakenBy(t)
<1>4. PICK g \in FreeTakes(left, q - Total(t)) : stock' = [r \in Row |-> left[r] - g[r]]
  BY <1>3
<1>5. claims' = Consumed(t) \/ \E ids \in {StillOwn(Consumed(t), PlanAt(j))} :
           claims' = Released(Consumed(t), ids)
  BY <1>3
<1>6. claims \in ClaimTable
  BY <1>1, SumsType
<1> HIDE DEF q, mine, j
<1>7. Shrinks(claims, Consumed(t), taken)
  BY <1>1, <1>2, ConsumedShrinks
<1>8. Shrinks(claims, claims', taken)
  BY <1>5, <1>6, <1>7, ReleasedShrinks
<1>9. taken \in [LiveIn(claims) -> Nat]
  BY <1>8 DEF Shrinks
<1>10. NoneGains
  <2>1. \A pl \in Plan : SumIn(claims', OwnIn(claims', pl)) <= SumIn(claims, OwnIn(claims, pl))
    BY <1>6, <1>8, ShrinkHeld
  <2> QED BY <2>1, SumsView DEF NoneGains
<1>11. ASSUME NEW r \in Row PROVE Claimed(r)' + OffRow(t, r) <= Claimed(r)
  <2> DEFINE T == Total([d \in OnRow(claims, r) |-> taken[d]])
             S == {c \in DOMAIN t : claims[c].row = r}
  <2>1. T \in Nat /\ Claimed(r)' + T <= Claimed(r)
    BY <1>6, <1>8, ShrinkHeld, SumsView
  <2>2. OffRow(t, r) <= T
    <3> DEFINE a == [c \in S |-> t[c]]
               b == [d \in OnRow(claims, r) |-> taken[d]]
    <3>1. t \in [mine -> 0..q]
      BY DEF OwnTakes
    <3>2. DOMAIN t = mine /\ \A c \in mine : t[c] \in Nat
      <4>1. 0..q \subseteq Nat
        BY <1>2
      <4> QED BY <3>1, <4>1
    <3>3. S \subseteq OnRow(claims, r)
      BY <1>2, <3>2, SumsView DEF OnRow
    <3>4. OnRow(claims, r) \in SUBSET LiveIn(claims)
      BY DEF OnRow
    <3>5. IsFiniteSet(OnRow(claims, r))
      BY <1>6, <3>4, SumInType
    <3>6. a \in [S -> Nat] /\ b \in [OnRow(claims, r) -> Nat]
      BY <1>9, <3>2, <3>4
    <3>7. \A x \in S : a[x] <= b[x]
      <4> SUFFICES ASSUME NEW x \in S PROVE a[x] <= b[x]
        OBVIOUS
      <4>1. x \in LiveIn(claims) /\ x \in DOMAIN t
        BY <3>3, <3>4
      <4>2. taken[x] = t[x]
        BY <4>1 DEF TakenBy
      <4>3. a[x] = t[x] /\ b[x] = t[x] /\ t[x] \in Nat
        BY <3>2, <3>3, <4>1, <4>2
      <4> HIDE DEF a, b
      <4> QED BY <4>3
    <3> HIDE DEF a, b, S
    <3>8. Total(a) <= Total(b)
      BY <3>3, <3>5, <3>6, <3>7, TotalWithin
    <3> QED BY <3>8 DEF OffRow, a, b, S
  <2> HIDE DEF T
  <2>3. OffRow(t, r) \in Nat
    BY <1>1, <1>2, OffRowFits
  <2>4. Claimed(r) \in Nat /\ Claimed(r)' \in Nat
    BY <1>1, SumsType, SumsTypeAfter
  <2> QED BY <2>1, <2>2, <2>3, <2>4
<1>12. RowsFit
  <2> SUFFICES ASSUME NEW r \in Row, Claimed(r) <= stock[r] PROVE Claimed(r)' <= stock'[r]
    BY DEF RowsFit
  <2>1. Claimed(r) \in Nat /\ Claimed(r)' \in Nat /\ stock[r] \in Nat
    BY <1>1, SumsType, SumsTypeAfter
  <2>2. OffRow(t, r) \in Nat
    BY <1>1, <1>2, OffRowFits
  <2>3. FreeUnits(r) = stock[r] - Claimed(r)
    BY <1>1, FreeUnitsAre
  <2>4. g[r] \in Nat /\ g[r] <= FreeUnits(r)
    <3>1. g[r] \in 0..(q - Total(t)) /\ g[r] <= FreeUnits(r)
      BY DEF FreeTakes
    <3> QED BY <3>1
  <2>5. stock'[r] = stock[r] - OffRow(t, r) - g[r]
    BY <1>4
  <2> QED BY <1>11, <2>1, <2>2, <2>3, <2>4, <2>5
<1> QED BY <1>10, <1>12

\* What a plan needs, and what it may still claim.
LEMMA NetWithin ==
    ASSUME StoreType, NEW pl \in Plan
    PROVE  /\ Bom(pl) \in Nat /\ Net(pl) \in Nat
           /\ Held(pl) <= Bom(pl) => Net(pl) <= Bom(pl) - Held(pl)
<1>1. Bom(pl) \in Nat
  <2> DEFINE f == [l \in Lines(pl) |-> Size[l]]
  <2>1. Lines(pl) \in SUBSET Line
    BY DEF Lines
  <2>2. IsFiniteSet(Lines(pl))
    BY <2>1, KeySets, FS_Subset
  <2>3. f \in [Lines(pl) -> Nat]
    <3>1. \A l \in Line : Size[l] \in 1..MaxUnits
      BY LineAssumption
    <3> QED BY <2>1, <3>1
  <2> HIDE DEF f
  <2>4. Total(f) \in Nat
    BY <2>2, <2>3, TotalType
  <2> QED BY <2>4 DEF Bom, f
<1>2. Held(pl) \in Nat
  BY SumsType
<1>3. Available \in Int
  <2>1. Total(stock) \in Nat
    <3>1. stock \in [Row -> Nat]
      <4>1. \A r \in Row : stock[r] \in Nat
        BY SumsType
      <4> QED BY <4>1 DEF StoreType
    <3> QED BY <3>1, KeySets, TotalType
  <2>2. Sum(Live) \in Nat
    BY SumType
  <2> QED BY <2>1, <2>2 DEF Available, AtLeast
<1>4. AtMost(Bom(pl) - Held(pl), Available) \in Int
      /\ AtMost(Bom(pl) - Held(pl), Available) <= Bom(pl) - Held(pl)
  BY <1>1, <1>2, <1>3 DEF AtMost
<1> QED BY <1>1, <1>2, <1>4 DEF Net, AtLeast

LEMMA ReserveClaims ==
    ASSUME FloorInv, NEW p \in Proc, Reserve(p)
    PROVE  /\ req[p].plan \in Plan
           /\ \A k \in Plan \ {req[p].plan} : Held(k)' <= Held(k)
           /\ \A k \in {req[p].plan} : Held(k)' <= Held(k) + Net(k)
           /\ RowsFit
<1> DEFINE pl == req[p].plan
<1>1. StoreType /\ StoreType' /\ pl \in Plan
  <2>1. req[p] \in ReserveReq
    BY DEF Reserve, FloorInv, StepsMatch, Fits
  <2> QED BY <2>1, ReserveSafe DEF FloorInv, TypeOK, ReserveReq
<1>2. PICK g \in [Row -> 0..Net(pl)] :
         /\ \A r \in Row : g[r] <= FreeUnits(r)
         /\ Total(g) = AtMost(Net(pl), Total([r \in Row |-> FreeUnits(r)]))
         /\ claims' = [c \in Claim |->
                IF \E r \in {x \in Row : g[x] > 0} :
                       c = UsedKeys + Rank(r, {x \in Row : g[x] > 0})
                THEN LET r == CHOOSE s \in {x \in Row : g[x] > 0} :
                                  c = UsedKeys + Rank(s, {x \in Row : g[x] > 0})
                     IN  Active(pl, r, g[r])
                ELSE claims[c]]
  BY DEF Reserve
<1>3. UNCHANGED stock
  BY DEF Reserve
<1> HIDE DEF pl
<1>4. g \in [Row -> Nat]
  <2>1. 0..Net(pl) \subseteq Nat
    BY <1>1, NetWithin
  <2> QED BY <2>1
<1>5. UsedKeys \in Nat
  <2>1. {c \in Claim : claims[c] # Unused} \in SUBSET Claim
    OBVIOUS
  <2> QED BY <2>1, KeySets, FS_Subset, FS_CardinalityType DEF UsedKeys
<1>6. claims \in ClaimTable /\ claims' \in ClaimTable
  BY <1>1, SumsType, SumsTypeAfter
<1>7. claims' = Reserved(claims, UsedKeys, pl, g)
  BY <1>2 DEF Reserved, RowsOf
<1>9. /\ SumIn(claims', OwnIn(claims', pl)) <= SumIn(claims, OwnIn(claims, pl)) + Total(g)
      /\ \A k \in Plan \ {pl} :
            SumIn(claims', OwnIn(claims', k)) <= SumIn(claims, OwnIn(claims, k))
      /\ \A r \in Row : SumIn(claims', OnRow(claims', r)) <= SumIn(claims, OnRow(claims, r)) + g[r]
  BY <1>1, <1>4, <1>5, <1>6, <1>7, ReservedGrows
<1>10. Total(g) <= Net(pl) /\ Total(g) \in Nat /\ Net(pl) \in Nat
  <2>1. Total(g) \in Nat /\ Net(pl) \in Nat
    BY <1>1, <1>4, KeySets, TotalType, NetWithin
  <2>2. Total([r \in Row |-> FreeUnits(r)]) \in Nat
    <3> DEFINE f == [r \in Row |-> FreeUnits(r)]
    <3>1. f \in [Row -> Nat]
      BY <1>1, FreeUnitsAre
    <3> HIDE DEF f
    <3>2. Total(f) \in Nat
      BY <3>1, KeySets, TotalType
    <3> QED BY <3>2 DEF f
  <2> QED BY <1>2, <2>1, <2>2, AtMostIs
<1>11. \A k \in Plan \ {pl} : Held(k)' <= Held(k)
  BY <1>9, SumsView
<1>12. ASSUME NEW k \in {pl} PROVE Held(k)' <= Held(k) + Net(k)
  <2>1. k \in Plan /\ Held(k)' <= Held(k) + Total(g) /\ Total(g) <= Net(k)
    BY <1>1, <1>9, <1>10, <1>12, SumsView
  <2>2. Held(k)' \in Nat /\ Held(k) \in Nat /\ Net(k) \in Nat
    BY <1>1, <2>1, SumsType, SumsTypeAfter, NetWithin
  <2> QED BY <1>10, <2>1, <2>2
<1>13. RowsFit
  <2> SUFFICES ASSUME NEW r \in Row, Claimed(r) <= stock[r] PROVE Claimed(r)' <= stock'[r]
    BY DEF RowsFit
  <2>1. Claimed(r) \in Nat /\ Claimed(r)' \in Nat /\ stock[r] \in Nat
    BY <1>1, SumsType, SumsTypeAfter
  <2>2. g[r] <= stock[r] - Claimed(r) /\ g[r] \in Nat
    BY <1>1, <1>2, <1>4, FreeUnitsAre
  <2>3. Claimed(r)' <= Claimed(r) + g[r]
    BY <1>9, SumsView
  <2> QED BY <1>3, <2>1, <2>2, <2>3
<1> QED BY <1>1, <1>11, <1>12, <1>13 DEF pl

-----------------------------------------------------------------------------
(* What a worker that holds a plan may rely on                             *)

ReserveHolds(p, k) == planLock[k] = p /\ Reservable(k)
\* The worker has the plan of line l, and has counted: either this delivery closes
\* it, or it is closed, or another line is still to be delivered.
DeliverHolds(p, l) ==
    /\ planLock[PlanOf[l]] = p
    /\ \/ req[p].last
       \/ plan[PlanOf[l]] \in Closed
       \/ \E m \in Lines(PlanOf[l]) : m # l /\ m \notin DeliveredLines
HeldBy(p) ==
    /\ \A k \in Plan : pc[p] = "reserve" /\ req[p].plan = k => ReserveHolds(p, k)
    /\ \A j \in Job : pc[p] = "deliver" /\ req[p].job = j =>
          /\ req[p].last => PlanLine(j)
          /\ \A l \in Line : job[j].line = l => DeliverHolds(p, l)
LocksHeld == \A p \in Proc : HeldBy(p)

\* What a worker leaves alone: the steps of the others and the plans they hold.
OthersKept(q) ==
    /\ \A p \in Proc \ {q} : pc'[p] = pc[p] /\ req'[p] = req[p]
    /\ \A k \in Plan : planLock[k] \in Proc \ {q} =>
          planLock'[k] = planLock[k] /\ plan'[k] = plan[k] /\ archived'[k] = archived[k]
\* A line becomes delivered only under the lock of its plan.
LinesKept(q) ==
    \A l \in Line : l \in DeliveredLines' => l \in DeliveredLines \/ planLock[PlanOf[l]] = q

LEMMA OthersHeld ==
    ASSUME FloorInv, JobsKept, LocksHeld, NEW q \in Proc, OthersKept(q), LinesKept(q),
           NEW p \in Proc \ {q}
    PROVE  HeldBy(p)'
<1>1. pc'[p] = pc[p] /\ req'[p] = req[p] /\ HeldBy(p)
  BY DEF OthersKept, LocksHeld
<1>2. ASSUME NEW k \in Plan, pc'[p] = "reserve", req'[p].plan = k
      PROVE  ReserveHolds(p, k)'
  <2>1. ReserveHolds(p, k)
    BY <1>1, <1>2 DEF HeldBy
  <2>2. planLock'[k] = planLock[k] /\ plan'[k] = plan[k] /\ archived'[k] = archived[k]
    BY <2>1 DEF OthersKept, ReserveHolds
  <2> QED BY <2>1, <2>2 DEF ReserveHolds, Reservable
<1>3. ASSUME NEW j \in Job, pc'[p] = "deliver", req'[p].job = j
      PROVE  /\ req'[p].last => PlanLine(j)'
             /\ \A l \in Line : job'[j].line = l => DeliverHolds(p, l)'
  <2>1. job'[j].line = job[j].line
    <3>1. j \in Jobs
      BY <1>1, <1>3 DEF FloorInv, StepsMatch, Fits
    <3> QED BY <3>1 DEF JobsKept, Jobs
  <2>2. req'[p].last => PlanLine(j)'
    BY <1>1, <1>3, <2>1 DEF HeldBy, PlanLine
  <2>3. ASSUME NEW l \in Line, job'[j].line = l PROVE DeliverHolds(p, l)'
    <3>1. DeliverHolds(p, l)
      BY <1>1, <1>3, <2>1, <2>3 DEF HeldBy
    <3>2. PlanOf[l] \in Plan
      BY LineAssumption
    <3>3. planLock'[PlanOf[l]] = p /\ planLock[PlanOf[l]] = p
          /\ plan'[PlanOf[l]] = plan[PlanOf[l]]
      BY <3>1, <3>2 DEF OthersKept, DeliverHolds
    <3>4. ASSUME NEW m \in Lines(PlanOf[l]), m \notin DeliveredLines
          PROVE  m \notin DeliveredLines'
      <4>1. m \in Line /\ PlanOf[m] = PlanOf[l]
        BY DEF Lines
      <4> QED BY <3>3, <3>4, <4>1 DEF LinesKept
    <3> QED BY <1>1, <3>1, <3>3, <3>4 DEF DeliverHolds
  <2> QED BY <2>2, <2>3
<1> QED BY <1>2, <1>3 DEF HeldBy

\* A step after which the worker is in neither critical section.
LEMMA LocksKept ==
    ASSUME FloorInv, JobsKept, LocksHeld, NEW q \in Proc, OthersKept(q), LinesKept(q),
           HeldBy(q)' \/ pc'[q] \notin {"reserve", "deliver"}
    PROVE  LocksHeld'
<1>1. HeldBy(q)'
  BY DEF HeldBy
<1>2. \A p \in Proc : HeldBy(p)'
  BY <1>1, OthersHeld
<1> QED BY <1>2 DEF LocksHeld

\* No job becomes delivered.
LEMMA NoLineDelivered ==
    ASSUME FloorInv, JobsKept, NEW q,
           \A j \in Job : job'[j].status = "delivered" => job[j].status = "delivered"
    PROVE  LinesKept(q)
<1> SUFFICES ASSUME NEW l \in Line, l \in DeliveredLines' PROVE l \in DeliveredLines
  BY DEF LinesKept
<1>1. PICK j \in Job : job'[j].status = "delivered" /\ job'[j].line = l
  BY DEF DeliveredLines
<1>2. job[j].status = "delivered" /\ job[j].line = l
  BY <1>1 DEF JobsKept
<1> QED BY <1>2 DEF DeliveredLines

\* The worker's own step moves no other worker.
LEMMA OnlyItMoves ==
    ASSUME FloorInv, NEW q \in Proc, JobStep(q) \/ PlanStep(q) \/ Crash(q)
    PROVE  \A p \in Proc \ {q} : pc'[p] = pc[p] /\ req'[p] = req[p]
<1> DEFINE Alone == \A p \in Proc \ {q} : pc'[p] = pc[p] /\ req'[p] = req[p]
<1>0. pc \in [Proc -> Step] /\ req \in [Proc -> Request]
  BY DEF FloorInv, TypeOK, WorkerType
<1>1. \A step, request : Keep(q, step, request) => Alone
  BY <1>0 DEF Keep, Goto
<1>2. \A step, request : Begin(q, step, request) => Alone
  BY <1>1 DEF Begin
<1>3. Done(q) => Alone
  BY <1>0 DEF Done, Goto
<1>4. \A step : Goto(q, step) /\ UNCHANGED req => Alone
  BY <1>0 DEF Goto
<1> HIDE DEF Alone
<1>5. CASE JobStep(q)
  <2>1. StartBoard(q) \/ StartClaim(q) => Alone
    BY <1>2 DEF StartBoard, StartClaim
  <2>2. StartStatus(q) \/ StartCancel(q) \/ StartEdit(q) \/ StartDeliver(q) => Alone
    BY <1>2 DEF StartStatus, StartCancel, StartEdit, StartDeliver
  <2>3. StartCreate(q) \/ LockDelivery(q) => Alone
    BY <1>1 DEF StartCreate, LockDelivery
  <2>4. Recheck(q) => Alone
    BY <1>3, <1>4 DEF Recheck
  <2>5. ClaimJob(q) \/ SetStatus(q) \/ Edit(q) \/ RefuseDelivery(q) \/ Deliver(q) => Alone
    BY <1>3 DEF ClaimJob, SetStatus, Edit, RefuseDelivery, Deliver
  <2> QED BY <1>5, <2>1, <2>2, <2>3, <2>4, <2>5 DEF JobStep, Alone
<1>6. CASE PlanStep(q)
  <2>1. StartPush(q) \/ StartLead(q) \/ StartSetPlan(q) => Alone
    BY <1>2 DEF StartPush, StartLead, StartSetPlan
  <2>2. StartArchive(q) \/ StartRelease(q) \/ StartReserve(q) => Alone
    BY <1>2 DEF StartArchive, StartRelease, StartReserve
  <2>3. ReadLines(q) \/ ListClaims(q) => Alone
    BY <1>1 DEF ReadLines, ListClaims
  <2>4. SavePlan(q) \/ LockPlan(q) => Alone
    BY <1>3, <1>4 DEF SavePlan, LockPlan
  <2>5. Push(q) \/ Lead(q) \/ Release(q) \/ RefuseReserve(q) \/ Reserve(q) => Alone
    BY <1>3 DEF Push, Lead, Release, RefuseReserve, Reserve
  <2> QED BY <1>6, <2>1, <2>2, <2>3, <2>4, <2>5 DEF PlanStep, Alone
<1>7. CASE Crash(q)
  BY <1>3, <1>7 DEF Crash, Alone
<1> QED BY <1>5, <1>6, <1>7

\* A step that touches no plan and no lock and delivers nothing.
LEMMA QuietLocks ==
    ASSUME FloorInv, JobsKept, LocksHeld, NEW q \in Proc,
           JobStep(q) \/ PlanStep(q) \/ Crash(q), UNCHANGED <<plans, locks>>,
           \A j \in Job : job'[j].status = "delivered" => job[j].status = "delivered",
           pc'[q] \notin {"reserve", "deliver"}
    PROVE  LocksHeld'
<1>1. OthersKept(q)
  BY OnlyItMoves DEF OthersKept, plans, locks
<1> QED BY <1>1, NoLineDelivered, LocksKept

LEMMA BeginLocks ==
    ASSUME FloorInv, JobsKept, LocksHeld, NEW q \in Proc, JobStep(q) \/ PlanStep(q),
           NEW step \in Step \ {"reserve", "deliver"},
           UNCHANGED <<job, plans, locks>>, Goto(q, step)
    PROVE  LocksHeld'
<1>1. pc'[q] = step
  BY DEF Goto, FloorInv, TypeOK, WorkerType
<1> QED BY <1>1, QuietLocks

LEMMA StartLocks ==
    ASSUME FloorInv, JobsKept, LocksHeld, NEW q \in Proc,
           \/ StartBoard(q) \/ StartClaim(q) \/ StartStatus(q) \/ StartCancel(q)
           \/ StartEdit(q) \/ StartDeliver(q) \/ RefuseDelivery(q)
           \/ StartPush(q) \/ StartLead(q) \/ StartSetPlan(q) \/ StartArchive(q)
           \/ StartRelease(q) \/ StartReserve(q) \/ RefuseReserve(q)
           \/ ReadLines(q) \/ ListClaims(q) \/ Release(q)
    PROVE  LocksHeld'
<1> DEFINE Quiet == /\ UNCHANGED <<job, plans, locks>>
                    /\ \E step \in Step \ {"reserve", "deliver"} : Goto(q, step)
<1>1. \A step \in Step \ {"reserve", "deliver"} : \A request :
          Begin(q, step, request) => Quiet
  BY DEF Begin, Keep, board, plans
<1> USE DEF Step
<1> HIDE DEF Quiet
<1>2. StartBoard(q) \/ StartClaim(q) \/ StartStatus(q) \/ StartCancel(q) => Quiet
  BY <1>1 DEF StartBoard, StartClaim, StartStatus, StartCancel
<1>3. StartEdit(q) \/ StartDeliver(q) => Quiet
  BY <1>1 DEF StartEdit, StartDeliver
<1>4. StartPush(q) \/ StartLead(q) \/ StartSetPlan(q) => Quiet
  BY <1>1 DEF StartPush, StartLead, StartSetPlan
<1>5. StartArchive(q) \/ StartRelease(q) \/ StartReserve(q) => Quiet
  BY <1>1 DEF StartArchive, StartRelease, StartReserve
<1>6. RefuseDelivery(q) \/ RefuseReserve(q) \/ Release(q) => Quiet
  BY DEF RefuseDelivery, RefuseReserve, Release, Done, Quiet, board, plans
<1>7. ReadLines(q) \/ ListClaims(q) => Quiet
  BY DEF ReadLines, ListClaims, Keep, Quiet, board, plans
<1>8. Quiet
  BY <1>2, <1>3, <1>4, <1>5, <1>6, <1>7
<1>9. JobStep(q) \/ PlanStep(q)
  BY DEF JobStep, PlanStep
<1> QED BY <1>8, <1>9, BeginLocks DEF Quiet

\* A job is delivered by Deliver only.
LEMMA JobLocks ==
    ASSUME FloorInv, JobsKept, LocksHeld, NEW q \in Proc,
           StartCreate(q) \/ Recheck(q) \/ ClaimJob(q) \/ SetStatus(q) \/ Edit(q)
    PROVE  LocksHeld'
<1>0. pc \in [Proc -> Step] /\ job \in [Job -> {NoJob} \cup JobRow]
  BY DEF FloorInv, TypeOK, StoreType, WorkerType
<1>1. UNCHANGED <<plans, locks>>
  BY DEF StartCreate, Recheck, ClaimJob, SetStatus, Edit
<1>2. pc'[q] \notin {"reserve", "deliver"}
  BY <1>0 DEF StartCreate, Recheck, ClaimJob, SetStatus, Edit, Keep, Done, Goto
<1>3. ASSUME NEW j \in Job, NEW status, status # "delivered",
             job' = [job EXCEPT ![j].status = status]
      PROVE  \A i \in Job : job'[i].status = "delivered" => job[i].status = "delivered"
  BY <1>0, <1>3 DEF JobRow, NoJob
<1>4. \A n : Verdict(n) # "delivered"
  BY DEF Verdict
<1>5. \A j \in Job : job'[j].status = "delivered" => job[j].status = "delivered"
  <2>1. CASE StartCreate(q)
    BY <1>0, <2>1 DEF StartCreate
  <2>2. CASE Recheck(q)
    <3> DEFINE j == req[q].job
               seen == req[q].seen
               verdict == IF seen \in Startable THEN Verdict(req[q].qty) ELSE seen
    <3>1. j \in Job
      BY <2>2, JobsFinite DEF Recheck, FloorInv, StepsMatch, Fits
    <3>2. UNCHANGED job \/ ((verdict # seen \/ seen = "blocked")
                             /\ job' = [job EXCEPT ![j].status = verdict])
      BY <2>2 DEF Recheck
    <3>3. verdict # seen \/ seen = "blocked" => verdict # "delivered"
      BY <1>4 DEF Startable
    <3> HIDE DEF j, seen, verdict
    <3> QED BY <1>3, <3>1, <3>2, <3>3
  <2>3. CASE ClaimJob(q)
    BY <1>0, <2>3 DEF ClaimJob
  <2>4. CASE SetStatus(q)
    <3> DEFINE j == req[q].job
               to == req[q].to
    <3>1. j \in Jobs /\ j \in Job
      BY <2>4, JobsFinite DEF SetStatus, FloorInv, StepsMatch, Fits
    <3>2. UNCHANGED job \/ (to \in Allowed[job[j].status] /\ job' = [job EXCEPT ![j].status = to])
      BY <2>4 DEF SetStatus
    <3>3. job[j].status \in JobStatus
      BY <1>0, <3>1 DEF Jobs, NoJob, JobRow
    <3>4. to \in Allowed[job[j].status] => to # "delivered"
      BY <3>3 DEF Allowed, JobStatus, Startable, Finished
    <3> HIDE DEF j, to
    <3> QED BY <1>3, <3>1, <3>2, <3>4
  <2>5. CASE Edit(q)
    <3> DEFINE j == req[q].job
               row == [job[j] EXCEPT !.qty = req[q].qty, !.status = Verdict(req[q].qty)]
    <3>1. UNCHANGED job \/ job' = [job EXCEPT ![j] = row]
      BY <2>5 DEF Edit
    <3>2. j \in Job
      BY <2>5, JobsFinite DEF Edit, FloorInv, StepsMatch, Fits
    <3>3. job[j] \in {NoJob} \cup JobRow
      BY <1>0, <3>2
    <3>4. row.status # "delivered"
      BY <1>4, <3>3 DEF NoJob, JobRow
    <3> HIDE DEF j, row
    <3> QED BY <1>0, <3>1, <3>2, <3>4
  <2> QED BY <2>1, <2>2, <2>3, <2>4, <2>5
<1>6. JobStep(q)
  BY DEF JobStep
<1> QED BY <1>1, <1>2, <1>5, <1>6, QuietLocks

\* Plans are written and taken only while nobody holds them.
LEMMA PlanLocks ==
    ASSUME FloorInv, JobsKept, LocksHeld, NEW q \in Proc,
           Push(q) \/ Lead(q) \/ SavePlan(q) \/ Crash(q)
    PROVE  LocksHeld'
<1>0. /\ pc \in [Proc -> Step] /\ job \in [Job -> {NoJob} \cup JobRow]
      /\ plan \in [Plan -> PlanStatus] /\ archived \in [Plan -> BOOLEAN]
      /\ planLock \in [Plan -> Proc \cup {Nobody}] /\ Nobody \notin Proc
  BY UserAssumption DEF FloorInv, TypeOK, StoreType, WorkerType
<1>1. pc'[q] \notin {"reserve", "deliver"}
  BY <1>0 DEF Push, Lead, SavePlan, Crash, Done, Goto
<1>2. ASSUME NEW k \in Plan, planLock[k] \in Proc \ {q}
      PROVE  planLock'[k] = planLock[k] /\ plan'[k] = plan[k] /\ archived'[k] = archived[k]
  <2>1. planLock[k] # Nobody
    BY <1>0, <1>2
  <2>2. CASE Push(q)
    BY <1>0, <2>1, <2>2 DEF Push, PlanFree, locks
  <2>3. CASE Lead(q)
    BY <1>0, <2>1, <2>3 DEF Lead, PlanFree, locks
  <2>4. CASE SavePlan(q)
    BY <1>0, <2>1, <2>4 DEF SavePlan, PlanFree, locks
  <2>5. CASE Crash(q)
    BY <1>2, <2>5 DEF Crash, plans
  <2> QED BY <2>2, <2>3, <2>4, <2>5
<1>3. OthersKept(q)
  BY <1>2, OnlyItMoves DEF OthersKept, PlanStep
<1>4. \A j \in Job : job'[j].status = "delivered" => job[j].status = "delivered"
  <2>1. CASE Push(q)
    <3>1. \A n : Verdict(n) # "delivered"
      BY DEF Verdict
    <3> QED BY <2>1, <3>1 DEF Push
  <2>2. CASE Lead(q) \/ SavePlan(q) \/ Crash(q)
    BY <2>2 DEF Lead, SavePlan, Crash, board
  <2> QED BY <2>1, <2>2
<1> QED BY <1>1, <1>3, <1>4, NoLineDelivered, LocksKept

\* A reservation takes its plan open, and gives it back.
LEMMA ReserveLocks ==
    ASSUME FloorInv, JobsKept, LocksHeld, NEW q \in Proc, LockPlan(q) \/ Reserve(q)
    PROVE  LocksHeld'
<1>0. /\ pc \in [Proc -> Step] /\ planLock \in [Plan -> Proc \cup {Nobody}]
      /\ Nobody \notin Proc
  BY UserAssumption DEF FloorInv, TypeOK, WorkerType
<1>1. UNCHANGED <<job, plan, archived>>
  BY DEF LockPlan, Reserve, board, plans
<1>2. req[q].plan \in Plan
  <2>1. req[q] \in ReserveReq
    BY DEF LockPlan, Reserve, FloorInv, StepsMatch, Fits
  <2> QED BY <2>1 DEF ReserveReq
<1>3. LinesKept(q)
  BY <1>1, NoLineDelivered
<1>4. CASE LockPlan(q)
  <2>1. planLock' = [planLock EXCEPT ![req[q].plan] = q] /\ UNCHANGED req
        /\ planLock[req[q].plan] = Nobody /\ Reservable(req[q].plan) /\ pc'[q] = "reserve"
    BY <1>0, <1>4 DEF LockPlan, PlanFree, Goto
  <2>2. OthersKept(q)
    BY <1>0, <1>1, <1>4, <2>1, OnlyItMoves DEF OthersKept, PlanStep
  <2>3. ASSUME NEW k \in Plan, req'[q].plan = k PROVE ReserveHolds(q, k)'
    BY <1>0, <1>1, <2>1, <2>3 DEF ReserveHolds, Reservable
  <2>4. HeldBy(q)'
    BY <2>1, <2>3 DEF HeldBy
  <2> QED BY <1>3, <2>2, <2>4, LocksKept
<1>5. CASE Reserve(q)
  <2>1. planLock' = [planLock EXCEPT ![req[q].plan] = Nobody] /\ pc[q] = "reserve"
        /\ pc'[q] = "idle"
    BY <1>0, <1>5 DEF Reserve, Done, Goto
  <2>2. planLock[req[q].plan] = q
    <3>1. HeldBy(q)
      BY DEF LocksHeld
    <3> QED BY <1>2, <2>1, <3>1 DEF HeldBy, ReserveHolds
  <2>3. OthersKept(q)
    BY <1>0, <1>1, <1>5, <2>1, <2>2, OnlyItMoves DEF OthersKept, PlanStep
  <2> QED BY <1>3, <2>1, <2>3, LocksKept
<1> QED BY <1>4, <1>5

\* A delivery counts the lines of its plan under the lock it has just taken.
LEMMA LockDeliveryLocks ==
    ASSUME FloorInv, JobsKept, LocksHeld, NEW q \in Proc, LockDelivery(q)
    PROVE  LocksHeld'
<1> DEFINE j == req[q].job
<1>0. /\ pc \in [Proc -> Step] /\ planLock \in [Plan -> Proc \cup {Nobody}]
      /\ req \in [Proc -> Request] /\ Nobody \notin Proc /\ Nobody \notin Line
  BY UserAssumption DEF FloorInv, TypeOK, WorkerType
<1>1. UNCHANGED <<job, plan, archived>>
  BY DEF LockDelivery, board, plans
<1>2. LinesKept(q)
  BY <1>1, NoLineDelivered
<1>3. req[q] \in DeliverReq /\ j \in Job /\ j \in Jobs
  BY JobsFinite DEF LockDelivery, FloorInv, StepsMatch, Fits
<1>4. /\ pc'[q] = "deliver" /\ req'[q].job = j /\ req'[q].last = LastLine(j)
  BY <1>0, <1>3 DEF LockDelivery, Keep, Goto, DeliverReq
<1>5. IF PlanLine(j)
      THEN planLock[PlanAt(j)] = Nobody /\ planLock' = [planLock EXCEPT ![PlanAt(j)] = q]
      ELSE UNCHANGED planLock
  BY DEF LockDelivery, PlanFree
<1> HIDE DEF j
<1>6. OthersKept(q)
  <2>1. \A k \in Plan : planLock[k] \in Proc \ {q} => planLock'[k] = planLock[k]
    BY <1>0, <1>5
  <2> QED BY <1>1, <2>1, OnlyItMoves DEF OthersKept, JobStep
<1>7. ASSUME NEW l \in Line, job'[j].line = l PROVE DeliverHolds(q, l)'
  <2>1. PlanLine(j) /\ PlanAt(j) = PlanOf[l] /\ PlanOf[l] \in Plan
    BY <1>0, <1>1, <1>7, LineAssumption DEF PlanLine, PlanAt
  <2>2. planLock'[PlanOf[l]] = q
    BY <1>0, <1>5, <2>1
  <2>3. DeliveredLines' = DeliveredLines
    BY <1>1 DEF DeliveredLines
  <2>4. LastLine(j) \/ plan[PlanOf[l]] \in Closed
        \/ \E m \in Lines(PlanOf[l]) : m # l /\ m \notin DeliveredLines
    BY <1>1, <1>7, <2>1 DEF LastLine
  <2> QED BY <1>1, <1>4, <2>2, <2>3, <2>4 DEF DeliverHolds
<1>8. HeldBy(q)'
  <2>1. ASSUME NEW i \in Job, i = j PROVE req'[q].last => PlanLine(i)'
    BY <1>1, <1>4, <2>1 DEF LastLine, PlanLine
  <2> QED BY <1>4, <1>7, <2>1 DEF HeldBy
<1> QED BY <1>2, <1>6, <1>8, LocksKept

\* What a delivery writes: its own job and line, under the locks it holds.
LEMMA DeliverLocks ==
    ASSUME FloorInv, JobsKept, LocksHeld, NEW q \in Proc, Deliver(q)
    PROVE  LocksHeld'
<1> DEFINE j == req[q].job
<1>0. /\ pc \in [Proc -> Step] /\ planLock \in [Plan -> Proc \cup {Nobody}]
      /\ plan \in [Plan -> PlanStatus] /\ job \in [Job -> {NoJob} \cup JobRow]
      /\ Nobody \notin Proc /\ Nobody \notin Line
  BY UserAssumption DEF FloorInv, TypeOK, StoreType, WorkerType
<1>1. j \in Job /\ j \in Jobs /\ pc[q] = "deliver" /\ pc'[q] = "idle"
  BY <1>0, JobsFinite DEF Deliver, Done, Goto, FloorInv, StepsMatch, Fits
<1>2. /\ job' = [job EXCEPT ![j].status = "delivered"] /\ UNCHANGED archived
      /\ planLock' = [k \in Plan |-> IF planLock[k] = q THEN Nobody ELSE planLock[k]]
      /\ plan' = IF req[q].last THEN [plan EXCEPT ![PlanAt(j)] = "done"] ELSE plan
  BY DEF Deliver
<1>3. HeldBy(q)
  BY DEF LocksHeld
<1> HIDE DEF j
<1>4. \A l \in Line : job[j].line = l => planLock[PlanOf[l]] = q
  BY <1>1, <1>3 DEF HeldBy, DeliverHolds, j
<1>5. job[j].line \in Line \cup {Nobody}
  <2>1. job[j] \in JobRow
    BY <1>1, JobShape DEF FloorInv, TypeOK
  <2> QED BY <2>1 DEF JobRow
<1>6. req[q].last => planLock[PlanAt(j)] = q
  <2>1. req[q].last => PlanLine(j)
    BY <1>1, <1>3 DEF HeldBy, j
  <2> QED BY <1>4, <1>5, <2>1 DEF PlanLine, PlanAt
<1>7. OthersKept(q)
  <2>1. \A k \in Plan : planLock[k] \in Proc \ {q} =>
            planLock'[k] = planLock[k] /\ plan'[k] = plan[k] /\ archived'[k] = archived[k]
    BY <1>0, <1>2, <1>6
  <2> QED BY <2>1, OnlyItMoves DEF OthersKept, JobStep
<1>8. LinesKept(q)
  <2> SUFFICES ASSUME NEW l \in Line, l \in DeliveredLines'
               PROVE l \in DeliveredLines \/ planLock[PlanOf[l]] = q
    BY DEF LinesKept
  <2>1. PICK i \in Job : job'[i].status = "delivered" /\ job'[i].line = l
    BY DEF DeliveredLines
  <2>2. CASE i = j
    <3>1. job[j].line = l
      BY <1>1, <2>1, <2>2 DEF JobsKept, Jobs
    <3> QED BY <1>4, <3>1
  <2>3. CASE i # j
    <3>1. job'[i] = job[i]
      BY <1>0, <1>2, <2>3
    <3> QED BY <2>1, <3>1 DEF DeliveredLines
  <2> QED BY <2>2, <2>3
<1> QED BY <1>1, <1>7, <1>8, LocksKept

-----------------------------------------------------------------------------
(* The theorems                                                            *)

ClaimInv == FloorInv /\ LocksHeld /\ ClaimsWithinBom

\* Steps that change neither claims nor stock, and deliver nothing.
LEMMA QuietSteps ==
    ASSUME NEW q \in Proc, JobStep(q) \/ PlanStep(q) \/ Crash(q),
           ~Deliver(q), ~Release(q), ~Reserve(q)
    PROVE  UNCHANGED <<deliveries, goods>>
<1> USE DEF Begin, board
<1>1. StartBoard(q) \/ StartClaim(q) \/ StartStatus(q) \/ StartCancel(q)
        => UNCHANGED <<deliveries, goods>>
  BY DEF StartBoard, StartClaim, StartStatus, StartCancel
<1>2. StartEdit(q) \/ StartDeliver(q) \/ StartCreate(q) \/ Recheck(q)
        => UNCHANGED <<deliveries, goods>>
  BY DEF StartEdit, StartDeliver, StartCreate, Recheck
<1>3. ClaimJob(q) \/ SetStatus(q) \/ Edit(q) \/ RefuseDelivery(q) \/ LockDelivery(q)
        => UNCHANGED <<deliveries, goods>>
  BY DEF ClaimJob, SetStatus, Edit, RefuseDelivery, LockDelivery
<1>4. StartPush(q) \/ StartLead(q) \/ StartSetPlan(q) \/ StartArchive(q)
        => UNCHANGED <<deliveries, goods>>
  BY DEF StartPush, StartLead, StartSetPlan, StartArchive
<1>5. StartRelease(q) \/ StartReserve(q) \/ ReadLines(q) \/ Push(q) \/ Lead(q)
        => UNCHANGED <<deliveries, goods>>
  BY DEF StartRelease, StartReserve, ReadLines, Push, Lead
<1>6. SavePlan(q) \/ ListClaims(q) \/ RefuseReserve(q) \/ LockPlan(q) \/ Crash(q)
        => UNCHANGED <<deliveries, goods>>
  BY DEF SavePlan, ListClaims, RefuseReserve, LockPlan, Crash
<1> QED BY <1>1, <1>2, <1>3, <1>4, <1>5, <1>6 DEF JobStep, PlanStep

LEMMA NextLocks ==
    ASSUME FloorInv, LocksHeld, [Next]_vars
    PROVE  LocksHeld'
<1>1. JobsKept
  BY NextFloorInv, StutterFloorInv
<1>2. CASE Recount \/ UNCHANGED vars
  <2>1. UNCHANGED <<job, plan, archived, planLock, pc, req>>
    BY <1>2 DEF Recount, vars, board, plans, locks
  <2>2. \A p \in Proc : HeldBy(p)'
    BY <2>1 DEF LocksHeld, HeldBy, ReserveHolds, Reservable, PlanLine, DeliverHolds,
                DeliveredLines
  <2> QED BY <2>2 DEF LocksHeld
<1>3. ASSUME NEW q \in Proc, JobStep(q) PROVE LocksHeld'
  BY <1>1, <1>3, StartLocks, JobLocks, LockDeliveryLocks, DeliverLocks DEF JobStep
<1>4. ASSUME NEW q \in Proc, PlanStep(q) PROVE LocksHeld'
  BY <1>1, <1>4, StartLocks, PlanLocks, ReserveLocks DEF PlanStep
<1>5. ASSUME NEW q \in Proc, Crash(q) PROVE LocksHeld'
  BY <1>1, <1>5, PlanLocks
<1> QED BY <1>2, <1>3, <1>4, <1>5 DEF Next

LEMMA InitClaimInv == ASSUME Init PROVE ClaimInv
<1>1. FloorInv
  BY InitFloorInv
<1>2. LocksHeld
  BY DEF Init, LocksHeld, HeldBy
<1>3. ASSUME NEW pl \in Plan PROVE Held(pl) <= Bom(pl)
  <2>1. StoreType
    BY <1>1 DEF FloorInv, TypeOK
  <2>2. Own(pl) = {}
    BY DEF Init, Own, Live, Unused
  <2>3. Held(pl) = 0
    <3> DEFINE f == [c \in {} |-> claims[c].qty]
    <3>1. f \in [{} -> Nat] /\ \A c \in {} : f[c] = 0
      OBVIOUS
    <3> HIDE DEF f
    <3>2. Total(f) = 0
      BY <3>1, TotalZero
    <3> QED BY <2>2, <3>2 DEF Held, Sum, f
  <2>4. Bom(pl) \in Nat
    BY <2>1, NetWithin
  <2> QED BY <2>3, <2>4
<1> QED BY <1>1, <1>2, <1>3 DEF ClaimInv, ClaimsWithinBom

\* What a plan holds grows by a reservation of its own only, made while it is open,
\* and then to no more than its lines need.
LEMMA HeldGrows ==
    ASSUME FloorInv, LocksHeld, [Next]_vars, NEW pl \in Plan
    PROVE  \/ Held(pl)' <= Held(pl)
           \/ Reservable(pl) /\ Held(pl)' <= Held(pl) + Net(pl)
<1>1. StoreType /\ Held(pl) \in Nat
  BY SumsType DEF FloorInv, TypeOK
<1>2. CASE UNCHANGED claims
  <2>1. Held(pl)' = Held(pl)
    BY <1>2, SumsView
  <2> QED BY <1>1, <2>1
<1>3. CASE \E q \in Proc : Deliver(q) \/ Release(q)
  BY <1>3, DeliverClaims, ReleaseClaims DEF NoneGains
<1>4. ASSUME NEW q \in Proc, Reserve(q)
      PROVE  Held(pl)' <= Held(pl) \/ (Reservable(pl) /\ Held(pl)' <= Held(pl) + Net(pl))
  <2>1. CASE pl = req[q].plan
    <3>1. Held(pl)' <= Held(pl) + Net(pl)
      BY <1>4, <2>1, ReserveClaims
    <3>2. Reservable(pl)
      BY <1>4, <2>1 DEF LocksHeld, HeldBy, ReserveHolds, Reserve
    <3> QED BY <3>1, <3>2
  <2>2. CASE pl # req[q].plan
    BY <1>4, <2>2, ReserveClaims
  <2> QED BY <2>1, <2>2
<1>5. CASE Recount \/ UNCHANGED vars
  BY <1>2, <1>5 DEF Recount, vars
<1>6. ASSUME NEW q \in Proc, JobStep(q) \/ PlanStep(q) \/ Crash(q)
      PROVE  UNCHANGED claims \/ Deliver(q) \/ Release(q) \/ Reserve(q)
  BY <1>6, QuietSteps DEF goods
<1> QED BY <1>2, <1>3, <1>4, <1>5, <1>6 DEF Next

LEMMA NextClaimInv == ASSUME ClaimInv, [Next]_vars PROVE ClaimInv'
<1>1. FloorInv'
  BY NextFloorInv, StutterFloorInv DEF ClaimInv
<1>2. LocksHeld'
  BY NextLocks DEF ClaimInv
<1>3. ASSUME NEW pl \in Plan PROVE Held(pl)' <= Bom(pl)
  <2>1. StoreType /\ StoreType'
    BY <1>1 DEF ClaimInv, FloorInv, TypeOK
  <2>2. Held(pl) \in Nat /\ Held(pl)' \in Nat /\ Net(pl) \in Nat /\ Bom(pl) \in Nat
    BY <2>1, SumsType, SumsTypeAfter, NetWithin
  <2>3. Held(pl) <= Bom(pl) /\ Net(pl) <= Bom(pl) - Held(pl)
    BY <2>1, NetWithin DEF ClaimInv, ClaimsWithinBom
  <2>4. Held(pl)' <= Held(pl) \/ Held(pl)' <= Held(pl) + Net(pl)
    BY HeldGrows DEF ClaimInv
  <2> QED BY <2>2, <2>3, <2>4
<1>4. ASSUME NEW pl \in Plan PROVE Bom(pl)' = Bom(pl)
  BY DEF Bom, Lines
<1>5. ClaimsWithinBom'
  BY <1>3, <1>4 DEF ClaimsWithinBom
<1> QED BY <1>1, <1>2, <1>5 DEF ClaimInv

\* What is inductive of the claims: what the board's types rest on, what a worker
\* that holds a plan relies on, and the bound on what plans hold.
THEOREM ClaimInvariant == Spec => []ClaimInv
<1>1. Init => ClaimInv
  BY InitClaimInv
<1>2. ClaimInv /\ [Next]_vars => ClaimInv'
  BY NextClaimInv
<1> QED BY <1>1, <1>2, PTL DEF Spec

\* However many reserve requests race, no plan claims more than its lines need.
THEOREM ClaimsStayWithinBom == Spec => []ClaimsWithinBom
<1>1. ClaimInv => ClaimsWithinBom
  BY DEF ClaimInv
<1> QED BY <1>1, ClaimInvariant, PTL

\* No request claims more stock for a plan that is closed or archived, even one
\* that read the plan while it was open.
THEOREM ClosedPlansGainNothing == Spec => ClosedGainsNothing
<1>1. ClaimInv /\ [Next]_vars =>
          [\A pl \in Plan : ~Reservable(pl) /\ ~Reservable(pl)' => Held(pl)' <= Held(pl)]_vars
  BY HeldGrows DEF ClaimInv
<1> QED BY <1>1, ClaimInvariant, PTL DEF Spec, ClosedGainsNothing

\* Only a stocktake leaves a row short of the claims on it: no reservation promises
\* units twice and no delivery eats units another plan reserved.
THEOREM StocktakesAloneShort == Spec => OnlyStocktakeShorts
<1> DEFINE Kept == \A r \in Row :
              Claimed(r) <= stock[r] /\ Claimed(r)' > stock'[r] =>
                  UNCHANGED <<claims, deliveries>>
<1>1. ASSUME ClaimInv, Next PROVE Kept
  <2>1. FloorInv /\ FloorInv'
    BY <1>1, NextFloorInv DEF ClaimInv
  <2>2. \A r \in Row : Claimed(r)' \in Nat /\ stock'[r] \in Nat
    <3>1. \A r \in Row : stock'[r] \in 0..MaxUnits
      BY <2>1 DEF FloorInv, TypeOK, StoreType
    <3> QED BY <2>1, <3>1, SumsTypeAfter DEF FloorInv, TypeOK
  <2>3. CASE RowsFit
    BY <2>2, <2>3 DEF RowsFit
  <2>4. ASSUME NEW q \in Proc, Deliver(q) \/ Release(q) \/ Reserve(q) PROVE RowsFit
    BY <2>1, <2>4, DeliverClaims, ReleaseClaims, ReserveClaims
  <2>5. CASE Recount
    BY <2>5 DEF Recount, board
  <2>6. ASSUME NEW q \in Proc, JobStep(q) \/ PlanStep(q) \/ Crash(q)
        PROVE  UNCHANGED <<claims, deliveries>> \/ RowsFit
    BY <2>4, <2>6, QuietSteps DEF goods
  <2> HIDE DEF Kept
  <2>7. UNCHANGED <<claims, deliveries>> => Kept
    BY DEF Kept
  <2> QED BY <1>1, <2>3, <2>5, <2>6, <2>7 DEF Next, Kept
<1>2. ClaimInv /\ [Next]_vars => [Kept]_vars
  BY <1>1
<1> QED BY <1>2, ClaimInvariant, PTL DEF Spec, OnlyStocktakeShorts

\* Deliveries are recorded by Deliver only, each for its own job.
LEMMA DeliveryIs ==
    ASSUME FloorInv, [Next]_vars, deliveries' # deliveries
    PROVE  \E q \in Proc : /\ Deliver(q)
                          /\ deliveries' = [deliveries EXCEPT ![req[q].job] = @ + 1]
<1>1. ~Recount /\ ~UNCHANGED vars
  BY DEF Recount, vars, board
<1>2. PICK q \in Proc : JobStep(q) \/ PlanStep(q) \/ Crash(q)
  BY <1>1 DEF Next
<1>3. Deliver(q)
  <2>1. ~Release(q) /\ ~Reserve(q)
    BY DEF Release, Reserve, board
  <2> QED BY <1>2, <2>1, QuietSteps
<1> QED BY <1>3 DEF Deliver

\* The delivery of a plan's last line closes the plan, however the deliveries of
\* its lines interleave: none is stranded in ACTIVE with nothing left to build.
THEOREM LastDeliveriesClose == Spec => LastDeliveryCloses
<1> DEFINE Closes == \A pl \in Plan :
              /\ \E j \in Job : /\ job[j].line \in Lines(pl)
                                /\ deliveries'[j] > deliveries[j]
              /\ Lines(pl) \subseteq DeliveredLines'
              => plan'[pl] \in Closed
<1>1. ASSUME ClaimInv, Next PROVE Closes
  <2> SUFFICES ASSUME NEW pl \in Plan, NEW i \in Job, job[i].line \in Lines(pl),
                      deliveries'[i] > deliveries[i], Lines(pl) \subseteq DeliveredLines'
               PROVE  plan'[pl] \in Closed
    OBVIOUS
  <2>1. FloorInv /\ LocksHeld /\ deliveries \in [Job -> Nat]
        /\ plan \in [Plan -> PlanStatus] /\ job \in [Job -> {NoJob} \cup JobRow]
    BY <1>1 DEF ClaimInv, FloorInv, TypeOK, StoreType
  <2>2. deliveries[i] \in Nat
    BY <2>1
  <2>3. PICK q \in Proc : /\ Deliver(q)
                          /\ deliveries' = [deliveries EXCEPT ![req[q].job] = @ + 1]
    BY <1>1, <2>1, <2>2, DeliveryIs
  <2>4. i = req[q].job /\ pc[q] = "deliver"
    BY <2>1, <2>2, <2>3 DEF Deliver
  <2>5. job[i].line \in Line /\ PlanOf[job[i].line] = pl
    BY DEF Lines
  <2>6. DeliverHolds(q, job[i].line)
    BY <2>1, <2>4, <2>5 DEF LocksHeld, HeldBy
  <2>7. plan' = IF req[q].last THEN [plan EXCEPT ![PlanAt(i)] = "done"] ELSE plan
    BY <2>3, <2>4 DEF Deliver
  <2>8. CASE req[q].last
    BY <2>1, <2>5, <2>7, <2>8 DEF PlanAt, Closed
  <2>9. CASE plan[pl] \in Closed
    BY <2>1, <2>5, <2>7, <2>9 DEF PlanAt, Closed
  <2>10. ASSUME NEW m \in Lines(pl), m # job[i].line, m \notin DeliveredLines PROVE FALSE
    <3>1. PICK k \in Job : job'[k].status = "delivered" /\ job'[k].line = m
      BY <2>10 DEF DeliveredLines
    <3>2. job' = [job EXCEPT ![i].status = "delivered"]
      BY <2>3, <2>4 DEF Deliver
    <3>3. CASE k = i
      <4>1. job'[i].line = job[i].line
        BY <2>1, <3>2 DEF JobRow, NoJob
      <4> QED BY <2>10, <3>1, <3>3, <4>1
    <3>4. CASE k # i
      <4>1. job'[k] = job[k]
        BY <2>1, <3>2, <3>4
      <4> QED BY <2>10, <3>1, <4>1 DEF DeliveredLines
    <3> QED BY <3>3, <3>4
  <2> QED BY <2>5, <2>6, <2>8, <2>9, <2>10 DEF DeliverHolds
<1>2. ClaimInv /\ [Next]_vars => [Closes]_vars
  BY <1>1
<1> QED BY <1>2, ClaimInvariant, PTL DEF Spec, LastDeliveryCloses

\* A plan a delivery has just closed holds no claims, whichever of them the
\* delivery consumed, split or left.
THEOREM DonePlansHoldNothing == Spec => DoneHoldsNothing
<1> DEFINE Empty == \A pl \in Plan :
              plan[pl] # "done" /\ plan'[pl] = "done" /\ deliveries' # deliveries
                  => Held(pl)' = 0
<1>1. ASSUME ClaimInv, Next PROVE Empty
  <2> SUFFICES ASSUME NEW pl \in Plan, plan[pl] # "done", plan'[pl] = "done",
                      deliveries' # deliveries
               PROVE  Held(pl)' = 0
    OBVIOUS
  <2>1. FloorInv /\ plan \in [Plan -> PlanStatus]
    BY <1>1 DEF ClaimInv, FloorInv, TypeOK, StoreType
  <2>2. PICK q \in Proc : Deliver(q)
    BY <1>1, <2>1, DeliveryIs
  <2>3. plan' = IF req[q].last THEN [plan EXCEPT ![PlanAt(req[q].job)] = "done"] ELSE plan
    BY <2>2 DEF Deliver
  <2>4. req[q].last /\ pl = PlanAt(req[q].job)
    BY <2>1, <2>3
  <2>5. \E t : claims' = Released(Consumed(t), StillOwn(Consumed(t), pl))
    BY <2>2, <2>4 DEF Deliver
  <2>6. PICK t : claims' = Released(Consumed(t), StillOwn(Consumed(t), pl))
    BY <2>5
  <2>7. OwnIn(claims', pl) = {}
    BY <2>6 DEF OwnIn, LiveIn, Released, StillOwn, Gone
  <2>8. SumIn(claims', {}) = 0
    <3> DEFINE f == QtyOf(claims', {})
    <3>1. f \in [{} -> Nat] /\ \A x \in {} : f[x] = 0
      BY DEF QtyOf
    <3> HIDE DEF f
    <3>2. Total(f) = 0
      BY <3>1, TotalZero
    <3> QED BY <3>2 DEF SumIn, f
  <2> QED BY <2>7, <2>8, SumsView
<1>2. ClaimInv /\ [Next]_vars => [Empty]_vars
  BY <1>1
<1> QED BY <1>2, ClaimInvariant, PTL DEF Spec, DoneHoldsNothing
-----------------------------------------------------------------------------
(* What is off the board stays off it, but for stale rechecks              *)

\* A worker in the middle of a delivery holds its job, which is in building.
Delivers(p, j) == jobLock[j] = p /\ Deliverable(j)
JobHeld == \A p \in Proc : pc[p] = "deliver" => Delivers(p, req[p].job)
BoardInv == FloorInv /\ JobHeld

\* What worker q does to the row of a job: nothing while another holds its lock, and
\* it reopens nothing but by a recheck of what it read on the board.
StaleRecheck(q, j) ==
    pc[q] = "recheck" /\ pc'[q] # "recheck" /\ req[q].job = j /\ req[q].seen \in Startable
Reopened(j) ==
    /\ job[j].status \notin Startable
    /\ job'[j].status # job[j].status
    /\ job[j].status \in Finished \/ job'[j].status \in Startable
RowsLeft(q) ==
    \A j \in Jobs :
        /\ jobLock[j] \in Proc \ {q} => job'[j] = job[j] /\ jobLock'[j] = jobLock[j]
        /\ Reopened(j) => StaleRecheck(q, j)

LEMMA WorkerTypes ==
    ASSUME FloorInv
    PROVE  /\ pc \in [Proc -> Step] /\ req \in [Proc -> Request]
           /\ jobLock \in [Job -> Proc \cup {Nobody}] /\ Nobody \notin Proc
BY UserAssumption DEF FloorInv, TypeOK, WorkerType

\* A step that leaves the jobs and their locks alone.
LEMMA RowsAlone ==
    ASSUME NEW q \in Proc, UNCHANGED <<job, jobLock>>
    PROVE  RowsLeft(q)
BY DEF RowsLeft, Reopened

\* A step that rewrites the row of one job whose lock is free.
LEMMA RowWritten ==
    ASSUME FloorInv, NEW q \in Proc, NEW j \in Jobs, NEW row,
           job' = [job EXCEPT ![j] = row] \/ UNCHANGED job, JobFree(j) \/ UNCHANGED job,
           UNCHANGED jobLock, Reopened(j) => StaleRecheck(q, j)
    PROVE  RowsLeft(q)
<1>1. job \in [Job -> {NoJob} \cup JobRow] /\ Jobs \subseteq Job
  BY JobsFinite DEF FloorInv, TypeOK, StoreType
<1>2. ASSUME NEW i \in Jobs, i # j PROVE job'[i] = job[i]
  BY <1>1, <1>2
<1>3. jobLock[j] \in Proc => job'[j] = job[j]
  BY WorkerTypes DEF JobFree
<1> QED BY <1>2, <1>3 DEF RowsLeft, Reopened

\* New jobs take keys no job has.
LEMMA RowsAdded ==
    ASSUME NEW q \in Proc, UNCHANGED jobLock, \A j \in Jobs : job'[j] = job[j]
    PROVE  RowsLeft(q)
BY DEF RowsLeft, Reopened

LEMMA RecheckRows ==
    ASSUME FloorInv, NEW p \in Proc, Recheck(p)
    PROVE  RowsLeft(p)
<1> DEFINE j == req[p].job
           seen == req[p].seen
           verdict == IF seen \in Startable THEN Verdict(req[p].qty) ELSE seen
           row == [job[j] EXCEPT !.status = verdict]
<1>1. j \in Jobs
  BY DEF FloorInv, StepsMatch, Fits, Recheck
<1>2. UNCHANGED job \/ (JobFree(j) /\ job' = [job EXCEPT ![j] = row] /\ seen \in Startable)
  BY DEF Recheck, Startable
<1>3. UNCHANGED jobLock
  BY DEF Recheck, locks
<1>4. pc[p] = "recheck" /\ pc'[p] # "recheck"
  BY WorkerTypes DEF Recheck, Done, Goto
<1>5. seen \in Startable => StaleRecheck(p, j)
  BY <1>4 DEF StaleRecheck
<1>6. UNCHANGED job => ~Reopened(j)
  BY DEF Reopened
<1> HIDE DEF j, seen, row
<1> QED BY <1>1, <1>2, <1>3, <1>5, <1>6, RowWritten

LEMMA JobWriteRows ==
    ASSUME FloorInv, NEW p \in Proc, ClaimJob(p) \/ SetStatus(p) \/ Edit(p)
    PROVE  RowsLeft(p)
<1> DEFINE j == req[p].job
<1>1. j \in Jobs /\ job \in [Job -> {NoJob} \cup JobRow] /\ Jobs \subseteq Job
  BY JobsFinite DEF FloorInv, TypeOK, StoreType, StepsMatch, Fits, ClaimJob, SetStatus, Edit
<1>2. job[j] \in JobRow
  BY <1>1, JobShape DEF FloorInv, TypeOK
<1>3. UNCHANGED jobLock /\ JobFree(j)
  BY DEF ClaimJob, SetStatus, Edit, locks
<1>4. CASE ClaimJob(p)
  <2> DEFINE row == [job[j] EXCEPT !.owner = req[p].user, !.status = "building"]
  <2>1. UNCHANGED job \/ (Claimable(j) /\ job' = [job EXCEPT ![j] = row])
    BY <1>4 DEF ClaimJob
  <2>2. ~Reopened(j)
    BY <2>1 DEF Reopened, Claimable, Startable
  <2> HIDE DEF row, j
  <2> QED BY <1>1, <1>3, <2>1, <2>2, RowWritten
<1>5. CASE SetStatus(p)
  <2> DEFINE row == [job[j] EXCEPT !.status = req[p].to]
  <2>1. \/ UNCHANGED job
        \/ req[p].to \in Allowed[job[j].status] /\ job' = [job EXCEPT ![j] = row]
    BY <1>5 DEF SetStatus
  <2>2. CASE UNCHANGED job
    <3>1. ~Reopened(j)
      BY <2>2 DEF Reopened
    <3> HIDE DEF j
    <3> QED BY <1>1, <1>3, <2>2, <3>1, RowWritten
  <2>3. CASE req[p].to \in Allowed[job[j].status] /\ job' = [job EXCEPT ![j] = row]
    <3>1. job[j].status \in JobStatus /\ job'[j].status = req[p].to
      BY <1>1, <1>2, <2>3 DEF JobRow
    <3>2. ~Reopened(j)
      BY <2>3, <3>1 DEF Reopened, Allowed, JobStatus, Startable, Finished
    <3> HIDE DEF row, j
    <3> QED BY <1>1, <1>3, <2>3, <3>2, RowWritten
  <2> QED BY <2>1, <2>2, <2>3
<1>6. CASE Edit(p)
  <2> DEFINE q == req[p].qty
             row == [job[j] EXCEPT !.qty = q, !.status = Verdict(q)]
  <2>1. UNCHANGED job \/ (Editable(j) /\ job' = [job EXCEPT ![j] = row])
    BY <1>6 DEF Edit
  <2>2. ~Reopened(j)
    BY <2>1 DEF Reopened, Editable
  <2> HIDE DEF row, j
  <2> QED BY <1>1, <1>3, <2>1, <2>2, RowWritten
<1> QED BY <1>4, <1>5, <1>6

\* Creating a job and pushing a plan insert behind the keys in use.
LEMMA InsertRows ==
    ASSUME FloorInv, NEW p \in Proc, StartCreate(p) \/ Push(p)
    PROVE  RowsLeft(p)
<1>1. /\ job \in [Job -> {NoJob} \cup JobRow] /\ Jobs \subseteq Job
      /\ Cardinality(Jobs) \in Nat /\ Jobs = 1..Cardinality(Jobs)
  BY JobsFinite DEF FloorInv, TypeOK, StoreType, KeysInOrder
<1>2. UNCHANGED jobLock
  BY DEF StartCreate, Push, locks
<1>3. CASE StartCreate(p)
  <2>1. PICK j \in Job, u \in Officer, q \in 1..MaxUnits :
            /\ j = Cardinality(Jobs) + 1
            /\ job' = [job EXCEPT ![j] = [status |-> "queued", owner |-> Nobody, by |-> u,
                                          line |-> Nobody, qty |-> q]]
    BY <1>3 DEF StartCreate
  <2>2. \A i \in Jobs : job'[i] = job[i]
    BY <1>1, <2>1
  <2> QED BY <1>2, <2>2, RowsAdded
<1>4. CASE Push(p)
  <2> DEFINE lines == req[p].lines
  <2>1. lines \in SUBSET Line
    BY <1>4 DEF FloorInv, StepsMatch, Fits, Push, PushReq
  <2>2. IsFiniteSet(lines) /\ lines \in SUBSET Nat
    BY <2>1, KeySets, FS_Subset
  <2>3. ASSUME NEW i \in Jobs PROVE ~ \E l \in lines : i = Cardinality(Jobs) + Rank(l, lines)
    <3> SUFFICES ASSUME NEW l \in lines PROVE i # Cardinality(Jobs) + Rank(l, lines)
      OBVIOUS
    <3>1. Rank(l, lines) \in 1..Cardinality(lines) /\ Cardinality(lines) \in Nat
      BY <2>2, RankRange, FS_CardinalityType
    <3>2. i \in Nat /\ i <= Cardinality(Jobs)
      BY <1>1
    <3> HIDE DEF lines
    <3> QED BY <1>1, <3>1, <3>2
  <2>4. ASSUME NEW i \in Jobs PROVE job'[i] = job[i]
    BY <1>1, <1>4, <2>3 DEF Push
  <2> QED BY <1>2, <2>4, RowsAdded
<1> QED BY <1>3, <1>4

\* A delivery writes the job it has locked, which is in building.
LEMMA DeliverRows ==
    ASSUME BoardInv, NEW p \in Proc, Deliver(p)
    PROVE  RowsLeft(p)
<1> DEFINE j == req[p].job
           row == [job[j] EXCEPT !.status = "delivered"]
<1>1. j \in Jobs /\ job \in [Job -> {NoJob} \cup JobRow] /\ Jobs \subseteq Job
  BY JobsFinite DEF BoardInv, FloorInv, TypeOK, StoreType, StepsMatch, Fits, Deliver
<1>2. Delivers(p, j)
  BY DEF BoardInv, JobHeld, Deliver
<1>3. job' = [job EXCEPT ![j] = row] /\ jobLock' = [jobLock EXCEPT ![j] = Nobody]
  BY DEF Deliver
<1>4. job[j] \in JobRow
  BY <1>1, JobShape DEF BoardInv, FloorInv, TypeOK
<1>5. job'[j].status = "delivered"
  BY <1>1, <1>3, <1>4 DEF JobRow
<1>6. ~Reopened(j)
  BY <1>2, <1>5 DEF Reopened, Delivers, Deliverable, Startable, Finished
<1>7. \A i \in Jobs \ {j} : job'[i] = job[i] /\ jobLock'[i] = jobLock[i]
  BY <1>1, <1>3, WorkerTypes DEF BoardInv
<1>8. jobLock[j] = p
  BY <1>2 DEF Delivers
<1> HIDE DEF j, row
<1> QED BY <1>1, <1>6, <1>7, <1>8 DEF RowsLeft, Reopened

LEMMA StepRows ==
    ASSUME BoardInv, NEW q \in Proc, JobStep(q) \/ PlanStep(q) \/ Crash(q)
    PROVE  RowsLeft(q)
<1>0. FloorInv
  BY DEF BoardInv
<1>1. CASE JobStep(q)
  <2>1. CASE StartBoard(q) \/ StartClaim(q) \/ StartStatus(q) \/ StartCancel(q)
               \/ StartEdit(q) \/ StartDeliver(q)
    BY <2>1, RowsAlone DEF StartBoard, StartClaim, StartStatus, StartCancel, StartEdit,
                           StartDeliver, Begin, board, locks
  <2>2. CASE StartCreate(q)
    BY <1>0, <2>2, InsertRows
  <2>3. CASE Recheck(q)
    BY <1>0, <2>3, RecheckRows
  <2>4. CASE ClaimJob(q) \/ SetStatus(q) \/ Edit(q)
    BY <1>0, <2>4, JobWriteRows
  <2>5. CASE RefuseDelivery(q)
    BY <2>5, RowsAlone DEF RefuseDelivery, board, locks
  <2>6. CASE LockDelivery(q)
    <3>1. UNCHANGED job /\ JobFree(req[q].job)
          /\ jobLock' = [jobLock EXCEPT ![req[q].job] = q]
      BY <2>6 DEF LockDelivery, board
    <3>2. \A i \in Jobs : jobLock[i] \in Proc => jobLock'[i] = jobLock[i]
      BY <1>0, <3>1, WorkerTypes, JobsFinite DEF JobFree
    <3> QED BY <3>1, <3>2 DEF RowsLeft, Reopened
  <2>7. CASE Deliver(q)
    BY <2>7, DeliverRows
  <2> QED BY <1>1, <2>1, <2>2, <2>3, <2>4, <2>5, <2>6, <2>7 DEF JobStep
<1>2. CASE PlanStep(q)
  <2>1. CASE StartPush(q) \/ StartLead(q) \/ StartSetPlan(q) \/ StartArchive(q)
               \/ StartRelease(q) \/ StartReserve(q)
    BY <2>1, RowsAlone DEF StartPush, StartLead, StartSetPlan, StartArchive, StartRelease,
                           StartReserve, Begin, board, locks
  <2>2. CASE ReadLines(q) \/ ListClaims(q) \/ Lead(q) \/ SavePlan(q) \/ RefuseReserve(q)
    BY <2>2, RowsAlone DEF ReadLines, ListClaims, Lead, SavePlan, RefuseReserve, board, locks
  <2>3. CASE Push(q)
    BY <1>0, <2>3, InsertRows
  <2>4. CASE LockPlan(q) \/ Release(q) \/ Reserve(q)
    BY <2>4, RowsAlone DEF LockPlan, Release, Reserve, board, locks
  <2> QED BY <1>2, <2>1, <2>2, <2>3, <2>4 DEF PlanStep
<1>3. CASE Crash(q)
  <2>1. UNCHANGED job
    BY <1>3 DEF Crash, board
  <2>2. \A i \in Jobs : jobLock[i] \in Proc \ {q} => jobLock'[i] = jobLock[i]
    BY <1>0, <1>3, JobsFinite DEF Crash
  <2> QED BY <2>1, <2>2 DEF RowsLeft, Reopened
<1> QED BY <1>1, <1>2, <1>3

\* A worker comes to deliver only by locking a job in building.
LEMMA LockedIsBuilding ==
    ASSUME FloorInv, NEW q \in Proc, JobStep(q) \/ PlanStep(q) \/ Crash(q),
           pc'[q] = "deliver"
    PROVE  Delivers(q, req[q].job)'
<1>0. pc \in [Proc -> Step] /\ req \in [Proc -> Request]
  BY WorkerTypes
<1>1. \A step, request : Keep(q, step, request) => pc'[q] = step
  BY <1>0 DEF Keep, Goto
<1>2. \A step, request : Begin(q, step, request) => pc'[q] = step
  BY <1>1 DEF Begin
<1>3. \A step : Goto(q, step) => pc'[q] = step
  BY <1>0 DEF Goto
<1>4. ~Done(q)
  BY <1>0 DEF Done, Goto
<1>5. LockDelivery(q)
  <2>1. ~Crash(q)
    BY <1>4 DEF Crash
  <2>2. ~PlanStep(q)
    <3>1. ~StartPush(q) /\ ~StartLead(q) /\ ~StartSetPlan(q) /\ ~StartArchive(q)
      BY <1>2 DEF StartPush, StartLead, StartSetPlan, StartArchive
    <3>2. ~StartRelease(q) /\ ~StartReserve(q)
      BY <1>2 DEF StartRelease, StartReserve
    <3>3. ~ReadLines(q) /\ ~ListClaims(q)
      BY <1>1 DEF ReadLines, ListClaims
    <3>4. ~SavePlan(q) /\ ~LockPlan(q)
      BY <1>3, <1>4 DEF SavePlan, LockPlan
    <3>5. ~Push(q) /\ ~Lead(q) /\ ~Release(q) /\ ~RefuseReserve(q) /\ ~Reserve(q)
      BY <1>4 DEF Push, Lead, Release, RefuseReserve, Reserve
    <3> QED BY <3>1, <3>2, <3>3, <3>4, <3>5 DEF PlanStep
  <2>3. ~StartBoard(q) /\ ~StartClaim(q) /\ ~StartStatus(q) /\ ~StartCancel(q)
    BY <1>2 DEF StartBoard, StartClaim, StartStatus, StartCancel
  <2>4. ~StartEdit(q) /\ ~StartDeliver(q)
    BY <1>2 DEF StartEdit, StartDeliver
  <2>5. ~StartCreate(q)
    BY <1>1 DEF StartCreate
  <2>6. ~Recheck(q)
    BY <1>3, <1>4 DEF Recheck
  <2>7. ~ClaimJob(q) /\ ~SetStatus(q) /\ ~Edit(q) /\ ~RefuseDelivery(q) /\ ~Deliver(q)
    BY <1>4 DEF ClaimJob, SetStatus, Edit, RefuseDelivery, Deliver
  <2> QED BY <2>1, <2>2, <2>3, <2>4, <2>5, <2>6, <2>7 DEF JobStep
<1> DEFINE j == req[q].job
<1>6. j \in Job
  <2>1. j \in Jobs
    BY <1>5 DEF FloorInv, StepsMatch, Fits, LockDelivery
  <2> QED BY <2>1, JobsFinite
<1>7. UNCHANGED job /\ Deliverable(j) /\ jobLock' = [jobLock EXCEPT ![j] = q]
  BY <1>5 DEF LockDelivery, board
<1>8. req'[q].job = j
  <2>1. \E b : req' = [req EXCEPT ![q] = [req[q] EXCEPT !.last = b]]
    BY <1>5 DEF LockDelivery, Keep
  <2>2. req[q] \in DeliverReq
    BY <1>5 DEF FloorInv, StepsMatch, Fits, LockDelivery
  <2> QED BY <1>0, <2>1, <2>2 DEF DeliverReq
<1> HIDE DEF j
<1>9. jobLock'[j] = q /\ job'[j].status \in {"building", "built"}
  BY <1>6, <1>7, WorkerTypes DEF Deliverable
<1> QED BY <1>8, <1>9 DEF Delivers, Deliverable

LEMMA NextBoardInv == ASSUME BoardInv, [Next]_vars PROVE BoardInv'
<1>1. FloorInv /\ FloorInv' /\ JobsKept
  BY NextFloorInv, StutterFloorInv DEF BoardInv
<1>2. CASE UNCHANGED vars \/ Recount
  <2>1. UNCHANGED <<job, jobLock, pc, req>>
    BY <1>2 DEF vars, Recount, board, locks
  <2> QED BY <1>1, <2>1 DEF BoardInv, JobHeld, Delivers, Deliverable
<1>3. ASSUME NEW q \in Proc, JobStep(q) \/ PlanStep(q) \/ Crash(q) PROVE BoardInv'
  <2>1. RowsLeft(q)
    BY <1>3, StepRows
  <2>2. ASSUME NEW p \in Proc, pc'[p] = "deliver" PROVE Delivers(p, req[p].job)'
    <3>1. CASE p = q
      BY <1>1, <1>3, <2>2, <3>1, LockedIsBuilding
    <3>2. CASE p # q
      <4>1. pc[p] = "deliver" /\ req'[p] = req[p]
        BY <1>1, <1>3, <2>2, <3>2, OnlyItMoves
      <4>2. req[p].job \in Jobs /\ Delivers(p, req[p].job)
        BY <1>1, <4>1 DEF FloorInv, StepsMatch, Fits, BoardInv, JobHeld
      <4>3. /\ job'[req[p].job] = job[req[p].job]
            /\ jobLock'[req[p].job] = jobLock[req[p].job]
        BY <2>1, <3>2, <4>2 DEF RowsLeft, Delivers
      <4> QED BY <4>1, <4>2, <4>3 DEF Delivers, Deliverable
    <3> QED BY <3>1, <3>2
  <2> QED BY <1>1, <2>2 DEF BoardInv, JobHeld
<1> QED BY <1>2, <1>3 DEF Next

\* What is inductive of the deliveries under way: each holds its job, and the job
\* is in building for as long as it is held.
THEOREM BoardInvariant == Spec => []BoardInv
<1>1. Init => BoardInv
  <2>1. Init => JobHeld
    BY DEF Init, JobHeld
  <2> QED BY <2>1, InitFloorInv DEF BoardInv
<1> QED BY <1>1, NextBoardInv, PTL DEF Spec

\* A job that has left the board returns to it, and a finished job changes at all,
\* only when a recheck writes a verdict on what it read while the job was on the
\* board: no edit, claim, new status or delivery overtaken by others reopens one.
THEOREM RechecksAloneReopen == Spec => OnlyRechecksReopen
<1> DEFINE A == \A j \in Jobs :
                    Reopened(j) =>
                        \E p \in Proc : /\ pc[p] = "recheck" /\ pc'[p] # "recheck"
                                        /\ req[p].job = j /\ req[p].seen \in Startable
<1>1. ASSUME BoardInv, Next PROVE A
  <2>1. CASE Recount
    BY <2>1 DEF Recount, board, Reopened
  <2>2. ASSUME NEW q \in Proc, JobStep(q) \/ PlanStep(q) \/ Crash(q) PROVE A
    BY <1>1, <2>2, StepRows DEF RowsLeft, StaleRecheck
  <2> QED BY <1>1, <2>1, <2>2 DEF Next
<1>2. BoardInv /\ [Next]_vars => [A]_vars
  BY <1>1
<1>3. [A]_vars =>
        [\A j \in Jobs :
          /\ job[j].status \notin Startable
          /\ job'[j].status # job[j].status
          /\ job[j].status \in Finished \/ job'[j].status \in Startable
          => \E p \in Proc : /\ pc[p] = "recheck" /\ pc'[p] # "recheck"
                            /\ req[p].job = j /\ req[p].seen \in Startable]_vars
  BY DEF Reopened
<1> HIDE DEF A
<1> QED BY <1>2, <1>3, BoardInvariant, PTL DEF Spec, OnlyRechecksReopen
=============================================================================
