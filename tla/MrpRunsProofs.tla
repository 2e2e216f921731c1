--------------------------- MODULE MrpRunsProofs ---------------------------
(***************************************************************************)
(* Theorems about MrpRuns, for every recipe, every number of jobs, runs and *)
(* officers, and every demand and stock.                                   *)
(***************************************************************************)
EXTENDS MrpRuns, TotalsProofs

-----------------------------------------------------------------------------
(* Types                                                                   *)

JobRow == [state : {"queued", "building", "built"}, type : Type, qty : Nat \ {0}, esi : BOOLEAN]
ReqRow == [state : {"none", "open", "in_progress"}, gross : Nat, net : Nat,
           job : Job \cup {None}, diverged : BOOLEAN]
SeenRow == [pk : Gen, job : Job \cup {None}, target : Nat, diverged : BOOLEAN]
MemRow == [at : {"idle", "claimed", "planning"}, cells : [Type -> Nat],
           lots : [Job -> JobRow \cup {NoJob}], seen : [Type -> SeenRow \cup {NoRow}],
           done : SUBSET Type]

\* The type of every variable, rows of memory included.
RowsTyped ==
    /\ demand \in [Type -> Nat] /\ stock \in [Type -> Nat]
    /\ job \in [Job -> JobRow \cup {NoJob}]
    /\ req \in [Req -> ReqRow]
    /\ running \in Runner \cup {None}
    /\ mem \in [Runner -> MemRow]
    /\ desk \in [Officer -> Req \cup {None}]
    /\ plan \in {"none", "exact", "adjusted"}
    /\ since \in [Runner -> {"stale", "exact", "adjusted"}]

\* What WriteRow computes of a cell.
CellShort(m, t) == m.cells[t] - (IF t \in Ships THEN 0 ELSE AtMost(m.cells[t], stock[t]))
CellNet(m, t) == CellShort(m, t) - AtMost(CellShort(m, t), Lots(m, t))
RowFor(t) == <<t, GenFor(t)>>
JobOf(t) == IF RowFor(t) \in Live THEN req[RowFor(t)].job ELSE None
DivergedOf(t) == RowFor(t) \in Live /\ req[RowFor(t)].diverged
CellTarget(m, t) == CellNet(m, t) + OwnOutput(m, JobOf(t), CellShort(m, t))
WrittenRow(p, t) == Row(JobOf(t), mem[p].cells[t], CellNet(mem[p], t), DivergedOf(t))
WrittenSeen(p, t) == [pk |-> GenFor(t), job |-> JobOf(t),
                      target |-> CellTarget(mem[p], t), diverged |-> DivergedOf(t)]

LEMMA TimesNat ==
    ASSUME NEW a \in Nat, NEW b \in Nat
    PROVE  a * b \in Nat
OBVIOUS

LEMMA LowestIn ==
    ASSUME NEW S \in SUBSET Nat, S # {}
    PROVE  Lowest(S) \in S /\ \A k \in S : Lowest(S) <= k
<1>1. \E m \in S : \A k \in S : m <= k
  BY LeastMember
<1> QED
  BY <1>1 DEF Lowest

\* A job row that is not NoJob has a type, a quantity and a state.
LEMMA RowOrNone ==
    ASSUME NEW x \in JobRow \cup {NoJob}
    PROVE  /\ x.type \in Type \cup {None} /\ x.qty \in Nat /\ x.esi \in BOOLEAN
           /\ x.state \in {"none", "queued", "building", "built"}
           /\ x # NoJob <=> x.state # "none"
           /\ x # NoJob <=> x.type \in Type
           /\ x # NoJob <=> x \in JobRow
           /\ x # NoJob <=> x.qty # 0
<1>1. CASE x \in JobRow
  <2>1. x.type \in Type /\ x.qty \in Nat \ {0} /\ x.esi \in BOOLEAN
        /\ x.state \in {"queued", "building", "built"}
    BY <1>1 DEF JobRow
  <2>2. x # NoJob
    BY <2>1 DEF NoJob
  <2> QED
    BY <1>1, <2>1, <2>2
<1>2. CASE x = NoJob
  <2>1. x.type = None /\ x.qty = 0 /\ x.esi = FALSE /\ x.state = "none"
    BY <1>2 DEF NoJob
  <2>2. x \notin JobRow
    BY <2>1 DEF JobRow
  <2>3. None \notin Type
    BY KeyAssumption
  <2>4. x.type \notin Type /\ x.state = "none" /\ x.qty = 0
    BY <2>1, <2>3
  <2>5. NoJob.type \in Type \cup {None} /\ NoJob.qty \in Nat /\ NoJob.esi \in BOOLEAN
    BY DEF NoJob
  <2> QED
    BY <1>2, <2>2, <2>4, <2>5, Zenon
<1> QED
  BY <1>1, <1>2

LEMMA JobTyped ==
    ASSUME RowsTyped, NEW j \in Job
    PROVE  /\ job[j].type \in Type \cup {None} /\ job[j].qty \in Nat /\ job[j].esi \in BOOLEAN
           /\ job[j].state \in {"none", "queued", "building", "built"}
           /\ j \in Active <=> job[j].state # "none"
           /\ j \in Active <=> job[j].type \in Type
           /\ j \in Active <=> job[j] \in JobRow
           /\ j \in Active <=> job[j].qty # 0
<1>1. job[j] \in JobRow \cup {NoJob} /\ (j \in Active <=> job[j] # NoJob)
  BY DEF RowsTyped, Active
<1> QED
  BY <1>1, RowOrNone

LEMMA LotTyped ==
    ASSUME RowsTyped, NEW p \in Runner, NEW j \in Job
    PROVE  /\ mem[p].lots[j].type \in Type \cup {None} /\ mem[p].lots[j].qty \in Nat
           /\ mem[p].lots[j].esi \in BOOLEAN
           /\ mem[p].lots[j].type \notin Type => mem[p].lots[j] = NoJob
<1>1. mem[p].lots[j] \in JobRow \cup {NoJob}
  BY DEF RowsTyped, MemRow
<1> QED
  BY <1>1, RowOrNone

\* Jobs that still have to draw their materials.
Undrawn == Active \ Drawn

LEMMA CascadeNat ==
    ASSUME RowsTyped, NEW t \in Type
    PROVE  Cascade(t) \in Nat
<1> DEFINE f == [j \in Job |-> IF j \in Undrawn
                               THEN Uses[job[j].type][t] * job[j].qty ELSE 0]
<1>1. ASSUME NEW j \in Job PROVE f[j] \in Nat
  <2>1. CASE j \in Undrawn
    <3>1. job[j].type \in Type /\ job[j].qty \in Nat
      BY <2>1, JobTyped DEF Undrawn
    <3>2. Uses[job[j].type][t] \in Nat
      BY <3>1, RecipeAssumption
    <3> QED
      BY <2>1, <3>1, <3>2, TimesNat
  <2>2. CASE j \notin Undrawn
    BY <2>2
  <2> QED
    BY <2>1, <2>2
<1>2. f \in [Job -> Nat]
  BY <1>1
<1> HIDE DEF f
<1>3. Total(f) \in Nat
  BY <1>2, KeyAssumption, TotalType
<1> QED
  BY <1>3 DEF Cascade, Undrawn, f

LEMMA LotsNat ==
    ASSUME RowsTyped, NEW p \in Runner, NEW t
    PROVE  Lots(mem[p], t) \in Nat
<1> DEFINE f == [j \in Job |-> IF mem[p].lots[j].type = t THEN mem[p].lots[j].qty ELSE 0]
<1>1. f \in [Job -> Nat]
  BY LotTyped
<1> HIDE DEF f
<1>2. Total(f) \in Nat
  BY <1>1, KeyAssumption, TotalType
<1> QED
  BY <1>2 DEF Lots, f

LEMMA OwnNat ==
    ASSUME RowsTyped, NEW p \in Runner, NEW j \in Job \cup {None}, NEW n \in Nat
    PROVE  OwnOutput(mem[p], j, n) \in Nat
<1>1. CASE j = None \/ mem[p].lots[j].esi
  BY <1>1 DEF OwnOutput
<1>2. CASE ~(j = None \/ mem[p].lots[j].esi)
  <2> DEFINE f == [k \in Job |-> IF k < j /\ mem[p].lots[k].type = mem[p].lots[j].type
                                 THEN mem[p].lots[k].qty ELSE 0]
  <2>1. f \in [Job -> Nat]
    BY LotTyped
  <2>2. j \in Job /\ mem[p].lots[j].qty \in Nat
    BY <1>2, LotTyped
  <2> HIDE DEF f
  <2>3. Total(f) \in Nat
    BY <2>1, KeyAssumption, TotalType
  <2>4. OwnOutput(mem[p], j, n) = AtMost(mem[p].lots[j].qty, Positive(n - Total(f)))
    BY <1>2 DEF OwnOutput, f
  <2> QED
    BY <2>2, <2>3, <2>4 DEF AtMost, Positive
<1> QED
  BY <1>1, <1>2

\* WriteRow in the words of the definitions above.
LEMMA WriteRowIs ==
    ASSUME NEW p \in Runner, NEW t \in Type, WriteRow(p, t)
    PROVE  /\ mem[p].at = "planning" /\ t \in Pending(p)
           /\ \A u \in Pending(p) : Level[t] <= Level[u]
           /\ LiveOf(t) # {} \/ Unused(t) # {}
           /\ req' = [req EXCEPT ![RowFor(t)] =
                 Row(JobOf(t), mem[p].cells[t], CellNet(mem[p], t), DivergedOf(t))]
           /\ mem' = [mem EXCEPT ![p] = [mem[p] EXCEPT
                 !.cells = [u \in Type |-> mem[p].cells[u]
                              + IF t \in Built THEN CellNet(mem[p], t) * Uses[t][u] ELSE 0],
                 !.seen[t] = [pk |-> GenFor(t), job |-> JobOf(t),
                              target |-> CellTarget(mem[p], t), diverged |-> DivergedOf(t)]]]
           /\ UNCHANGED <<world, job, running, desk, plan, since>>
BY DEF WriteRow, RowFor, JobOf, DivergedOf, CellNet, CellShort, CellTarget

\* The row written is the live one of the type, if there is one.
LEMMA RowForIs ==
    ASSUME RowsTyped, NEW t \in Type, LiveOf(t) # {} \/ Unused(t) # {}
    PROVE  /\ GenFor(t) \in Gen /\ RowFor(t) \in Req
           /\ LiveOf(t) # {} => RowFor(t) \in LiveOf(t)
           /\ LiveOf(t) = {} => RowFor(t) \notin Live
<1>1. ASSUME NEW r \in LiveOf(t) PROVE r[2] \in Gen /\ r = <<t, r[2]>>
  BY DEF LiveOf, Live, Req, TypeOf
<1>2. CASE LiveOf(t) # {}
  <2> DEFINE S == {r[2] : r \in LiveOf(t)}
  <2>1. S \in SUBSET Nat /\ S # {}
    BY <1>1, <1>2, KeyAssumption
  <2>2. GenFor(t) = Lowest(S)
    BY <1>2 DEF GenFor
  <2>3. GenFor(t) \in S
    BY <2>1, <2>2, LowestIn
  <2>4. PICK r \in LiveOf(t) : GenFor(t) = r[2]
    BY <2>3
  <2> QED
    BY <1>1, <1>2, <2>4 DEF RowFor, Req
<1>3. CASE LiveOf(t) = {}
  <2>1. Unused(t) \in SUBSET Nat /\ Unused(t) # {}
    BY <1>3, KeyAssumption DEF Unused
  <2>2. GenFor(t) = Lowest(Unused(t))
    BY <1>3 DEF GenFor
  <2>3. GenFor(t) \in Unused(t)
    BY <2>1, <2>2, LowestIn
  <2> QED
    BY <1>3, <2>3 DEF RowFor, Req, Unused
<1> QED
  BY <1>2, <1>3

LEMMA CellTyped ==
    ASSUME RowsTyped, NEW p \in Runner, NEW t \in Type, LiveOf(t) # {} \/ Unused(t) # {}
    PROVE  /\ CellShort(mem[p], t) \in Nat /\ CellNet(mem[p], t) \in Nat
           /\ CellTarget(mem[p], t) \in Nat
           /\ JobOf(t) \in Job \cup {None} /\ DivergedOf(t) \in BOOLEAN
<1>1. mem[p].cells[t] \in Nat /\ stock[t] \in Nat
  BY DEF RowsTyped, MemRow
<1>2. CellShort(mem[p], t) \in Nat
  BY <1>1 DEF CellShort, AtMost
<1>3. CellNet(mem[p], t) \in Nat
  BY <1>2, LotsNat DEF CellNet, AtMost
<1>4. JobOf(t) \in Job \cup {None} /\ DivergedOf(t) \in BOOLEAN
  BY RowForIs DEF JobOf, DivergedOf, RowsTyped, ReqRow
<1>5. OwnOutput(mem[p], JobOf(t), CellShort(mem[p], t)) \in Nat
  BY <1>2, <1>4, OwnNat
<1> QED
  BY <1>2, <1>3, <1>4, <1>5 DEF CellTarget

LEMMA InitTyped == Init => RowsTyped
<1> SUFFICES ASSUME Init PROVE RowsTyped
  OBVIOUS
<1>1. NoReq \in ReqRow /\ Idle \in MemRow
  BY DEF NoReq, ReqRow, Idle, MemRow
<1> QED
  BY <1>1 DEF Init, RowsTyped

\* The steps of a run keep the types.
LEMMA RunTyped ==
    ASSUME RowsTyped, NEW p \in Runner, ClaimRun(p) \/ RunStep(p) \/ FailRun(p)
    PROVE  RowsTyped'
<1>0. Idle \in MemRow /\ Claimed \in MemRow /\ mem[p] \in MemRow
  BY DEF Idle, Claimed, MemRow, RowsTyped
<1>1. CASE ClaimRun(p)
  BY <1>0, <1>1 DEF ClaimRun, RowsTyped, world
<1>2. CASE Intake(p)
  <2> DEFINE c == [t \in Type |-> demand[t] + Cascade(t)]
             m == [Idle EXCEPT !.at = "planning", !.lots = job, !.cells = c]
  <2>1. c \in [Type -> Nat]
    BY CascadeNat DEF RowsTyped
  <2> HIDE DEF c
  <2>2. m \in MemRow
    BY <1>0, <2>1 DEF MemRow, RowsTyped
  <2>3. mem' = [mem EXCEPT ![p] = m]
    BY <1>2 DEF Intake, c
  <2> HIDE DEF m
  <2> QED
    BY <1>2, <2>2, <2>3 DEF Intake, RowsTyped, world
<1>3. CASE EndRun(p)
  BY <1>0, <1>3 DEF EndRun, RowsTyped, world
<1>4. CASE FailRun(p)
  BY <1>0, <1>4 DEF FailRun, RowsTyped, world
<1>5. ASSUME NEW t \in Type, WriteRow(p, t) PROVE RowsTyped'
  <2> DEFINE c == [u \in Type |-> mem[p].cells[u]
                     + IF t \in Built THEN CellNet(mem[p], t) * Uses[t][u] ELSE 0]
             s == [pk |-> GenFor(t), job |-> JobOf(t),
                   target |-> CellTarget(mem[p], t), diverged |-> DivergedOf(t)]
             m == [mem[p] EXCEPT !.cells = c, !.seen[t] = s]
             w == Row(JobOf(t), mem[p].cells[t], CellNet(mem[p], t), DivergedOf(t))
  <2>1. /\ req' = [req EXCEPT ![RowFor(t)] = w] /\ mem' = [mem EXCEPT ![p] = m]
        /\ UNCHANGED <<world, job, running, desk, plan, since>>
        /\ LiveOf(t) # {} \/ Unused(t) # {}
    BY <1>5, WriteRowIs
  <2>2. /\ CellNet(mem[p], t) \in Nat /\ CellTarget(mem[p], t) \in Nat
        /\ JobOf(t) \in Job \cup {None} /\ DivergedOf(t) \in BOOLEAN
    BY <2>1, CellTyped
  <2>3. GenFor(t) \in Gen /\ RowFor(t) \in Req
    BY <2>1, RowForIs
  <2>4. mem[p].cells \in [Type -> Nat] /\ mem[p].seen \in [Type -> SeenRow \cup {NoRow}]
    BY <1>0 DEF MemRow
  <2>5. c \in [Type -> Nat]
    <3> SUFFICES ASSUME NEW u \in Type PROVE c[u] \in Nat
      OBVIOUS
    <3>1. CellNet(mem[p], t) * Uses[t][u] \in Nat
      BY <2>2, TimesNat, RecipeAssumption
    <3> QED
      BY <2>4, <3>1
  <2>6. s \in SeenRow
    BY <2>2, <2>3 DEF SeenRow
  <2>7. w \in ReqRow
    <3>1. NoReq \in ReqRow
      BY DEF NoReq, ReqRow
    <3> QED
      BY <2>2, <2>4, <3>1 DEF Row, ReqRow
  <2> HIDE DEF c, s, w
  <2>8. m \in MemRow
    BY <1>0, <2>4, <2>5, <2>6 DEF MemRow
  <2> HIDE DEF m
  <2> QED
    BY <2>1, <2>3, <2>7, <2>8 DEF RowsTyped, world
<1>6. ASSUME NEW t \in Type, ReconcileRow(p, t) PROVE RowsTyped'
  <2> DEFINE s == mem[p].seen[t]
             r == <<t, s.pk>>
             j == s.job
             over == j # None /\ j \notin Active
             flag == j \in Active /\ job[j].state \in Underway /\ job[j].qty # s.target
             m == [Idle EXCEPT !.at = "planning", !.done = mem[p].done \cup {t},
                               !.seen = [mem[p].seen EXCEPT ![t] = NoRow]]
  <2>1. s \in SeenRow /\ r \in Req
    BY <1>0, <1>6 DEF ReconcileRow, Unreconciled, MemRow, SeenRow, Req
  <2>2. m \in MemRow
    BY <1>0 DEF MemRow
  <2>3. req' \in [Req -> ReqRow]
    <3>1. req' = [req EXCEPT ![r].diverged = IF s.diverged # flag THEN flag ELSE @,
                             ![r].job = IF over THEN None ELSE @]
      BY <1>6 DEF ReconcileRow
    <3>2. flag \in BOOLEAN
      OBVIOUS
    <3> HIDE DEF flag, over
    <3> DEFINE d == IF s.diverged # flag THEN flag ELSE req[r].diverged
               n == IF over THEN None ELSE req[r].job
    <3>3. req[r] \in ReqRow /\ req \in [Req -> ReqRow]
      BY <2>1 DEF RowsTyped
    <3>4. d \in BOOLEAN /\ n \in Job \cup {None}
      BY <3>2, <3>3 DEF ReqRow
    <3>5. req' = [req EXCEPT ![r].diverged = d, ![r].job = n]
      BY <2>1, <3>1, <3>3
    <3> HIDE DEF d, n
    <3> QED
      BY <2>1, <3>3, <3>4, <3>5 DEF ReqRow
  <2>4. job' \in [Job -> JobRow \cup {NoJob}]
    <3>1. CASE /\ j \in Active /\ job[j].state = "queued"
               /\ s.target > 0 /\ job[j].qty # s.target
      <4>1. job' = [job EXCEPT ![j].qty = s.target]
        BY <1>6, <3>1 DEF ReconcileRow
      <4>2. j \in Job /\ job[j] \in JobRow /\ s.target \in Nat \ {0}
        BY <2>1, <3>1, JobTyped DEF Active, SeenRow
      <4>3. [job[j] EXCEPT !.qty = s.target] \in JobRow
        BY <4>2 DEF JobRow
      <4> QED
        BY <4>1, <4>2, <4>3 DEF RowsTyped
    <3>2. CASE ~(/\ j \in Active /\ job[j].state = "queued"
                 /\ s.target > 0 /\ job[j].qty # s.target)
      BY <1>6, <3>2 DEF ReconcileRow, RowsTyped
    <3> QED
      BY <3>1, <3>2
  <2>5. mem' = [mem EXCEPT ![p] = m] /\ UNCHANGED <<world, running, desk>>
    BY <1>6 DEF ReconcileRow
  <2>6. plan' \in {"none", "exact", "adjusted"} /\ since' \in [Runner -> {"stale", "exact", "adjusted"}]
    BY <1>6 DEF ReconcileRow, Adjust, SameHistory, RowsTyped
  <2> HIDE DEF m
  <2> QED
    BY <2>2, <2>3, <2>4, <2>5, <2>6 DEF RowsTyped, world
<1>7. ASSUME NEW r \in Req, SweepRow(p, r) PROVE RowsTyped'
  <2>1. Swept(r) \in ReqRow
    <3>1. req[r] \in ReqRow
      BY DEF RowsTyped
    <3> QED
      BY <3>1 DEF Swept, Row, NoReq, ReqRow
  <2> QED
    BY <1>7, <2>1 DEF SweepRow, RowsTyped, world
<1> QED
  BY <1>1, <1>2, <1>3, <1>4, <1>5, <1>6, <1>7 DEF RunStep

\* So do officers, builders and the world.
LEMMA InterferenceTyped ==
    ASSUME RowsTyped, Interference
    PROVE  RowsTyped'
<1>0. Disturb => plan' \in {"none"} /\ since' \in [Runner -> {"stale"}]
  BY DEF Disturb
<1>1. ASSUME NEW p \in Runner, FailRun(p) PROVE RowsTyped'
  BY <1>1, RunTyped
<1>2. ASSUME NEW o \in Officer, FanOut(o) PROVE RowsTyped'
  <2> DEFINE r == desk[o]  j == Lowest(Vacant)
             x == [state |-> "queued", type |-> TypeOf(r), qty |-> UnitsOf(r), esi |-> FALSE]
  <2>1. r \in Req
    BY <1>2 DEF FanOut, RowsTyped
  <2>2. j \in Job
    BY <1>2, KeyAssumption, LowestIn DEF FanOut, Vacant
  <2>3. TypeOf(r) \in Type /\ UnitsOf(r) \in Nat \ {0}
    BY <2>1 DEF TypeOf, Req, UnitsOf, RowsTyped, ReqRow
  <2>4. x \in JobRow
    BY <2>3 DEF JobRow
  <2>5. /\ job' = [job EXCEPT ![j] = x]
        /\ req' = [req EXCEPT ![r].job = j, ![r].state = "in_progress"]
        /\ desk' = [desk EXCEPT ![o] = None]
        /\ Disturb /\ UNCHANGED <<world, running, mem>>
    BY <1>2 DEF FanOut
  <2> HIDE DEF x, j
  <2>6. req' \in [Req -> ReqRow]
    BY <2>1, <2>2, <2>5 DEF RowsTyped, ReqRow
  <2> QED
    BY <1>0, <2>2, <2>4, <2>5, <2>6 DEF RowsTyped, world
<1>3. ASSUME NEW o \in Officer, FanOutVain(o) PROVE RowsTyped'
  BY <1>3 DEF FanOutVain, RowsTyped, world
<1>4. ASSUME NEW o \in Officer, NEW r \in Req, ReadRequirement(o, r) PROVE RowsTyped'
  BY <1>4 DEF ReadRequirement, RowsTyped, world
<1>5. ASSUME NEW j \in Job, ClaimJob(j) \/ MarkBuilt(j) PROVE RowsTyped'
  <2>1. job[j] \in JobRow
    BY <1>5, JobTyped DEF ClaimJob, MarkBuilt
  <2>2. PICK st \in {"building", "built"} : job' = [job EXCEPT ![j].state = st]
    BY <1>5 DEF ClaimJob, MarkBuilt
  <2>3. [job[j] EXCEPT !.state = st] \in JobRow
    BY <2>1 DEF JobRow
  <2>4. Disturb /\ UNCHANGED <<world, req, running, mem, desk>>
    BY <1>5 DEF ClaimJob, MarkBuilt
  <2> QED
    BY <1>0, <2>2, <2>3, <2>4 DEF RowsTyped, world
<1>6. ASSUME NEW j \in Job, CancelJob(j) PROVE RowsTyped'
  BY <1>0, <1>6 DEF CancelJob, RowsTyped, world
<1>7. ASSUME NEW j \in Job, LinkJob(j) PROVE RowsTyped'
  <2>1. job[j] \in JobRow
    BY <1>7, JobTyped DEF LinkJob, Underway
  <2>2. [job[j] EXCEPT !.esi = ~@] \in JobRow
    BY <2>1 DEF JobRow
  <2> QED
    BY <1>0, <1>7, <2>2 DEF LinkJob, RowsTyped, world
<1>8. ASSUME NEW j \in Job, DeliverJob(j) PROVE RowsTyped'
  <2> DEFINE t == job[j].type
             s == [u \in Type |-> IF u = t THEN stock[u] + job[j].qty
                                  ELSE Positive(stock[u] - Uses[t][u] * job[j].qty)]
  <2>1. t \in Type /\ job[j].qty \in Nat
    BY <1>8, JobTyped DEF DeliverJob, Underway
  <2>2. s \in [Type -> Nat]
    <3> SUFFICES ASSUME NEW u \in Type PROVE s[u] \in Nat
      OBVIOUS
    <3>1. Uses[t][u] * job[j].qty \in Nat /\ stock[u] \in Nat
      BY <2>1, TimesNat, RecipeAssumption DEF RowsTyped
    <3> QED
      BY <2>1, <3>1 DEF Positive
  <2>3. /\ job' = [job EXCEPT ![j] = NoJob] /\ stock' = s
        /\ Disturb /\ UNCHANGED <<demand, req, running, mem, desk>>
    BY <1>8 DEF DeliverJob
  <2> HIDE DEF s
  <2> QED
    BY <1>0, <2>2, <2>3 DEF RowsTyped
<1>9. ASSUME NEW t \in Type, NEW n \in 0..MaxDemand, DemandMoves(t, n) PROVE RowsTyped'
  BY <1>0, <1>9, KeyAssumption DEF DemandMoves, RowsTyped
<1>10. ASSUME NEW t \in Type, NEW n \in 0..MaxStock, StockMoves(t, n) PROVE RowsTyped'
  BY <1>0, <1>10, KeyAssumption DEF StockMoves, RowsTyped
<1> QED
  BY <1>1, <1>2, <1>3, <1>4, <1>5, <1>6, <1>7, <1>8, <1>9, <1>10 DEF Interference

LEMMA NextTyped == RowsTyped /\ [Next]_vars => RowsTyped'
<1> SUFFICES ASSUME RowsTyped, [Next]_vars PROVE RowsTyped'
  OBVIOUS
<1>1. CASE UNCHANGED vars
  BY <1>1 DEF vars, world, RowsTyped
<1> QED
  BY <1>1, RunTyped, InterferenceTyped DEF Next

LEMMA AlwaysTyped == Spec => []RowsTyped
BY InitTyped, NextTyped, PTL DEF Spec

\* Every variable keeps its type: requirements stay natural numbers, and a job
\* row has a type and units as long as it is under way.
THEOREM RunsTyped == Spec => []TypeOK
<1>1. RowsTyped => TypeOK
  <2> SUFFICES ASSUME RowsTyped PROVE TypeOK
    OBVIOUS
  <2>1. ASSUME NEW j \in Job PROVE job[j] = NoJob \/ (job[j].type \in Type /\ job[j].qty \in Nat \ {0})
    BY JobTyped DEF Active
  <2> QED
    BY <2>1 DEF TypeOK, RowsTyped, ReqRow, MemRow, Live
<1> QED
  BY <1>1, AlwaysTyped, PTL

-----------------------------------------------------------------------------
(* One vehicle                                                             *)

\* One run works at a time, unless a live one is taken for dead.
Alone == \A p \in Runner : mem[p] # Idle => running = p
OneLive == \A r \in Live, s \in Live : TypeOf(r) = TypeOf(s) => r = s
\* A job under way is carried by a live requirement of its type: were it let go
\* before it is finished, the next fan-out would mint a second one.
Carried == \A j \in Active : \E r \in Live : req[r].job = j /\ TypeOf(r) = job[j].type
\* Only what has a vehicle diverges from it: a closed row stays closed when the
\* run that closed it comes to reconcile it.
Plain == \A r \in Req : req[r].job = None => ~req[r].diverged
\* The rows in a run's memory.  A requirement met meanwhile may have been given
\* a job; one that had a job still has it.
SeenAsIs == \A p \in Runner, t \in Type :
    LET s == mem[p].seen[t] IN
    s # NoRow => IF s.job = None THEN ~s.diverged
                 ELSE /\ req[<<t, s.pk>>].job = s.job
                      /\ req[<<t, s.pk>>].diverged = s.diverged
VehicleInv == Alone /\ OneLive /\ Carried /\ Plain /\ SeenAsIs

LEMMA SeenTyped ==
    ASSUME RowsTyped, NEW p \in Runner, NEW t \in Type, mem[p].seen[t] # NoRow
    PROVE  mem[p].seen[t] \in SeenRow /\ <<t, mem[p].seen[t].pk>> \in Req
BY DEF RowsTyped, MemRow, SeenRow, Req

\* ReconcileRow in the words of the row it changes.
SeenAt(p, t) == mem[p].seen[t]
RowAt(p, t) == <<t, SeenAt(p, t).pk>>
Lets(s) == s.job # None /\ s.job \notin Active
Flags(s) == s.job \in Active /\ job[s.job].state \in Underway /\ job[s.job].qty # s.target
Resizes(s) == /\ s.job \in Active /\ job[s.job].state = "queued"
              /\ s.target > 0 /\ job[s.job].qty # s.target
LEMMA ReconcileRowIs ==
    ASSUME RowsTyped, NEW p \in Runner, NEW t \in Type, ReconcileRow(p, t)
    PROVE  /\ SeenAt(p, t) # NoRow /\ SeenAt(p, t) \in SeenRow
           /\ RowAt(p, t) \in Req /\ mem[p] # Idle
           /\ req' = [req EXCEPT ![RowAt(p, t)] = [req[RowAt(p, t)] EXCEPT
                 !.diverged = IF SeenAt(p, t).diverged # Flags(SeenAt(p, t))
                              THEN Flags(SeenAt(p, t)) ELSE req[RowAt(p, t)].diverged,
                 !.job = IF Lets(SeenAt(p, t)) THEN None ELSE req[RowAt(p, t)].job]]
           /\ mem' = [mem EXCEPT ![p] = [Idle EXCEPT !.at = "planning",
                 !.done = mem[p].done \cup {t}, !.seen = [mem[p].seen EXCEPT ![t] = NoRow]]]
           /\ Resizes(SeenAt(p, t)) =>
                 job' = [job EXCEPT ![SeenAt(p, t).job].qty = SeenAt(p, t).target] /\ Adjust(p)
           /\ ~Resizes(SeenAt(p, t)) =>
                 UNCHANGED job /\ IF Lets(SeenAt(p, t)) THEN Adjust(p) ELSE SameHistory
           /\ UNCHANGED <<world, running, desk>>
<1> DEFINE s == SeenAt(p, t)  r == RowAt(p, t)
<1>1. t \in Unreconciled(p) /\ s # NoRow
  BY DEF ReconcileRow, Unreconciled, SeenAt
<1>2. s \in SeenRow /\ r \in Req
  BY <1>1, SeenTyped DEF SeenAt, RowAt
<1>3. mem[p] # Idle
  BY <1>1 DEF Idle, SeenAt, Unreconciled
<1>4. req' = [req EXCEPT ![r].diverged = IF s.diverged # Flags(s) THEN Flags(s) ELSE @,
                         ![r].job = IF Lets(s) THEN None ELSE @]
  BY DEF ReconcileRow, Flags, Lets, SeenAt, RowAt
<1>5. req[r] \in ReqRow /\ req \in [Req -> ReqRow]
  BY <1>2 DEF RowsTyped
<1>6. req' = [req EXCEPT ![r] = [req[r] EXCEPT
                 !.diverged = IF s.diverged # Flags(s) THEN Flags(s) ELSE req[r].diverged,
                 !.job = IF Lets(s) THEN None ELSE req[r].job]]
  <2> DEFINE d == IF s.diverged # Flags(s) THEN Flags(s) ELSE req[r].diverged
             n == IF Lets(s) THEN None ELSE req[r].job
  <2>1. req' = [req EXCEPT ![r].diverged = d, ![r].job = n]
    BY <1>2, <1>4, <1>5
  <2> HIDE DEF d, n
  <2>2. req' = [req EXCEPT ![r] = [req[r] EXCEPT !.diverged = d, !.job = n]]
    BY <1>2, <1>5, <2>1 DEF ReqRow
  <2> QED
    BY <2>2 DEF d, n
<1>7. /\ mem' = [mem EXCEPT ![p] = [Idle EXCEPT !.at = "planning",
                 !.done = mem[p].done \cup {t}, !.seen = [mem[p].seen EXCEPT ![t] = NoRow]]]
      /\ UNCHANGED <<world, running, desk>>
  BY DEF ReconcileRow
<1>8. /\ Resizes(s) => job' = [job EXCEPT ![s.job].qty = s.target] /\ Adjust(p)
      /\ ~Resizes(s) => UNCHANGED job /\ IF Lets(s) THEN Adjust(p) ELSE SameHistory
  BY DEF ReconcileRow, Resizes, Lets, SeenAt
<1> QED
  BY <1>1, <1>2, <1>3, <1>6, <1>7, <1>8

LEMMA InitVehicles == Init => VehicleInv
<1> SUFFICES ASSUME Init PROVE VehicleInv
  OBVIOUS
<1>1. Live = {} /\ Active = {}
  BY DEF Init, Live, Active
<1>2. \A p \in Runner : mem[p] = Idle
  BY DEF Init
<1>3. Plain
  BY DEF Init, Plain, NoReq
<1>4. SeenAsIs
  BY <1>2 DEF SeenAsIs, Idle
<1> QED
  BY <1>1, <1>2, <1>3, <1>4 DEF VehicleInv, Alone, OneLive, Carried

\* A run that works is alone: the memory of all others is empty.
LEMMA OthersIdle ==
    ASSUME Alone, NEW p \in Runner, mem[p] # Idle, NEW q \in Runner \ {p}
    PROVE  mem[q] = Idle
BY DEF Alone

LEMMA IdleSeen == \A t \in Type : Idle.seen[t] = NoRow /\ Claimed.seen[t] = NoRow
BY DEF Idle, Claimed

\* Memory that a step of p leaves with rows it had before.
LEMMA SeenKept ==
    ASSUME RowsTyped, SeenAsIs, UNCHANGED req,
           \A p \in Runner, t \in Type :
               mem'[p].seen[t] = NoRow \/ mem'[p].seen[t] = mem[p].seen[t]
    PROVE  SeenAsIs'
BY DEF SeenAsIs

\* What a wave does to its row, which is the only one of the type afterwards,
WaveDone(p, t) ==
    /\ mem[p] # Idle /\ mem[p].at = "planning" /\ t \in Pending(p)
    /\ RowFor(t) \in Req /\ RowFor(t) = <<t, GenFor(t)>> /\ TypeOf(RowFor(t)) = t
    /\ GenFor(t) \in Gen /\ LiveOf(t) \subseteq {RowFor(t)}
    /\ JobOf(t) = req[RowFor(t)].job /\ DivergedOf(t) = req[RowFor(t)].diverged
    /\ req'[RowFor(t)] = WrittenRow(p, t) /\ \A x \in Req \ {RowFor(t)} : req'[x] = req[x]
    /\ WrittenRow(p, t).job = req[RowFor(t)].job
    /\ WrittenRow(p, t).job # None =>
          WrittenRow(p, t) # NoReq /\ WrittenRow(p, t).diverged = req[RowFor(t)].diverged
    /\ WrittenRow(p, t).job = None => ~WrittenRow(p, t).diverged
    /\ \A q \in Runner \ {p} : mem'[q] = mem[q]
    /\ \A u \in Type : mem'[p].seen[u] = IF u = t THEN WrittenSeen(p, t) ELSE mem[p].seen[u]
    /\ \A u \in Type : mem'[p].cells[u] = mem[p].cells[u]
          + IF t \in Built THEN CellNet(mem[p], t) * Uses[t][u] ELSE 0
    /\ mem'[p].at = mem[p].at /\ mem'[p].lots = mem[p].lots /\ mem'[p].done = mem[p].done
    /\ UNCHANGED <<world, job, running, desk, plan, since>>

LEMMA WaveEffect ==
    ASSUME RowsTyped, VehicleInv, NEW p \in Runner, NEW t \in Type, WriteRow(p, t)
    PROVE  WaveDone(p, t)
<1> DEFINE r == RowFor(t)
           w == WrittenRow(p, t)
           s == WrittenSeen(p, t)
           c == [u \in Type |-> mem[p].cells[u]
                   + IF t \in Built THEN CellNet(mem[p], t) * Uses[t][u] ELSE 0]
<1>0. mem \in [Runner -> MemRow] /\ req \in [Req -> ReqRow]
  BY DEF RowsTyped
<1>1. /\ mem[p].at = "planning" /\ t \in Pending(p)
      /\ req' = [req EXCEPT ![r] = w]
      /\ mem' = [mem EXCEPT ![p] = [mem[p] EXCEPT !.cells = c, !.seen[t] = s]]
      /\ UNCHANGED <<world, job, running, desk, plan, since>>
      /\ LiveOf(t) # {} \/ Unused(t) # {}
  BY WriteRowIs DEF WrittenRow, WrittenSeen
<1>2. mem[p] # Idle
  BY <1>1 DEF Idle
<1>3. mem[p] \in MemRow /\ mem[p].seen \in [Type -> SeenRow \cup {NoRow}]
  BY <1>0 DEF MemRow
<1>4. /\ r \in Req /\ r = <<t, GenFor(t)>> /\ TypeOf(r) = t /\ GenFor(t) \in Gen
      /\ LiveOf(t) # {} => r \in LiveOf(t)
      /\ LiveOf(t) = {} => r \notin Live
  BY <1>1, RowForIs DEF RowFor, TypeOf
<1>5. LiveOf(t) \subseteq {r}
  BY <1>4 DEF VehicleInv, OneLive, LiveOf
<1>6. JobOf(t) = req[r].job /\ DivergedOf(t) = req[r].diverged
  <2>1. r \notin Live => req[r].job = None /\ req[r].diverged = FALSE
    BY <1>4 DEF Live, NoReq
  <2>2. req[r].diverged \in BOOLEAN
    BY <1>0, <1>4 DEF ReqRow
  <2> QED
    BY <2>1, <2>2 DEF JobOf, DivergedOf
<1>7. /\ w.job = req[r].job
      /\ w.job # None => w # NoReq /\ w.diverged = req[r].diverged
      /\ w.job = None => ~w.diverged
  <2>1. JobOf(t) = None => ~DivergedOf(t)
    BY <1>4, <1>6 DEF VehicleInv, Plain
  <2> QED
    BY <1>6, <2>1 DEF Row, NoReq, WrittenRow
<1> HIDE DEF c, s, w
<1>8. req'[r] = w /\ \A x \in Req \ {r} : req'[x] = req[x]
  BY <1>0, <1>1, <1>4
<1>9. /\ \A q \in Runner \ {p} : mem'[q] = mem[q]
      /\ mem'[p].seen = [mem[p].seen EXCEPT ![t] = s] /\ mem'[p].cells = c
      /\ mem'[p].at = mem[p].at /\ mem'[p].lots = mem[p].lots /\ mem'[p].done = mem[p].done
  BY <1>0, <1>1, <1>3 DEF MemRow
<1>10. \A u \in Type : mem'[p].seen[u] = IF u = t THEN s ELSE mem[p].seen[u]
  BY <1>3, <1>9
<1>11. \A u \in Type : mem'[p].cells[u] = mem[p].cells[u]
                 + IF t \in Built THEN CellNet(mem[p], t) * Uses[t][u] ELSE 0
  BY <1>9 DEF c
<1> HIDE DEF r
<1>12. /\ mem[p] # Idle /\ mem[p].at = "planning" /\ t \in Pending(p)
       /\ r \in Req /\ r = <<t, GenFor(t)>> /\ TypeOf(r) = t
       /\ GenFor(t) \in Gen /\ LiveOf(t) \subseteq {r}
       /\ JobOf(t) = req[r].job /\ DivergedOf(t) = req[r].diverged
  BY <1>1, <1>2, <1>4, <1>5, <1>6
<1> QED
  BY <1>1, <1>7, <1>8, <1>9, <1>10, <1>11, <1>12, Zenon DEF r, w, s, WaveDone

\* what reconciling does to a row, which it leaves alone if it had no job,
ReconcileDone(p, t) ==
    /\ SeenAt(p, t) # NoRow /\ SeenAt(p, t) \in SeenRow /\ mem[p] # Idle
    /\ RowAt(p, t) \in Req /\ TypeOf(RowAt(p, t)) = t
    /\ \A x \in Req \ {RowAt(p, t)} : req'[x] = req[x]
    /\ SeenAt(p, t).job = None => UNCHANGED <<req, job, plan, since>>
    /\ SeenAt(p, t).job # None =>
          /\ RowAt(p, t) \in Live /\ req[RowAt(p, t)].job = SeenAt(p, t).job
          /\ req'[RowAt(p, t)] = [req[RowAt(p, t)] EXCEPT !.diverged = Flags(SeenAt(p, t)),
                !.job = IF Lets(SeenAt(p, t)) THEN None ELSE SeenAt(p, t).job]
    /\ Resizes(SeenAt(p, t)) =>
          job' = [job EXCEPT ![SeenAt(p, t).job].qty = SeenAt(p, t).target] /\ Adjust(p)
    /\ ~Resizes(SeenAt(p, t)) =>
          UNCHANGED job /\ IF Lets(SeenAt(p, t)) THEN Adjust(p) ELSE SameHistory
    /\ Active' = Active
    /\ \A j \in Job : job'[j].type = job[j].type /\ job'[j].esi = job[j].esi
                      /\ job'[j].state = job[j].state
    /\ Live' \subseteq Live
    /\ \A q \in Runner \ {p} : mem'[q] = mem[q]
    /\ \A u \in Type : mem'[p].seen[u] = IF u = t THEN NoRow ELSE mem[p].seen[u]
    /\ \A u \in Type : mem'[p].cells[u] = 0
    /\ mem'[p].at = "planning" /\ mem'[p].done = mem[p].done \cup {t}
    /\ UNCHANGED <<world, running, desk>>

LEMMA ReconcileEffect ==
    ASSUME RowsTyped, VehicleInv, NEW p \in Runner, NEW t \in Type, ReconcileRow(p, t)
    PROVE  ReconcileDone(p, t)
<1> DEFINE s == SeenAt(p, t)
           r == RowAt(p, t)
           d == IF s.diverged # Flags(s) THEN Flags(s) ELSE req[r].diverged
           n == IF Lets(s) THEN None ELSE req[r].job
<1>0. /\ mem \in [Runner -> MemRow] /\ req \in [Req -> ReqRow] /\ job \in [Job -> JobRow \cup {NoJob}]
      /\ mem[p].seen \in [Type -> SeenRow \cup {NoRow}] /\ None \notin Job
  BY KeyAssumption DEF RowsTyped, MemRow
<1>1. /\ s # NoRow /\ s \in SeenRow /\ r \in Req /\ mem[p] # Idle
      /\ req' = [req EXCEPT ![r] = [req[r] EXCEPT !.diverged = d, !.job = n]]
      /\ mem' = [mem EXCEPT ![p] = [Idle EXCEPT !.at = "planning",
            !.done = mem[p].done \cup {t}, !.seen = [mem[p].seen EXCEPT ![t] = NoRow]]]
      /\ Resizes(s) => job' = [job EXCEPT ![s.job].qty = s.target] /\ Adjust(p)
      /\ ~Resizes(s) => UNCHANGED job /\ IF Lets(s) THEN Adjust(p) ELSE SameHistory
      /\ UNCHANGED <<world, running, desk>>
  BY ReconcileRowIs
<1>2. s = mem[p].seen[t] /\ r = <<t, s.pk>> /\ TypeOf(r) = t
  BY DEF SeenAt, RowAt, TypeOf
<1>3. IF s.job = None THEN ~s.diverged ELSE req[r].job = s.job /\ req[r].diverged = s.diverged
  BY <1>1, <1>2 DEF VehicleInv, SeenAsIs
<1>4. /\ \A q \in Runner \ {p} : mem'[q] = mem[q]
      /\ \A u \in Type : mem'[p].seen[u] = IF u = t THEN NoRow ELSE mem[p].seen[u]
      /\ \A u \in Type : mem'[p].cells[u] = 0
      /\ mem'[p].at = "planning" /\ mem'[p].done = mem[p].done \cup {t}
  BY <1>0, <1>1 DEF Idle
<1>5. s.diverged \in BOOLEAN /\ Flags(s) \in BOOLEAN
  BY <1>1 DEF SeenRow, Flags
<1>6. s.job = None => UNCHANGED <<req, job, plan, since>>
  <2> SUFFICES ASSUME s.job = None PROVE UNCHANGED <<req, job, plan, since>>
    OBVIOUS
  <2>1. ~Lets(s) /\ ~Flags(s) /\ ~Resizes(s)
    BY <1>0 DEF Lets, Flags, Resizes, Active
  <2>2. d = req[r].diverged /\ n = req[r].job
    BY <1>3, <1>5, <2>1
  <2> HIDE DEF d, n, s, r
  <2> QED
    BY <1>0, <1>1, <2>1, <2>2 DEF ReqRow, SameHistory
<1>7. s.job # None =>
        /\ r \in Live /\ req[r].job = s.job
        /\ req'[r] = [req[r] EXCEPT !.diverged = Flags(s), !.job = IF Lets(s) THEN None ELSE s.job]
  <2> SUFFICES ASSUME s.job # None
               PROVE  /\ r \in Live /\ req[r].job = s.job
                      /\ req'[r] = [req[r] EXCEPT !.diverged = Flags(s),
                                                  !.job = IF Lets(s) THEN None ELSE s.job]
    OBVIOUS
  <2>1. req[r].job = s.job /\ req[r].diverged = s.diverged /\ r \in Live
    BY <1>1, <1>3 DEF Live, NoReq
  <2>2. n = (IF Lets(s) THEN None ELSE s.job) /\ d = Flags(s)
    BY <1>5, <2>1
  <2> HIDE DEF d, n, s, r
  <2> QED
    BY <1>0, <1>1, <2>1, <2>2
<1>8. \A x \in Req \ {r} : req'[x] = req[x]
  <2> HIDE DEF d, n, r
  <2> QED
    BY <1>0, <1>1
<1>9. /\ Active' = Active
      /\ \A j \in Job : job'[j].type = job[j].type /\ job'[j].esi = job[j].esi
                        /\ job'[j].state = job[j].state
  <2>1. CASE UNCHANGED job
    BY <2>1 DEF Active
  <2>2. CASE Resizes(s)
    <3>1. s.job \in Job /\ job[s.job] \in JobRow /\ s.target \in Nat \ {0}
      BY <1>1, <2>2, JobTyped DEF Resizes, Active, SeenRow
    <3> DEFINE x == [job[s.job] EXCEPT !.qty = s.target]
    <3>2. x \in JobRow
      BY <3>1 DEF JobRow
    <3>3. x # NoJob /\ job[s.job] # NoJob
      BY <3>1, <3>2, RowOrNone
    <3>4. x.type = job[s.job].type /\ x.esi = job[s.job].esi /\ x.state = job[s.job].state
      BY <3>1 DEF JobRow
    <3>5. job' = [job EXCEPT ![s.job] = x]
      BY <1>1, <2>2
    <3> HIDE DEF x, s
    <3>6. \A j \in Job : job'[j] = IF j = s.job THEN x ELSE job[j]
      BY <1>0, <3>1, <3>5
    <3> QED
      BY <3>1, <3>3, <3>4, <3>6 DEF Active
  <2> QED
    BY <1>1, <2>1, <2>2
<1>10. Live' \subseteq Live
  <2>1. CASE s.job = None
    BY <1>6, <2>1 DEF Live
  <2>2. CASE s.job # None
    BY <1>7, <1>8, <2>2 DEF Live
  <2> QED
    BY <2>1, <2>2
<1> HIDE DEF s, r, d, n
<1> QED
  BY <1>1, <1>2, <1>4, <1>6, <1>7, <1>8, <1>9, <1>10, Zenon DEF s, r, ReconcileDone

\* and what sweeping does to one.
SweepDone(p, r) ==
    /\ mem[p] # Idle /\ Sweeping(p) /\ r \in Live /\ TypeOf(r) \notin Visited(p)
    /\ \A q \in Runner, t \in Type : mem[q].seen[t] = NoRow
    /\ req'[r] = Swept(r) /\ \A x \in Req \ {r} : req'[x] = req[x]
    /\ Swept(r).job = req[r].job
    /\ Swept(r).job # None => Swept(r) # NoReq
    /\ Swept(r).job = None => Swept(r) = NoReq /\ ~Swept(r).diverged
    /\ UNCHANGED <<world, job, running, mem, desk, plan, since>>

LEMMA SweepEffect ==
    ASSUME RowsTyped, VehicleInv, NEW p \in Runner, NEW r \in Req, SweepRow(p, r)
    PROVE  SweepDone(p, r)
<1>1. /\ mem[p].at = "planning" /\ Unreconciled(p) = {} /\ r \in Live /\ Sweeping(p)
      /\ TypeOf(r) \notin Visited(p)
      /\ req' = [req EXCEPT ![r] = Swept(r)]
      /\ UNCHANGED <<world, job, running, mem, desk, plan, since>>
  BY DEF SweepRow, Sweeping, ToSweep
<1>2. mem[p] # Idle
  BY <1>1 DEF Idle
<1>3. /\ Swept(r).job = req[r].job
      /\ Swept(r).job # None => Swept(r) # NoReq
      /\ Swept(r).job = None => Swept(r) = NoReq /\ ~Swept(r).diverged
  BY DEF Swept, Row, NoReq, VehicleInv, Plain
<1>4. \A q \in Runner, t \in Type : mem[q].seen[t] = NoRow
  BY <1>1, <1>2, OthersIdle, IdleSeen DEF Unreconciled, VehicleInv
<1>5. req'[r] = Swept(r) /\ \A x \in Req \ {r} : req'[x] = req[x]
  BY <1>1 DEF RowsTyped
<1> QED
  BY <1>1, <1>2, <1>3, <1>4, <1>5 DEF SweepDone

LEMMA RunKeepsVehicles ==
    ASSUME RowsTyped, VehicleInv, ~MayOutlive, NEW p \in Runner,
           ClaimRun(p) \/ RunStep(p) \/ FailRun(p)
    PROVE  VehicleInv'
<1>0. /\ mem \in [Runner -> MemRow] /\ req \in [Req -> ReqRow] /\ job \in [Job -> JobRow \cup {NoJob}]
      /\ running \in Runner \cup {None} /\ None \notin Runner /\ None \notin Job
  BY KeyAssumption DEF RowsTyped
<1>1. CASE ClaimRun(p)
  <2>1. \A q \in Runner : mem[q] = Idle
    BY <1>1, <1>0 DEF ClaimRun, Free, VehicleInv, Alone
  <2>2. \A q \in Runner : mem'[q] \in {Idle, Claimed} /\ (q # p => mem'[q] = Idle)
    BY <1>0, <1>1, <2>1 DEF ClaimRun
  <2>3. SeenAsIs' /\ Alone'
    BY <1>1, <2>2, IdleSeen DEF SeenAsIs, Alone, ClaimRun
  <2> QED
    BY <1>1, <2>3 DEF ClaimRun, VehicleInv, OneLive, Carried, Plain, Live, Active
<1>2. CASE Intake(p)
  <2>1. mem[p] # Idle
    BY <1>2 DEF Intake, Idle
  <2>2. Alone'
    BY <1>0, <1>2, <2>1 DEF Intake, Alone, VehicleInv
  <2>3. \A q \in Runner, t \in Type :
            mem'[q].seen[t] = NoRow \/ mem'[q].seen[t] = mem[q].seen[t]
    BY <1>0, <1>2 DEF Intake, Idle
  <2>4. SeenAsIs'
    BY <1>2, <2>3, SeenKept DEF Intake, VehicleInv
  <2> QED
    BY <1>2, <2>2, <2>4 DEF Intake, VehicleInv, OneLive, Carried, Plain, Live, Active
<1>3. CASE EndRun(p) \/ FailRun(p)
  <2>1. mem[p] # Idle
    BY <1>3 DEF EndRun, Sweeping, FailRun, Idle
  <2>2. mem' = [mem EXCEPT ![p] = Idle] /\ UNCHANGED <<job, req>>
    BY <1>3 DEF EndRun, FailRun
  <2>3. Alone'
    BY <1>0, <2>1, <2>2 DEF Alone, VehicleInv
  <2>4. \A q \in Runner, t \in Type :
            mem'[q].seen[t] = NoRow \/ mem'[q].seen[t] = mem[q].seen[t]
    BY <1>0, <2>2, IdleSeen
  <2>5. SeenAsIs'
    BY <2>2, <2>4, SeenKept DEF VehicleInv
  <2> QED
    BY <2>2, <2>3, <2>5 DEF VehicleInv, OneLive, Carried, Plain, Live, Active
<1>4. ASSUME NEW t \in Type, WriteRow(p, t) PROVE VehicleInv'
  <2> DEFINE r == RowFor(t)
             w == WrittenRow(p, t)
             s == WrittenSeen(p, t)
  <2>0. WaveDone(p, t)
    BY <1>4, WaveEffect
  <2>1. /\ mem[p] # Idle /\ r \in Req /\ r = <<t, GenFor(t)>> /\ TypeOf(r) = t
        /\ LiveOf(t) \subseteq {r}
        /\ \A x \in Req \ {r} : req'[x] = req[x]
        /\ \A q \in Runner \ {p} : mem'[q] = mem[q]
        /\ \A u \in Type : mem'[p].seen[u] = IF u = t THEN s ELSE mem[p].seen[u]
        /\ UNCHANGED <<job, running>>
    BY <2>0 DEF WaveDone
  <2>2. /\ req'[r] = w /\ w.job = req[r].job
        /\ w.job # None => w # NoReq /\ w.diverged = req[r].diverged
        /\ w.job = None => ~w.diverged
    BY <2>0 DEF WaveDone
  <2>3. s.pk = GenFor(t) /\ s.job = req[r].job /\ s.diverged = req[r].diverged
    BY <2>0 DEF WaveDone, WrittenSeen
  <2> HIDE DEF r, w, s
  <2>5. \A x \in Req : /\ req'[x].job = req[x].job
                       /\ req'[x].job # None => req'[x].diverged = req[x].diverged
    BY <2>1, <2>2
  <2>6. Live \ {r} = Live' \ {r} /\ Live' \subseteq Req
    BY <2>1 DEF Live
  <2>7. Alone'
    BY <2>1 DEF Alone, VehicleInv
  <2>8. OneLive'
    <3>1. \A x \in Live : TypeOf(x) = t => x = r
      BY <2>1 DEF LiveOf
    <3> QED
      BY <2>1, <2>6, <3>1 DEF VehicleInv, OneLive
  <2>9. Carried'
    <3> SUFFICES ASSUME NEW j \in Active
                 PROVE  \E x \in Live' : req'[x].job = j /\ TypeOf(x) = job[j].type
      BY <2>1 DEF Carried, Active, TypeOf
    <3>1. PICK x \in Live : req[x].job = j /\ TypeOf(x) = job[j].type
      BY DEF VehicleInv, Carried
    <3>2. x \in Req /\ j # None
      BY <1>0 DEF Live, Active
    <3>3. x = r => x \in Live'
      BY <2>1, <2>2, <3>1, <3>2 DEF Live
    <3> QED
      BY <2>5, <2>6, <3>1, <3>2, <3>3
  <2>10. Plain'
    BY <2>1, <2>2 DEF VehicleInv, Plain
  <2>11. SeenAsIs'
    <3> SUFFICES ASSUME NEW q \in Runner, NEW u \in Type, mem'[q].seen[u] # NoRow
                 PROVE  LET z == mem'[q].seen[u] IN
                        IF z.job = None THEN ~z.diverged
                        ELSE /\ req'[<<u, z.pk>>].job = z.job
                             /\ req'[<<u, z.pk>>].diverged = z.diverged
      BY DEF SeenAsIs
    <3>1. CASE q = p /\ u = t
      <4>1. mem'[q].seen[u] = s
        BY <2>1, <3>1
      <4> QED
        BY <2>1, <2>2, <2>3, <3>1, <4>1 DEF VehicleInv, Plain
    <3>2. CASE ~(q = p /\ u = t)
      <4>1. mem'[q].seen[u] = mem[q].seen[u]
        BY <2>1, <3>2
      <4>2. <<u, mem[q].seen[u].pk>> \in Req
        BY <4>1, SeenTyped
      <4> QED
        BY <2>5, <4>1, <4>2 DEF VehicleInv, SeenAsIs
    <3> QED
      BY <3>1, <3>2
  <2> QED
    BY <2>7, <2>8, <2>9, <2>10, <2>11 DEF VehicleInv
<1>5. ASSUME NEW t \in Type, ReconcileRow(p, t) PROVE VehicleInv'
  <2> DEFINE s == SeenAt(p, t)
             r == RowAt(p, t)
  <2>0. ReconcileDone(p, t)
    BY <1>5, ReconcileEffect
  <2>1. /\ s # NoRow /\ r \in Req /\ mem[p] # Idle /\ TypeOf(r) = t
        /\ \A x \in Req \ {r} : req'[x] = req[x]
        /\ Active' = Active /\ Live' \subseteq Live
        /\ \A q \in Runner \ {p} : mem'[q] = mem[q]
        /\ \A u \in Type : mem'[p].seen[u] = IF u = t THEN NoRow ELSE mem[p].seen[u]
        /\ UNCHANGED running
    BY <2>0 DEF ReconcileDone
  <2>2. \A j \in Job : job'[j].type = job[j].type
    BY <2>0 DEF ReconcileDone
  <2>3. /\ s.job = None => UNCHANGED req
        /\ s.job # None =>
              /\ r \in Live /\ req[r].job = s.job
              /\ req'[r] = [req[r] EXCEPT !.diverged = Flags(s),
                                          !.job = IF Lets(s) THEN None ELSE s.job]
    BY <2>0 DEF ReconcileDone
  <2>4. s.job # None => req'[r].job = (IF Lets(s) THEN None ELSE s.job) /\ req'[r].diverged = Flags(s)
    <3>1. req[r] \in ReqRow
      BY <1>0, <2>1
    <3> HIDE DEF s, r
    <3> QED
      BY <2>3, <3>1 DEF ReqRow
  <2> HIDE DEF s, r
  <2>5. \A q \in Runner \ {p} : mem[q] = Idle
    BY <2>1, OthersIdle DEF VehicleInv
  <2>6. Alone'
    BY <2>1 DEF Alone, VehicleInv
  <2>7. OneLive'
    BY <2>1 DEF VehicleInv, OneLive
  <2>8. Carried'
    <3> SUFFICES ASSUME NEW j \in Active
                 PROVE  \E x \in Live' : req'[x].job = j /\ TypeOf(x) = job[j].type
      BY <2>1, <2>2 DEF Carried, Active, TypeOf
    <3>1. PICK x \in Live : req[x].job = j /\ TypeOf(x) = job[j].type
      BY DEF VehicleInv, Carried
    <3>2. x \in Req /\ j # None
      BY <1>0 DEF Live, Active
    <3>3. CASE x # r \/ s.job = None
      BY <2>1, <2>3, <3>1, <3>2, <3>3 DEF Live
    <3>4. CASE x = r /\ s.job # None
      <4>1. req'[r].job = j
        BY <2>3, <2>4, <3>1, <3>4 DEF Lets
      <4>2. req'[r] # NoReq
        BY <3>2, <4>1 DEF NoReq
      <4> QED
        BY <2>1, <3>1, <3>4, <4>1, <4>2 DEF Live
    <3> QED
      BY <3>3, <3>4
  <2>9. Plain'
    <3>1. Lets(s) => ~Flags(s)
      BY DEF Lets, Flags
    <3> QED
      BY <2>1, <2>3, <2>4, <3>1 DEF VehicleInv, Plain
  <2>10. SeenAsIs'
    <3> SUFFICES ASSUME NEW q \in Runner, NEW u \in Type, mem'[q].seen[u] # NoRow
                 PROVE  LET z == mem'[q].seen[u] IN
                        IF z.job = None THEN ~z.diverged
                        ELSE /\ req'[<<u, z.pk>>].job = z.job
                             /\ req'[<<u, z.pk>>].diverged = z.diverged
      BY DEF SeenAsIs
    <3>1. q = p
      BY <2>1, <2>5, IdleSeen
    <3>2. u # t /\ mem'[p].seen[u] = mem[p].seen[u]
      BY <2>1, <3>1
    <3>3. <<u, mem[p].seen[u].pk>> \in Req \ {r}
      BY <2>1, <3>1, <3>2, SeenTyped DEF TypeOf
    <3> QED
      BY <2>1, <3>1, <3>2, <3>3 DEF VehicleInv, SeenAsIs
  <2> QED
    BY <2>6, <2>7, <2>8, <2>9, <2>10 DEF VehicleInv
<1>6. ASSUME NEW r \in Req, SweepRow(p, r) PROVE VehicleInv'
  <2>0. SweepDone(p, r)
    BY <1>6, SweepEffect
  <2>1. /\ \A q \in Runner, t \in Type : mem[q].seen[t] = NoRow
        /\ req'[r] = Swept(r) /\ \A x \in Req \ {r} : req'[x] = req[x]
        /\ Swept(r).job = req[r].job
        /\ Swept(r).job # None => Swept(r) # NoReq
        /\ Swept(r).job = None => Swept(r) = NoReq /\ ~Swept(r).diverged
        /\ UNCHANGED <<job, running, mem>> /\ r \in Live
    BY <2>0 DEF SweepDone
  <2>2. \A x \in Req : req'[x].job = req[x].job
    BY <2>1
  <2>3. Live' \subseteq Live /\ Live \ {r} = Live' \ {r}
    BY <2>1 DEF Live
  <2>4. OneLive'
    BY <2>3 DEF VehicleInv, OneLive
  <2>5. Carried'
    <3> SUFFICES ASSUME NEW j \in Active
                 PROVE  \E x \in Live' : req'[x].job = j /\ TypeOf(x) = job[j].type
      BY <2>1 DEF Carried, Active, TypeOf
    <3>1. PICK x \in Live : req[x].job = j /\ TypeOf(x) = job[j].type
      BY DEF VehicleInv, Carried
    <3>2. x \in Req /\ j # None
      BY <1>0 DEF Live, Active
    <3>3. x = r => x \in Live'
      BY <2>1, <3>1, <3>2 DEF Live
    <3> QED
      BY <2>2, <2>3, <3>1, <3>2, <3>3
  <2>6. Plain'
    BY <2>1 DEF VehicleInv, Plain
  <2>7. SeenAsIs' /\ Alone'
    BY <2>1 DEF SeenAsIs, VehicleInv, Alone
  <2> QED
    BY <2>4, <2>5, <2>6, <2>7 DEF VehicleInv
<1> QED
  BY <1>1, <1>2, <1>3, <1>4, <1>5, <1>6 DEF RunStep

\* Steps that keep every row and every job's type, and end some jobs.
LEMMA JobsKeepVehicles ==
    ASSUME RowsTyped, VehicleInv, UNCHANGED <<req, running, mem>>,
           \A j \in Active' : j \in Active /\ job'[j].type = job[j].type
    PROVE  VehicleInv'
<1>1. Carried'
  <2> SUFFICES ASSUME NEW j \in Active'
               PROVE  \E r \in Live' : req'[r].job = j /\ TypeOf(r) = job'[j].type
    BY DEF Carried, TypeOf
  <2>1. PICK r \in Live : req[r].job = j /\ TypeOf(r) = job[j].type
    BY DEF VehicleInv, Carried
  <2> QED
    BY <2>1 DEF Live
<1> QED
  BY <1>1 DEF VehicleInv, Alone, OneLive, Plain, SeenAsIs, Live

LEMMA VacantIs ==
    ASSUME RowsTyped, Vacant # {}, NEW j, j = Lowest(Vacant)
    PROVE  /\ j \in Job \ Active /\ \A r \in Req : req[r].job # j
           /\ \A p \in Runner, t \in Type : mem[p].seen[t].job # j
           /\ \A p \in Runner : mem[p].lots[j] = NoJob
<1>1. Vacant \in SUBSET Nat
  BY KeyAssumption DEF Vacant
<1>2. j \in Vacant
  BY <1>1, LowestIn
<1> QED
  BY <1>2 DEF Vacant

LEMMA FanOutKeepsVehicles ==
    ASSUME RowsTyped, VehicleInv, NEW o \in Officer, FanOut(o)
    PROVE  VehicleInv'
<1> DEFINE r == desk[o]
           x == [state |-> "queued", type |-> TypeOf(r), qty |-> UnitsOf(r), esi |-> FALSE]
<1>0. /\ req \in [Req -> ReqRow] /\ job \in [Job -> JobRow \cup {NoJob}] /\ None \notin Job
  BY KeyAssumption DEF RowsTyped
<1>1. PICK j : j = Lowest(Vacant)
  OBVIOUS
<1>2. /\ r \in Req /\ Vacant # {} /\ req[r].job = None /\ LiveOf(TypeOf(r)) \subseteq {r}
      /\ job' = [job EXCEPT ![j] = x]
      /\ req' = [req EXCEPT ![r].job = j, ![r].state = "in_progress"]
      /\ UNCHANGED <<running, mem>>
  BY <1>1 DEF FanOut, Unlinked, RowsTyped
<1>3. /\ j \in Job \ Active /\ \A y \in Req : req[y].job # j
      /\ \A p \in Runner, t \in Type : mem[p].seen[t].job # j
  BY <1>1, <1>2, VacantIs
<1>4. /\ req'[r].job = j /\ req'[r].diverged = req[r].diverged
      /\ \A y \in Req \ {r} : req'[y] = req[y]
  BY <1>0, <1>2 DEF ReqRow
<1>5. x # NoJob /\ x.type = TypeOf(r)
  BY DEF NoJob
<1> HIDE DEF x
<1>6. Active' = Active \cup {j} /\ \A k \in Job : job'[k].type = IF k = j THEN TypeOf(r) ELSE job[k].type
  BY <1>0, <1>2, <1>3, <1>5 DEF Active
<1>7. Live' = Live \cup {r}
  <2>1. req'[r] # NoReq
    BY <1>0, <1>3, <1>4 DEF NoReq
  <2> QED
    BY <1>0, <1>2, <1>4, <2>1 DEF Live
<1>8. OneLive'
  BY <1>2, <1>7 DEF VehicleInv, OneLive, LiveOf, TypeOf
<1>9. Carried'
  <2> SUFFICES ASSUME NEW k \in Active'
               PROVE  \E y \in Live' : req'[y].job = k /\ TypeOf(y) = job'[k].type
    BY DEF Carried, TypeOf
  <2>1. CASE k = j
    BY <1>3, <1>4, <1>6, <1>7, <2>1
  <2>2. CASE k # j
    <3>1. k \in Active
      BY <1>6, <2>2
    <3>2. PICK y \in Live : req[y].job = k /\ TypeOf(y) = job[k].type
      BY <3>1 DEF VehicleInv, Carried
    <3>3. k \in Job /\ y \in Req
      BY <3>1 DEF Active, Live
    <3>4. y # r
      BY <1>0, <1>2, <3>2, <3>3
    <3> QED
      BY <1>4, <1>6, <1>7, <2>2, <3>2, <3>3, <3>4
  <2> QED
    BY <2>1, <2>2
<1>10. Plain'
  BY <1>0, <1>2, <1>3, <1>4 DEF VehicleInv, Plain
<1>11. SeenAsIs'
  <2> SUFFICES ASSUME NEW p \in Runner, NEW t \in Type, mem'[p].seen[t] # NoRow
               PROVE  LET s == mem'[p].seen[t] IN
                      IF s.job = None THEN ~s.diverged
                      ELSE /\ req'[<<t, s.pk>>].job = s.job
                           /\ req'[<<t, s.pk>>].diverged = s.diverged
    BY DEF SeenAsIs
  <2> DEFINE s == mem[p].seen[t]  y == <<t, s.pk>>
  <2>1. s # NoRow /\ mem'[p].seen[t] = s
    BY <1>2
  <2>2. y \in Req
    BY <2>1, SeenTyped
  <2>3. CASE s.job = None
    BY <2>1, <2>3 DEF VehicleInv, SeenAsIs
  <2>4. CASE s.job # None
    <3>1. req[y].job = s.job /\ req[y].diverged = s.diverged
      BY <2>1, <2>4 DEF VehicleInv, SeenAsIs
    <3> HIDE DEF r, s, y
    <3>2. y # r
      BY <1>2, <2>4, <3>1
    <3>3. req'[y] = req[y]
      BY <1>4, <2>2, <3>2
    <3> QED
      BY <2>1, <2>4, <3>1, <3>3 DEF s, y
  <2> QED
    BY <2>3, <2>4
<1> QED
  BY <1>2, <1>8, <1>9, <1>10, <1>11 DEF VehicleInv, Alone

LEMMA InterferenceKeepsVehicles ==
    ASSUME RowsTyped, VehicleInv, ~MayOutlive, Interference
    PROVE  VehicleInv'
<1>0. job \in [Job -> JobRow \cup {NoJob}]
  BY DEF RowsTyped
<1>1. ASSUME NEW p \in Runner, FailRun(p) PROVE VehicleInv'
  BY <1>1, RunKeepsVehicles
<1>2. ASSUME NEW o \in Officer, FanOut(o) PROVE VehicleInv'
  BY <1>2, FanOutKeepsVehicles
<1>3. ASSUME NEW o \in Officer, FanOutVain(o) \/ \E r \in Req : ReadRequirement(o, r)
      PROVE  VehicleInv'
  BY <1>3, JobsKeepVehicles DEF FanOutVain, ReadRequirement, Active
<1>4. ASSUME NEW j \in Job, ClaimJob(j) \/ MarkBuilt(j) \/ LinkJob(j) PROVE VehicleInv'
  <2>1. j \in Active /\ UNCHANGED <<req, running, mem>>
    BY <1>4, JobTyped DEF ClaimJob, MarkBuilt, LinkJob, Underway
  <2>2. job[j] \in JobRow
    BY <2>1, JobTyped
  <2>3. \/ \E st \in {"building", "built"} : job' = [job EXCEPT ![j].state = st]
       \/ job' = [job EXCEPT ![j].esi = ~@]
    BY <1>4 DEF ClaimJob, MarkBuilt, LinkJob
  <2>4. \A k \in Job : job'[k].type = job[k].type /\ (k # j => job'[k] = job[k])
    BY <1>0, <2>2, <2>3 DEF JobRow
  <2>5. \A k \in Active' : k \in Active /\ job'[k].type = job[k].type
    BY <2>1, <2>4 DEF Active
  <2> QED
    BY <2>1, <2>5, JobsKeepVehicles
<1>5. ASSUME NEW j \in Job, CancelJob(j) \/ DeliverJob(j) PROVE VehicleInv'
  <2>1. job' = [job EXCEPT ![j] = NoJob] /\ UNCHANGED <<req, running, mem>>
    BY <1>5 DEF CancelJob, DeliverJob
  <2>2. \A k \in Active' : k \in Active /\ job'[k].type = job[k].type
    BY <1>0, <2>1 DEF Active
  <2> QED
    BY <2>1, <2>2, JobsKeepVehicles
<1>6. ASSUME NEW t \in Type, NEW n, DemandMoves(t, n) \/ StockMoves(t, n) PROVE VehicleInv'
  BY <1>6, JobsKeepVehicles DEF DemandMoves, StockMoves, Active
<1> QED
  BY <1>1, <1>2, <1>3, <1>4, <1>5, <1>6 DEF Interference

LEMMA NextKeepsVehicles == ~MayOutlive /\ RowsTyped /\ VehicleInv /\ [Next]_vars => VehicleInv'
<1> SUFFICES ASSUME ~MayOutlive, RowsTyped, VehicleInv, [Next]_vars PROVE VehicleInv'
  OBVIOUS
<1>1. CASE UNCHANGED vars
  BY <1>1, JobsKeepVehicles DEF vars, Active
<1> QED
  BY <1>1, RunKeepsVehicles, InterferenceKeepsVehicles DEF Next

LEMMA AlwaysVehicles == ASSUME ~MayOutlive PROVE Spec => []VehicleInv
<1>1. RowsTyped /\ VehicleInv /\ [Next]_vars => VehicleInv'
  BY NextKeepsVehicles
<1> QED
  BY <1>1, InitVehicles, AlwaysTyped, PTL DEF Spec

\* No type has two jobs under way.
LEMMA OneJob ==
    ASSUME VehicleInv, NEW j \in Active, NEW k \in Active, job[j].type = job[k].type
    PROVE  j = k
<1>1. PICK r \in Live : req[r].job = j /\ TypeOf(r) = job[j].type
  BY DEF VehicleInv, Carried
<1>2. PICK s \in Live : req[s].job = k /\ TypeOf(s) = job[k].type
  BY DEF VehicleInv, Carried
<1> QED
  BY <1>1, <1>2 DEF VehicleInv, OneLive

\* create_build_job_for_requirement and _reconcile_vehicles: whatever the order
\* of fan-outs, runs, failures and deliveries, one type never has two jobs under
\* way, as long as no live run is taken for dead.
THEOREM JobsApart == ASSUME ~MayOutlive PROVE Spec => []OneVehicle
<1>1. RowsTyped /\ VehicleInv => OneVehicle
  <2> SUFFICES ASSUME RowsTyped, VehicleInv, NEW t \in Type
               PROVE  Cardinality({j \in Active : job[j].type = t}) <= 1
    BY DEF OneVehicle
  <2> DEFINE J == {j \in Active : job[j].type = t}
  <2>1. ASSUME NEW j \in J, NEW k \in J PROVE j = k
    BY OneJob
  <2>2. CASE J = {}
    <3>1. Cardinality(J) = 0
      BY <2>2, FS_EmptySet
    <3> QED
      BY <3>1
  <2>3. CASE J # {}
    <3>1. PICK j \in J : TRUE
      BY <2>3
    <3>2. J = {j}
      BY <2>1, <3>1
    <3>3. Cardinality(J) = 1
      BY <3>2, FS_Singleton
    <3> QED
      BY <3>3
  <2> QED
    BY <2>2, <2>3
<1> QED
  BY <1>1, AlwaysTyped, AlwaysVehicles, PTL

-----------------------------------------------------------------------------
(* What the recipes ask for                                                *)

\* The part of NetRequirement that is still to be put in jobs, or bought.
Lack(t) == Positive(Missing(t, Need[t]) - Coming(t))
\* What of it is exploded into its materials.
Exploded(t) == IF t \in Built THEN Lack(t) ELSE 0

LEMMA InJobsNat ==
    ASSUME RowsTyped, NEW t \in Type, NEW S
    PROVE  /\ [j \in Job |-> IF j \in S /\ job[j].type = t THEN job[j].qty ELSE 0] \in [Job -> Nat]
           /\ InJobs(t, S) \in Nat
<1> DEFINE f == [j \in Job |-> IF j \in S /\ job[j].type = t THEN job[j].qty ELSE 0]
<1>1. f \in [Job -> Nat]
  <2>1. \A j \in Job : job[j].qty \in Nat
    BY JobTyped
  <2> QED
    BY <2>1
<1>2. InJobs(t, S) = Total(f)
  BY DEF InJobs
<1> HIDE DEF f
<1>3. InJobs(t, S) \in Nat
  BY <1>1, <1>2, KeyAssumption, TotalType
<1> QED
  BY <1>1, <1>3 DEF f

LEMMA ComingSplits ==
    ASSUME RowsTyped, NEW t \in Type
    PROVE  /\ Coming(t) \in Nat /\ InJobs(t, Drawn) \in Nat /\ InJobs(t, Undrawn) \in Nat
           /\ Coming(t) = InJobs(t, Drawn) + InJobs(t, Undrawn)
<1> DEFINE f(S) == [j \in Job |-> IF j \in S /\ job[j].type = t THEN job[j].qty ELSE 0]
<1>1. \A S : f(S) \in [Job -> Nat] /\ InJobs(t, S) = Total(f(S)) /\ InJobs(t, S) \in Nat
  BY InJobsNat DEF InJobs
<1>2. ASSUME NEW j \in Job PROVE f(Job)[j] = f(Drawn)[j] + f(Undrawn)[j]
  <2>1. job[j].qty \in Nat /\ (j \notin Active => job[j].type # t)
    BY JobTyped
  <2>2. j \in Undrawn <=> j \in Active /\ j \notin Drawn
    BY DEF Undrawn
  <2>3. j \in Drawn => j \in Active
    BY DEF Drawn
  <2> QED
    BY <2>1, <2>2, <2>3
<1>3. f(Job) \in [Job -> Nat] /\ f(Drawn) \in [Job -> Nat] /\ f(Undrawn) \in [Job -> Nat]
  BY <1>1
<1> HIDE DEF f
<1>4. Total(f(Job)) = Total(f(Drawn)) + Total(f(Undrawn))
  <2>1. IsFiniteSet(Job)
    BY KeyAssumption
  <2> QED
    BY <1>2, <1>3, <2>1, TotalPlus
<1> QED
  BY <1>1, <1>4 DEF Coming

\* What missing and coming units make of a need.
LEMMA DrawsOfNeed ==
    ASSUME RowsTyped, NEW t \in Type, NEW n \in Nat
    PROVE  /\ Missing(t, n) \in Nat /\ ToDraw(t, n, Drawn) \in Nat
           /\ Positive(Missing(t, n) - Coming(t)) \in Nat
           /\ ToDraw(t, n, Drawn) = InJobs(t, Undrawn)
                 + IF t \in Built THEN Positive(Missing(t, n) - Coming(t)) ELSE 0
           /\ n = 0 => Missing(t, n) = 0 /\ Positive(Missing(t, n) - Coming(t)) = 0
<1>1. stock[t] \in Nat
  BY DEF RowsTyped
<1>2. Missing(t, n) \in Nat /\ (n = 0 => Missing(t, n) = 0)
  BY <1>1 DEF Missing, Positive
<1> QED
  BY <1>2, ComingSplits DEF ToDraw, Positive

\* The right side of Need's equation.
Draws(f, t) == [u \in Type |-> IF Uses[u][t] > 0 THEN Uses[u][t] * ToDraw(u, f[u], Drawn) ELSE 0]
Asked(f, t) == demand[t] + Total(Draws(f, t))

LEMMA AskedNat ==
    ASSUME RowsTyped, NEW f \in [Type -> Nat], NEW t \in Type
    PROVE  Asked(f, t) \in Nat
<1>1. ASSUME NEW u \in Type PROVE Draws(f, t)[u] \in Nat
  <2>1. ToDraw(u, f[u], Drawn) \in Nat /\ Uses[u][t] \in Nat
    BY DrawsOfNeed, RecipeAssumption
  <2>2. Uses[u][t] * ToDraw(u, f[u], Drawn) \in Nat
    BY <2>1, TimesNat
  <2> QED
    BY <2>2 DEF Draws
<1>2. Draws(f, t) \in [Type -> Nat]
  BY <1>1 DEF Draws
<1>3. Total(Draws(f, t)) \in Nat
  BY <1>2, RecipeAssumption, TotalType
<1> QED
  BY <1>3 DEF Asked, RowsTyped

\* It looks at the levels above only.
LEMMA AskedAbove ==
    ASSUME NEW f, NEW g, NEW t \in Type,
           \A u \in Type : Level[u] < Level[t] => f[u] = g[u]
    PROVE  Asked(f, t) = Asked(g, t)
<1>1. ASSUME NEW u \in Type PROVE Draws(f, t)[u] = Draws(g, t)[u]
  BY RecipeAssumption DEF Draws
<1>2. Draws(f, t) = Draws(g, t)
  BY <1>1 DEF Draws
<1> QED
  BY <1>2 DEF Asked

\* There is a level below every type.
LEMMA LevelBound == \E N \in Nat : \A t \in Type : Level[t] \in Nat /\ Level[t] < N
<1>1. Total(Level) \in Nat /\ \A t \in Type : Level[t] \in Nat /\ Level[t] <= Total(Level)
  BY RecipeAssumption, TotalType, TotalTerm
<1>2. Total(Level) + 1 \in Nat /\ \A t \in Type : Level[t] < Total(Level) + 1
  BY <1>1
<1> QED
  BY <1>1, <1>2

\* The equation has a solution, found level by level,
LEMMA NeedExists ==
    ASSUME RowsTyped
    PROVE  \E f \in [Type -> Nat] : \A t \in Type : f[t] = Asked(f, t)
<1> DEFINE A == {n \in Nat : \E f \in [Type -> Nat] :
                    \A t \in Type : Level[t] < n => f[t] = Asked(f, t)}
<1>0. PICK N \in Nat : \A t \in Type : Level[t] \in Nat /\ Level[t] < N
  BY LevelBound
<1>1. 0 \in A
  <2>1. [t \in Type |-> 0] \in [Type -> Nat]
    OBVIOUS
  <2>2. \A t \in Type : ~(Level[t] < 0)
    BY <1>0
  <2> QED
    BY <2>1, <2>2
<1>2. ASSUME NEW n \in A PROVE n + 1 \in A
  <2>1. PICK f \in [Type -> Nat] : \A t \in Type : Level[t] < n => f[t] = Asked(f, t)
    BY <1>2
  <2> DEFINE g == [t \in Type |-> Asked(f, t)]
  <2>2. g \in [Type -> Nat]
    BY AskedNat
  <2>3. n \in Nat
    BY <1>2
  <2> HIDE DEF A
  <2>4. ASSUME NEW t \in Type, Level[t] < n + 1 PROVE g[t] = Asked(g, t)
    <3>1. \A u \in Type : Level[u] < Level[t] => f[u] = g[u]
      BY <1>0, <2>1, <2>3, <2>4
    <3>2. Asked(f, t) = Asked(g, t)
      <4> HIDE DEF g
      <4> QED
        BY <3>1, AskedAbove
    <3> QED
      BY <3>2
  <2> HIDE DEF g
  <2> QED
    BY <2>2, <2>3, <2>4 DEF A
<1>3. A \in SUBSET Nat
  OBVIOUS
<1> HIDE DEF A
<1>4. N \in A
  BY <1>1, <1>2, <1>3, SetInduction
<1> QED
  BY <1>0, <1>4 DEF A

\* and only one.
LEMMA NeedUnique ==
    ASSUME NEW f, NEW g, \A t \in Type : f[t] = Asked(f, t) /\ g[t] = Asked(g, t)
    PROVE  \A t \in Type : f[t] = g[t]
<1> DEFINE A == {n \in Nat : \A t \in Type : Level[t] < n => f[t] = g[t]}
<1>0. PICK N \in Nat : \A t \in Type : Level[t] \in Nat /\ Level[t] < N
  BY LevelBound
<1>1. 0 \in A
  BY <1>0
<1>2. ASSUME NEW n \in A PROVE n + 1 \in A
  <2>1. n \in Nat /\ \A t \in Type : Level[t] < n => f[t] = g[t]
    BY <1>2
  <2> HIDE DEF A
  <2>2. ASSUME NEW t \in Type, Level[t] < n + 1 PROVE f[t] = g[t]
    <3>1. \A u \in Type : Level[u] < Level[t] => f[u] = g[u]
      BY <1>0, <2>1, <2>2
    <3>2. Asked(f, t) = Asked(g, t)
      BY <3>1, AskedAbove
    <3> QED
      BY <3>2
  <2> QED
    BY <2>1, <2>2 DEF A
<1>3. A \in SUBSET Nat
  OBVIOUS
<1> HIDE DEF A
<1>4. N \in A
  BY <1>1, <1>2, <1>3, SetInduction
<1> QED
  BY <1>0, <1>4 DEF A

\* Need is that solution.
LEMMA NeedIs == RowsTyped => Need \in [Type -> Nat] /\ \A t \in Type : Need[t] = Asked(Need, t)
<1> SUFFICES ASSUME RowsTyped
             PROVE  Need \in [Type -> Nat] /\ \A t \in Type : Need[t] = Asked(Need, t)
  OBVIOUS
<1>1. PICK f \in [Type -> Nat] : \A t \in Type : f[t] = Asked(f, t)
  BY NeedExists
<1>2. f = [t \in Type |-> demand[t] + Total([u \in Type |->
              IF Uses[u][t] > 0 THEN Uses[u][t] * ToDraw(u, f[u], Drawn) ELSE 0])]
  BY <1>1 DEF Asked, Draws
<1>3. Need = [t \in Type |-> demand[t] + Total([u \in Type |->
              IF Uses[u][t] > 0 THEN Uses[u][t] * ToDraw(u, Need[u], Drawn) ELSE 0])]
  <2> HIDE <1>1
  <2> QED
    BY <1>2, Zenon DEF Need
<1>4. \A t \in Type : Need[t] = Asked(Need, t)
  BY <1>3 DEF Asked, Draws
<1>5. Need = [t \in Type |-> Need[t]]
  BY <1>3
<1> HIDE <1>2, <1>3
<1>6. \A t \in Type : Need[t] = f[t]
  BY <1>1, <1>4, NeedUnique
<1> QED
  BY <1>1, <1>4, <1>5, <1>6

LEMMA LackNat ==
    ASSUME RowsTyped, NEW t \in Type
    PROVE  /\ Need[t] \in Nat /\ Lack(t) \in Nat /\ Exploded(t) \in Nat
           /\ Need[t] = 0 => Lack(t) = 0 /\ Exploded(t) = 0
<1>1. Need[t] \in Nat
  BY NeedIs
<1> QED
  BY <1>1, DrawsOfNeed DEF Lack, Exploded

LEMMA Distribute ==
    ASSUME NEW a \in Nat, NEW b \in Nat, NEW c \in Nat
    PROVE  a * (b + c) = a * b + a * c
OBVIOUS

\* The materials of the jobs under way, summed by product and by job.
LEMMA CascadeByType ==
    ASSUME RowsTyped, NEW t \in Type
    PROVE  /\ [u \in Type |-> Uses[u][t] * InJobs(u, Undrawn)] \in [Type -> Nat]
           /\ Total([u \in Type |-> Uses[u][t] * InJobs(u, Undrawn)]) = Cascade(t)
<1> DEFINE own(u) == [j \in Job |-> IF j \in Undrawn /\ job[j].type = u THEN job[j].qty ELSE 0]
           row(u) == [j \in Job |-> Uses[u][t] * own(u)[j]]
           g == [u \in Type |-> row(u)]
           col(j) == [u \in Type |-> g[u][j]]
           by == [u \in Type |-> Uses[u][t] * InJobs(u, Undrawn)]
           c == [j \in Job |-> IF j \in Undrawn
                               THEN Uses[job[j].type][t] * job[j].qty ELSE 0]
<1>0. IsFiniteSet(Type) /\ IsFiniteSet(Job) /\ \A u \in Type : Uses[u][t] \in Nat
  BY RecipeAssumption, KeyAssumption
<1>1. ASSUME NEW u \in Type
      PROVE  /\ row(u) \in [Job -> Nat] /\ Total(row(u)) = Uses[u][t] * InJobs(u, Undrawn)
             /\ Uses[u][t] * InJobs(u, Undrawn) \in Nat
  <2>1. own(u) \in [Job -> Nat] /\ InJobs(u, Undrawn) = Total(own(u)) /\ InJobs(u, Undrawn) \in Nat
    BY InJobsNat DEF InJobs
  <2> HIDE DEF own
  <2>2. row(u) \in [Job -> Nat] /\ Total(row(u)) = Uses[u][t] * Total(own(u))
    BY <1>0, <2>1, TotalScaled
  <2> QED
    BY <1>0, <2>1, <2>2, TimesNat
<1>2. g \in [Type -> [Job -> Nat]]
  <2> HIDE DEF row
  <2> QED
    BY <1>1
<1>3. Total(by) = Total([j \in Job |-> Total(col(j))])
  <2>1. \A u \in Type : Total(g[u]) = Uses[u][t] * InJobs(u, Undrawn)
    <3> HIDE DEF row
    <3> QED
      BY <1>1
  <2>2. by = [u \in Type |-> Total(g[u])]
    <3> HIDE DEF g
    <3> QED
      BY <2>1
  <2> HIDE DEF g, by
  <2> QED
    BY <1>0, <1>2, <2>2, TotalSwap
<1>4. ASSUME NEW j \in Job PROVE Total(col(j)) = c[j]
  <2>0. job[j].qty \in Nat /\ (j \in Undrawn => job[j].type \in Type)
    BY JobTyped DEF Undrawn
  <2>1. col(j) \in [Type -> Nat]
    <3> HIDE DEF g
    <3> QED
      BY <1>2
  <2>2. \A u \in Type : col(j)[u] = Uses[u][t] * own(u)[j]
    OBVIOUS
  <2>3. CASE j \in Undrawn
    <3> DEFINE k == job[j].type
    <3>2. k \in Type /\ own(k)[j] = job[j].qty /\ \A u \in Type \ {k} : own(u)[j] = 0
      BY <2>0, <2>3
    <3>3. col(j)[k] = c[j] /\ \A u \in Type \ {k} : col(j)[u] = 0
      <4>1. c[j] = Uses[k][t] * job[j].qty
        BY <2>3
      <4> HIDE DEF own, col, c, k
      <4> QED
        BY <1>0, <2>2, <3>2, <4>1
    <3> HIDE DEF col, c, k
    <3>4. Total(col(j)) = col(j)[k]
      BY <1>0, <2>1, <3>2, <3>3, TotalSingle
    <3> QED
      BY <3>3, <3>4
  <2>4. CASE j \notin Undrawn
    <3>1. \A u \in Type : own(u)[j] = 0
      BY <2>4
    <3>2. c[j] = 0
      BY <2>4
    <3>3. \A u \in Type : col(j)[u] = 0
      <4> HIDE DEF own, col
      <4> QED
        BY <1>0, <2>2, <3>1
    <3> HIDE DEF col, c
    <3>4. Total(col(j)) = 0
      BY <2>1, <3>3, TotalZero
    <3> QED
      BY <3>2, <3>4
  <2> QED
    BY <2>3, <2>4
<1>5. [j \in Job |-> Total(col(j))] = c
  <2> HIDE DEF col
  <2> QED
    BY <1>4
<1>6. by \in [Type -> Nat]
  BY <1>1
<1> HIDE DEF col, by
<1>7. Total(by) = Cascade(t)
  BY <1>3, <1>5 DEF Cascade, Undrawn
<1> QED
  BY <1>6, <1>7 DEF by

\* A need is the demand, the materials of the jobs under way, and those of what
\* is still to be put in jobs.
LEMMA NeedSplits ==
    ASSUME RowsTyped, NEW t \in Type
    PROVE  /\ [u \in Type |-> Uses[u][t] * Exploded(u)] \in [Type -> Nat]
           /\ Need[t] = demand[t] + Cascade(t) + Total([u \in Type |-> Uses[u][t] * Exploded(u)])
<1> DEFINE f == [u \in Type |-> Uses[u][t] * Exploded(u)]
           g == [u \in Type |-> Uses[u][t] * InJobs(u, Undrawn)]
           h == Draws(Need, t)
<1>1. ASSUME NEW u \in Type PROVE h[u] = f[u] + g[u] /\ h[u] \in Nat /\ f[u] \in Nat /\ g[u] \in Nat
  <2>1. /\ Uses[u][t] \in Nat /\ Exploded(u) \in Nat /\ InJobs(u, Undrawn) \in Nat
        /\ Need[u] \in Nat
    BY RecipeAssumption, LackNat, ComingSplits
  <2>2. Uses[u][t] * Exploded(u) \in Nat /\ Uses[u][t] * InJobs(u, Undrawn) \in Nat
    BY <2>1, TimesNat
  <2>3. CASE Uses[u][t] > 0
    <3>1. ToDraw(u, Need[u], Drawn) = Exploded(u) + InJobs(u, Undrawn)
      BY <2>1, DrawsOfNeed DEF Lack, Exploded
    <3>2. Uses[u][t] * ToDraw(u, Need[u], Drawn) = Uses[u][t] * Exploded(u) + Uses[u][t] * InJobs(u, Undrawn)
      BY <2>1, <3>1, Distribute
    <3> QED
      BY <2>2, <2>3, <3>2 DEF Draws
  <2>4. CASE Uses[u][t] = 0
    <3>1. h[u] = 0 /\ f[u] = 0 /\ g[u] = 0
      BY <2>1, <2>4 DEF Draws
    <3> QED
      BY <3>1
  <2> QED
    BY <2>1, <2>3, <2>4
<1>2. f \in [Type -> Nat] /\ g \in [Type -> Nat]
  BY <1>1
<1>3. h \in [Type -> Nat]
  BY <1>1 DEF Draws
<1>4. Total(g) = Cascade(t)
  BY CascadeByType
<1>5. Need[t] = demand[t] + Total(h)
  BY NeedIs DEF Asked
<1>6. IsFiniteSet(Type) /\ demand[t] \in Nat
  BY RecipeAssumption DEF RowsTyped
<1> HIDE DEF f, g, h
<1>7. Total(h) = Total(f) + Total(g) /\ Total(f) \in Nat /\ Total(g) \in Nat
  BY <1>1, <1>2, <1>3, <1>6, TotalPlus, TotalType
<1>8. Need[t] = demand[t] + Cascade(t) + Total(f)
  BY <1>4, <1>5, <1>6, <1>7
<1> QED
  BY <1>2, <1>8 DEF f

\* The cells while the waves go on: the materials of the rows written are in.
CellsRight(p) == \A t \in Type : mem[p].cells[t] = demand[t] + Cascade(t)
    + Total([u \in Type |-> IF u \in Visited(p) THEN Uses[u][t] * Exploded(u) ELSE 0])

\* Waves go by level: down to the first level with a cell to write, the cells
\* are what the recipes ask for.
LEMMA CellsDone ==
    ASSUME RowsTyped, NEW p \in Runner, CellsRight(p), NEW L \in Nat,
           \A v \in Pending(p) : L <= Level[v]
    PROVE  \A t \in Type : Level[t] <= L => mem[p].cells[t] = Need[t]
<1> DEFINE A == {n \in Nat : \A t \in Type : (Level[t] < n /\ Level[t] <= L) => mem[p].cells[t] = Need[t]}
<1>0. \A t \in Type : Level[t] \in Nat /\ mem[p].cells[t] \in Nat
  BY RecipeAssumption DEF RowsTyped, MemRow
<1>1. 0 \in A
  BY <1>0
<1>2. ASSUME NEW n \in A PROVE n + 1 \in A
  <2>1. n \in Nat /\ \A t \in Type : (Level[t] < n /\ Level[t] <= L) => mem[p].cells[t] = Need[t]
    BY <1>2
  <2> HIDE DEF A
  <2>2. ASSUME NEW t \in Type, Level[t] < n + 1, Level[t] <= L PROVE mem[p].cells[t] = Need[t]
    <3> DEFINE f == [u \in Type |-> Uses[u][t] * Exploded(u)]
               g == [u \in Type |-> IF u \in Visited(p) THEN Uses[u][t] * Exploded(u) ELSE 0]
    <3>1. ASSUME NEW u \in Type PROVE f[u] = g[u]
      <4>0. Uses[u][t] \in Nat /\ Exploded(u) \in Nat
        BY RecipeAssumption, LackNat
      <4>1. CASE u \in Visited(p)
        BY <4>1
      <4>2. CASE Uses[u][t] = 0
        BY <4>0, <4>2
      <4>3. CASE u \notin Visited(p) /\ Uses[u][t] > 0
        <5>1. Level[u] < Level[t]
          BY <4>3, RecipeAssumption
        <5>2. Level[u] < n /\ Level[u] <= L /\ ~(L <= Level[u])
          BY <1>0, <2>1, <2>2, <5>1
        <5>3. u \notin Pending(p)
          BY <5>2
        <5>4. mem[p].cells[u] = 0
          BY <1>0, <4>3, <5>3 DEF Pending
        <5>5. Exploded(u) = 0
          BY <2>1, <5>2, <5>4, LackNat
        <5> QED
          BY <4>0, <4>3, <5>5
      <4> QED
        BY <4>0, <4>1, <4>2, <4>3
    <3>2. f = g
      BY <3>1
    <3>3. mem[p].cells[t] = demand[t] + Cascade(t) + Total(g)
      BY DEF CellsRight
    <3>4. Need[t] = demand[t] + Cascade(t) + Total(f)
      BY NeedSplits
    <3> QED
      BY <3>2, <3>3, <3>4
  <2> QED
    BY <2>1, <2>2 DEF A
<1>3. A \in SUBSET Nat
  OBVIOUS
<1> HIDE DEF A
<1>4. L + 1 \in A
  BY <1>1, <1>2, <1>3, SetInduction
<1> QED
  BY <1>0, <1>4 DEF A

-----------------------------------------------------------------------------
(* What a wave writes                                                      *)

LEMMA NeedIsNext == RowsTyped' => (Need \in [Type -> Nat] /\ \A t \in Type : Need[t] = Asked(Need, t))'
BY NeedIs, PTL

\* Needs follow from the demand, the stock and the jobs.
LEMMA NeedFollows ==
    ASSUME RowsTyped, RowsTyped', UNCHANGED <<demand, stock, job>>
    PROVE  /\ \A t \in Type : Need'[t] = Need[t] /\ Lack(t)' = Lack(t) /\ Cascade(t)' = Cascade(t)
                             /\ Exploded(t)' = Exploded(t)
           /\ Active' = Active
<1>1. \A t \in Type : Need'[t] = Asked(Need, t)'
  BY NeedIsNext
<1>2. \A t \in Type : Asked(Need, t)' = demand'[t] + Total([u \in Type |->
          IF Uses[u][t] > 0 THEN Uses[u][t] * ToDraw(u, Need[u], Drawn)' ELSE 0])
  BY DEF Asked, Draws
<1>3. ASSUME NEW t \in Type PROVE Coming(t)' = Coming(t) /\ InJobs(t, Drawn)' = InJobs(t, Drawn)
  BY DEF Coming, InJobs, Drawn, Active
<1>4. ASSUME NEW u \in Type PROVE ToDraw(u, Need[u], Drawn)' = ToDraw(u, Need'[u], Drawn)
  BY <1>3 DEF ToDraw, Missing
<1>5. ASSUME NEW t \in Type PROVE Need'[t] = Asked(Need', t)
  <2>1. [u \in Type |-> IF Uses[u][t] > 0 THEN Uses[u][t] * ToDraw(u, Need[u], Drawn)' ELSE 0]
        = Draws(Need', t)
    BY <1>4 DEF Draws
  <2> QED
    BY <1>1, <1>2, <2>1 DEF Asked
<1>6. \A t \in Type : Need[t] = Asked(Need, t)
  BY NeedIs
<1>7. \A t \in Type : Need'[t] = Need[t]
  BY <1>5, <1>6, NeedUnique
<1>8. ASSUME NEW t \in Type PROVE Lack(t)' = Lack(t)
  BY <1>3, <1>7 DEF Lack, Missing
<1>9. ASSUME NEW t \in Type PROVE Cascade(t)' = Cascade(t)
  BY DEF Cascade, Drawn, Active
<1> QED
  BY <1>7, <1>8, <1>9 DEF Exploded, Active

\* A wave writes what the recipes ask for, less stock and jobs,
LEMMA WaveExact ==
    ASSUME RowsTyped, NEW p \in Runner, NEW t \in Type, WriteRow(p, t),
           CellsRight(p), mem[p].lots = job
    PROVE  /\ mem[p].cells[t] = Need[t] /\ CellNet(mem[p], t) = Lack(t)
           /\ CellShort(mem[p], t) = Missing(t, Need[t])
           /\ Lots(mem[p], t) = Coming(t)
<1>0. mem[p].cells[t] \in Nat /\ stock[t] \in Nat /\ Level[t] \in Nat
  BY RecipeAssumption DEF RowsTyped, MemRow
<1>1. mem[p].cells[t] = Need[t]
  <2>1. \A u \in Pending(p) : Level[t] <= Level[u]
    BY WriteRowIs
  <2> QED
    BY <1>0, <2>1, CellsDone
<1>2. CellShort(mem[p], t) = Missing(t, Need[t])
  BY <1>0, <1>1 DEF CellShort, Missing, Positive, AtMost
<1>3. Lots(mem[p], t) = Coming(t)
  <2> DEFINE f == [j \in Job |-> IF mem[p].lots[j].type = t THEN mem[p].lots[j].qty ELSE 0]
             g == [j \in Job |-> IF j \in Job /\ job[j].type = t THEN job[j].qty ELSE 0]
  <2>1. \A j \in Job : f[j] = g[j]
    OBVIOUS
  <2>2. f = g
    BY <2>1
  <2> QED
    BY <2>2 DEF Lots, Coming, InJobs
<1>4. CellNet(mem[p], t) = Lack(t)
  <2>1. Coming(t) \in Nat /\ Missing(t, Need[t]) \in Nat
    BY <1>0, <1>1, ComingSplits, DrawsOfNeed
  <2> QED
    BY <1>2, <1>3, <2>1 DEF CellNet, Lack, Positive, AtMost
<1> QED
  BY <1>1, <1>2, <1>3, <1>4

\* and its target for a vehicle is what the type is short of.
LEMMA TargetShort ==
    ASSUME RowsTyped, VehicleInv, NEW p \in Runner, NEW t \in Type \ Ships, WriteRow(p, t),
           mem[p].lots = job, JobOf(t) \in Active, job[JobOf(t)].type = t, ~job[JobOf(t)].esi
    PROVE  CellTarget(mem[p], t) = Positive(mem[p].cells[t] - stock[t])
<1> DEFINE j == JobOf(t)
           f == [k \in Job |-> IF mem[p].lots[k].type = t THEN mem[p].lots[k].qty ELSE 0]
           g == [k \in Job |-> IF k < j /\ mem[p].lots[k].type = mem[p].lots[j].type
                               THEN mem[p].lots[k].qty ELSE 0]
<1>0. mem[p].cells[t] \in Nat /\ stock[t] \in Nat
  BY DEF RowsTyped, MemRow
<1>1. j \in Job /\ j \in Nat /\ job[j].qty \in Nat /\ j # None
  BY JobTyped, KeyAssumption DEF Active
<1>2. ASSUME NEW k \in Job \ {j} PROVE job[k].type # t
  BY JobTyped, OneJob, <1>1
<1>3. f \in [Job -> Nat] /\ g \in [Job -> Nat]
  BY LotTyped
<1>4. f[j] = job[j].qty /\ \A k \in Job \ {j} : f[k] = 0
  BY <1>1, <1>2
<1>5. \A k \in Job : g[k] = 0
  BY <1>1, <1>2, KeyAssumption
<1> HIDE DEF f, g
<1>6. Total(f) = job[j].qty
  <2> HIDE DEF j
  <2>1. IsFiniteSet(Job)
    BY KeyAssumption
  <2>2. Total(f) = f[j]
    BY <1>1, <1>3, <1>4, <2>1, TotalSingle
  <2> QED
    BY <1>4, <2>2
<1>7. Total(g) = 0
  BY <1>3, <1>5, TotalZero
<1>8. Lots(mem[p], t) = job[j].qty
  BY <1>6 DEF Lots, f
<1> DEFINE short == CellShort(mem[p], t)
<1>9. short \in Nat /\ short = Positive(mem[p].cells[t] - stock[t])
  BY <1>0 DEF CellShort, Positive, AtMost
<1>10. OwnOutput(mem[p], j, short) = AtMost(job[j].qty, Positive(short - 0))
  <2>1. OwnOutput(mem[p], j, short) = AtMost(mem[p].lots[j].qty, Positive(short - Total(g)))
    BY <1>1 DEF OwnOutput, g
  <2> QED
    BY <1>7, <2>1
<1>11. CellTarget(mem[p], t) = CellNet(mem[p], t) + OwnOutput(mem[p], j, short)
  BY DEF CellTarget
<1>12. CellNet(mem[p], t) = short - AtMost(short, job[j].qty)
  BY <1>8 DEF CellNet
<1> HIDE DEF j, short
<1> QED
  BY <1>1, <1>9, <1>10, <1>11, <1>12 DEF AtMost, Positive

-----------------------------------------------------------------------------
(* Jobs and their requirements                                             *)

\* A requirement's job is of its type; hulls are not fanned out.
Matched == \A r \in Req : req[r].job \in Active => job[req[r].job].type = TypeOf(r)
ForNeeds == /\ \A j \in Active : job[j].type \in Made
            /\ \A o \in Officer : desk[o] # None => TypeOf(desk[o]) \in Made
MatchInv == Matched /\ ForNeeds

LEMMA InitMatched == Init => MatchInv
BY KeyAssumption DEF Init, MatchInv, Matched, ForNeeds, Active, NoReq

\* Steps that give no row another job and no job another type.
LEMMA MatchKept ==
    ASSUME RowsTyped, MatchInv, \A r \in Req : req'[r].job \in {req[r].job, None},
           Active' \subseteq Active, \A j \in Active' : job'[j].type = job[j].type,
           \A o \in Officer : desk'[o] # None =>
               desk'[o] = desk[o] \/ TypeOf(desk'[o]) \in Made
    PROVE  MatchInv'
<1>1. None \notin Active'
  BY KeyAssumption DEF Active
<1>2. Matched'
  BY <1>1 DEF MatchInv, Matched, TypeOf
<1>3. ForNeeds'
  BY DEF MatchInv, ForNeeds, TypeOf
<1> QED
  BY <1>2, <1>3 DEF MatchInv

LEMMA NextMatched == RowsTyped /\ VehicleInv /\ MatchInv /\ [Next]_vars => MatchInv'
<1> SUFFICES ASSUME RowsTyped, VehicleInv, MatchInv, [Next]_vars PROVE MatchInv'
  OBVIOUS
<1>0. req \in [Req -> ReqRow] /\ job \in [Job -> JobRow \cup {NoJob}] /\ desk \in [Officer -> Req \cup {None}]
  BY DEF RowsTyped
<1>1. ASSUME UNCHANGED <<req, job, desk>> PROVE MatchInv'
  BY <1>1, MatchKept DEF Active
<1>2. ASSUME NEW p \in Runner, NEW t \in Type, WriteRow(p, t) PROVE MatchInv'
  <2>0. WaveDone(p, t)
    BY <1>2, WaveEffect
  <2>1. \A r \in Req : req'[r].job = req[r].job
    BY <2>0 DEF WaveDone
  <2>2. UNCHANGED <<job, desk>>
    BY <2>0 DEF WaveDone
  <2> QED
    BY <2>1, <2>2, MatchKept DEF Active
<1>3. ASSUME NEW p \in Runner, NEW t \in Type, ReconcileRow(p, t) PROVE MatchInv'
  <2> DEFINE s == SeenAt(p, t)  r == RowAt(p, t)
  <2>0. ReconcileDone(p, t)
    BY <1>3, ReconcileEffect
  <2>1. /\ r \in Req /\ \A x \in Req \ {r} : req'[x] = req[x]
        /\ s.job = None => UNCHANGED req
        /\ s.job # None => /\ req[r].job = s.job
                           /\ req'[r] = [req[r] EXCEPT !.diverged = Flags(s),
                                           !.job = IF Lets(s) THEN None ELSE s.job]
    BY <2>0 DEF ReconcileDone
  <2>2. /\ Active' = Active /\ \A j \in Job : job'[j].type = job[j].type
        /\ UNCHANGED desk
    BY <2>0 DEF ReconcileDone
  <2> HIDE DEF s, r
  <2>3. req[r] \in ReqRow
    BY <1>0, <2>1
  <2>4. s.job # None => req'[r].job = IF Lets(s) THEN None ELSE s.job
    BY <2>1, <2>3 DEF ReqRow
  <2>5. \A x \in Req : req'[x].job \in {req[x].job, None}
    BY <2>1, <2>4
  <2>6. \A j \in Active' : job'[j].type = job[j].type
    BY <2>2 DEF Active
  <2> QED
    BY <2>2, <2>5, <2>6, MatchKept
<1>4. ASSUME NEW p \in Runner, NEW r \in Req, SweepRow(p, r) PROVE MatchInv'
  <2>0. SweepDone(p, r)
    BY <1>4, SweepEffect
  <2>1. /\ \A x \in Req : req'[x].job = req[x].job
        /\ UNCHANGED <<job, desk>>
    BY <2>0 DEF SweepDone
  <2> QED
    BY <2>1, MatchKept DEF Active
<1>5. ASSUME NEW p \in Runner, ClaimRun(p) \/ Intake(p) \/ EndRun(p) \/ FailRun(p) PROVE MatchInv'
  BY <1>1, <1>5 DEF ClaimRun, Intake, EndRun, FailRun
<1>6. ASSUME NEW o \in Officer, FanOut(o) PROVE MatchInv'
  <2> DEFINE r == desk[o]
             x == [state |-> "queued", type |-> TypeOf(r), qty |-> UnitsOf(r), esi |-> FALSE]
  <2>1. PICK j : j = Lowest(Vacant)
    OBVIOUS
  <2>2. /\ r \in Req /\ r # None /\ Vacant # {}
        /\ job' = [job EXCEPT ![j] = x]
        /\ req' = [req EXCEPT ![r].job = j, ![r].state = "in_progress"]
        /\ desk' = [desk EXCEPT ![o] = None]
    BY <1>6, <2>1 DEF FanOut, RowsTyped
  <2>3. j \in Job \ Active /\ \A y \in Req : req[y].job # j
    BY <2>1, <2>2, VacantIs
  <2>4. TypeOf(r) \in Made
    BY <2>2 DEF MatchInv, ForNeeds
  <2>5. x # NoJob /\ x.type = TypeOf(r)
    BY DEF NoJob
  <2> HIDE DEF x, r
  <2>6. Active' \subseteq Active \cup {j} /\ \A k \in Job : job'[k].type = IF k = j THEN TypeOf(r) ELSE job[k].type
    BY <1>0, <2>2, <2>3, <2>5 DEF Active
  <2>7. req'[r].job = j /\ \A y \in Req \ {r} : req'[y] = req[y]
    BY <1>0, <2>2 DEF ReqRow
  <2>8. Matched'
    <3> SUFFICES ASSUME NEW y \in Req, req'[y].job \in Active'
                 PROVE  job'[req'[y].job].type = TypeOf(y)
      BY DEF Matched, TypeOf
    <3>1. CASE y = r
      BY <2>3, <2>6, <2>7, <3>1
    <3>2. CASE y # r
      <4>1. req'[y].job = req[y].job /\ req[y].job # j
        BY <2>3, <2>7, <3>2
      <4>2. req[y].job \in Active
        BY <2>6, <4>1
      <4>3. req[y].job \in Job
        BY <4>2 DEF Active
      <4> QED
        BY <2>6, <4>1, <4>2, <4>3 DEF MatchInv, Matched
    <3> QED
      BY <3>1, <3>2
  <2>9. ForNeeds'
    <3>1. \A k \in Active' : job'[k].type \in Made
      BY <2>4, <2>6 DEF MatchInv, ForNeeds, Active
    <3>2. \A q \in Officer : desk'[q] # None => TypeOf(desk'[q]) \in Made
      BY <1>0, <2>2 DEF MatchInv, ForNeeds
    <3> QED
      BY <3>1, <3>2 DEF ForNeeds, TypeOf
  <2> QED
    BY <2>8, <2>9 DEF MatchInv
<1>7. ASSUME NEW o \in Officer, FanOutVain(o) \/ \E r \in Req : ReadRequirement(o, r) PROVE MatchInv'
  <2>1. UNCHANGED <<req, job>>
    BY <1>7 DEF FanOutVain, ReadRequirement
  <2>2. \A q \in Officer : desk'[q] # None => desk'[q] = desk[q] \/ TypeOf(desk'[q]) \in Made
    BY <1>0, <1>7 DEF FanOutVain, ReadRequirement
  <2> QED
    BY <2>1, <2>2, MatchKept DEF Active
<1>8. ASSUME NEW j \in Job, ClaimJob(j) \/ MarkBuilt(j) \/ LinkJob(j) PROVE MatchInv'
  <2>1. j \in Active /\ UNCHANGED <<req, desk>> /\ job[j] \in JobRow
    BY <1>8, JobTyped DEF ClaimJob, MarkBuilt, LinkJob, Underway
  <2>2. \/ \E st \in {"building", "built"} : job' = [job EXCEPT ![j].state = st]
       \/ job' = [job EXCEPT ![j].esi = ~@]
    BY <1>8 DEF ClaimJob, MarkBuilt, LinkJob
  <2>3. \A k \in Job : job'[k].type = job[k].type /\ (k # j => job'[k] = job[k])
    BY <1>0, <2>1, <2>2 DEF JobRow
  <2> QED
    BY <2>1, <2>3, MatchKept DEF Active
<1>9. ASSUME NEW j \in Job, CancelJob(j) \/ DeliverJob(j) PROVE MatchInv'
  <2>1. job' = [job EXCEPT ![j] = NoJob] /\ UNCHANGED <<req, desk>>
    BY <1>9 DEF CancelJob, DeliverJob
  <2> QED
    BY <1>0, <2>1, MatchKept DEF Active
<1>10. ASSUME NEW t \in Type, NEW n, DemandMoves(t, n) \/ StockMoves(t, n) PROVE MatchInv'
  BY <1>1, <1>10 DEF DemandMoves, StockMoves
<1>11. CASE UNCHANGED vars
  BY <1>1, <1>11 DEF vars
<1> QED
  BY <1>2, <1>3, <1>4, <1>5, <1>6, <1>7, <1>8, <1>9, <1>10, <1>11 DEF Next, RunStep, Interference

-----------------------------------------------------------------------------
(* What an undisturbed run leaves                                          *)

RowExact(t) ==
    /\ LiveOf(t) = {} => Lack(t) = 0
    /\ \A r \in LiveOf(t) : req[r].gross = Need[t] /\ req[r].net = Lack(t)

\* What a run knows of the rows it wrote, and leaves of those it reconciled.
SeenFits(p, t) == LET s == mem[p].seen[t]  r == <<t, s.pk>> IN
    /\ req[r].job = s.job /\ LiveOf(t) \subseteq {r}
    /\ (s.job \in Active /\ ~job[s.job].esi) => s.target = Short(r)
RunFits(p) ==
    /\ mem[p] # Idle /\ (mem[p].at = "claimed" => mem[p] = Claimed)
    /\ mem[p].at \in {"claimed", "planning"}
    /\ since[p] = "exact" \/ mem[p].done # {}
    /\ mem[p].done # {} => \A t \in Type : mem[p].cells[t] = 0
    /\ \A t \in Type : mem[p].seen[t] # NoRow => SeenFits(p, t)
    /\ \A r \in Vehicles(FALSE) : TypeOf(r) \in mem[p].done => Fits(r)
\* A run that nothing has disturbed: its waves write exact rows.
RunExact(p) ==
    /\ \A t \in Visited(p) : RowExact(t)
    /\ IF mem[p].done = {}
       THEN mem[p].at = "planning" => mem[p].lots = job /\ CellsRight(p)
       ELSE \A t \in Type \ Visited(p) : Need[t] = 0

PlanInv ==
    /\ \A p \in Runner : since[p] # "stale" => RunFits(p)
    /\ \A p \in Runner : since[p] = "exact" => RunExact(p)
    /\ plan = "exact" => \A p \in Runner : mem[p] # Idle => since[p] = "exact"
    /\ plan = "adjusted" => \A p \in Runner : mem[p] = Idle
    /\ plan = "exact" => \A t \in Type : RowExact(t)
    /\ VehiclesFit

LEMMA VehicleIs ==
    ASSUME RowsTyped, NEW r
    PROVE  r \in Vehicles(FALSE) <=> r \in Live /\ req[r].job \in Active /\ ~job[req[r].job].esi
<1>1. ASSUME req[r].job \in Active PROVE job[req[r].job].esi = FALSE <=> ~job[req[r].job].esi
  <2>1. job[req[r].job].esi \in BOOLEAN
    BY <1>1, JobTyped DEF Active
  <2> QED
    BY <2>1, Zenon
<1>2. r \in Vehicles(FALSE) <=> r \in Live /\ req[r].job \in Active /\ job[req[r].job].esi = FALSE
  BY DEF Vehicles
<1> QED
  BY <1>1, <1>2, Zenon

LEMMA VehicleIsNext ==
    RowsTyped' => \A r \in Req : r \in Vehicles(FALSE)' <=>
                     r \in Live' /\ req'[r].job \in Active' /\ ~job'[req'[r].job].esi
<1>1. RowsTyped => \A r \in Req : r \in Vehicles(FALSE) <=>
                     r \in Live /\ req[r].job \in Active /\ ~job[req[r].job].esi
  BY VehicleIs
<1>2. (RowsTyped => \A r \in Req : r \in Vehicles(FALSE) <=>
                     r \in Live /\ req[r].job \in Active /\ ~job[req[r].job].esi)'
  BY <1>1, PTL
<1> QED
  BY <1>2

\* A row stays exact that keeps what it says, while the needs stay.
LEMMA StillExact ==
    ASSUME RowsTyped, RowsTyped', UNCHANGED <<demand, stock, job>>, NEW t \in Type, RowExact(t),
           \A r \in Req : TypeOf(r) = t => /\ r \in Live' <=> r \in Live
                                           /\ req'[r].gross = req[r].gross /\ req'[r].net = req[r].net
    PROVE  RowExact(t)'
<1>1. Need'[t] = Need[t] /\ Lack(t)' = Lack(t)
  BY NeedFollows
<1>2. LiveOf(t)' = LiveOf(t) /\ LiveOf(t) \subseteq Req
  BY DEF LiveOf, TypeOf, Live
<1>3. \A r \in LiveOf(t) : TypeOf(r) = t
  BY DEF LiveOf
<1> QED
  BY <1>1, <1>2, <1>3 DEF RowExact

LEMMA StillRight ==
    ASSUME RowsTyped, RowsTyped', UNCHANGED <<demand, stock, job>>, NEW p \in Runner, CellsRight(p),
           UNCHANGED mem
    PROVE  CellsRight(p)'
<1>1. \A t \in Type : Exploded(t)' = Exploded(t) /\ Cascade(t)' = Cascade(t)
  BY NeedFollows
<1>2. Visited(p)' = Visited(p)
  BY DEF Visited
<1>3. ASSUME NEW t \in Type
      PROVE  [u \in Type |-> IF u \in Visited(p)' THEN Uses[u][t] * Exploded(u)' ELSE 0]
             = [u \in Type |-> IF u \in Visited(p) THEN Uses[u][t] * Exploded(u) ELSE 0]
  BY <1>1, <1>2
<1> QED
  BY <1>1, <1>3 DEF CellsRight

\* A vehicle goes on fitting while neither its row nor its job changes.
LEMMA StillFits ==
    ASSUME UNCHANGED stock, NEW r \in Req, req'[r] = req[r], job'[req[r].job] = job[req[r].job], Fits(r)
    PROVE  Fits(r)'
BY DEF Fits, Short, TypeOf

\* When a run has nothing left to write, nothing is asked of what it did not
\* come to.
LEMMA NothingLeft ==
    ASSUME RowsTyped, NEW p \in Runner, RunExact(p), mem[p].at = "planning", Pending(p) = {}
    PROVE  \A t \in Type \ Visited(p) : Need[t] = 0
<1>1. CASE mem[p].done # {}
  BY <1>1 DEF RunExact
<1>2. CASE mem[p].done = {}
  <2>1. CellsRight(p)
    BY <1>2 DEF RunExact
  <2>2. PICK N \in Nat : \A t \in Type : Level[t] \in Nat /\ Level[t] < N
    BY LevelBound
  <2>3. \A t \in Type : Level[t] <= N
    BY <2>2
  <2>4. \A t \in Type : mem[p].cells[t] = Need[t]
    BY <2>1, <2>3, CellsDone
  <2>5. \A t \in Type \ Visited(p) : mem[p].cells[t] \in Nat /\ ~(mem[p].cells[t] > 0)
    BY DEF Pending, RowsTyped, MemRow
  <2> QED
    BY <2>4, <2>5
<1> QED
  BY <1>1, <1>2

LEMMA InitPlanned == Init => PlanInv
BY DEF Init, PlanInv, VehiclesFit

\* Who disturbs makes no promise.
LEMMA DisturbKeeps == Disturb => PlanInv'
BY DEF Disturb, PlanInv, VehiclesFit

\* Steps that leave demand, stock, jobs and rows as they are.
LEMMA SameFits ==
    ASSUME UNCHANGED <<world, job, req>>
    PROVE  /\ VehiclesFit /\ plan # "none" => \A r \in Vehicles(FALSE)' : Fits(r)'
           /\ Vehicles(FALSE)' = Vehicles(FALSE) /\ \A r : Fits(r) => Fits(r)'
<1>1. Vehicles(FALSE)' = Vehicles(FALSE) /\ \A r : Fits(r) => Fits(r)'
  BY DEF Vehicles, Live, Active, Fits, Short, TypeOf, world
<1> QED
  BY <1>1 DEF VehiclesFit

LEMMA SameExact ==
    ASSUME RowsTyped, RowsTyped', UNCHANGED <<world, job, req>>
    PROVE  \A t \in Type : RowExact(t) => RowExact(t)'
<1>1. UNCHANGED <<demand, stock, job>> /\ Live' = Live
  BY DEF world, Live
<1> QED
  BY <1>1, StillExact

LEMMA QuietKeeps ==
    ASSUME RowsTyped, RowsTyped', PlanInv, UNCHANGED <<world, job, req, mem, plan, since>>
    PROVE  PlanInv'
<1>0. UNCHANGED <<demand, stock, job>> /\ Live' = Live /\ Active' = Active /\ \A p : Visited(p)' = Visited(p)
  BY DEF world, Live, Active, Visited
<1>1. ASSUME NEW p \in Runner, RunFits(p) PROVE RunFits(p)'
  <2>1. ASSUME NEW t \in Type, SeenFits(p, t) PROVE SeenFits(p, t)'
    BY <1>0, <2>1 DEF SeenFits, LiveOf, Short, TypeOf
  <2> QED
    BY <1>1, <2>1, SameFits DEF RunFits, TypeOf, Idle, Claimed
<1>2. ASSUME NEW p \in Runner, RunExact(p) PROVE RunExact(p)'
  <2>1. \A t \in Visited(p)' : RowExact(t)'
    BY <1>0, <1>2, SameExact DEF RunExact, Visited, RowsTyped, MemRow
  <2>2. CASE mem[p].done = {}
    BY <1>0, <1>2, <2>1, <2>2, StillRight DEF RunExact
  <2>3. CASE mem[p].done # {}
    <3>1. \A t \in Type : Need'[t] = Need[t]
      BY <1>0, NeedFollows
    <3> QED
      BY <1>0, <1>2, <2>1, <2>3, <3>1 DEF RunExact
  <2> QED
    BY <2>2, <2>3
<1>3. plan = "exact" => \A t \in Type : RowExact(t)'
  BY SameExact DEF PlanInv
<1>4. plan # "none" => \A r \in Vehicles(FALSE)' : Fits(r)'
  BY SameFits DEF PlanInv
<1> QED
  BY <1>1, <1>2, <1>3, <1>4 DEF PlanInv, VehiclesFit, Idle

\* While a run works, no promise is made about another.
LEMMA OthersStale ==
    ASSUME VehicleInv, PlanInv, NEW p \in Runner, mem[p] # Idle, NEW q \in Runner \ {p}
    PROVE  mem[q] = Idle /\ since[q] = "stale"
<1>1. mem[q] = Idle
  BY OthersIdle DEF VehicleInv
<1> QED
  BY <1>1 DEF PlanInv, RunFits

LEMMA ClaimKeepsPlans ==
    ASSUME RowsTyped, RowsTyped', VehicleInv, PlanInv, ~MayOutlive,
           NEW p \in Runner, ClaimRun(p)
    PROVE  PlanInv'
<1>0. mem \in [Runner -> MemRow] /\ since \in [Runner -> {"stale", "exact", "adjusted"}]
  BY DEF RowsTyped
<1>1. \A q \in Runner : mem[q] = Idle
  BY KeyAssumption DEF ClaimRun, Free, VehicleInv, Alone, RowsTyped
<1>2. \A q \in Runner : since[q] = "stale"
  BY <1>0, <1>1 DEF PlanInv, RunFits
<1>3. /\ mem' = [mem EXCEPT ![p] = Claimed] /\ since' = [since EXCEPT ![p] = "exact"]
      /\ UNCHANGED <<world, job, req>>
      /\ plan' = IF plan = "adjusted" THEN "none" ELSE plan
  BY DEF ClaimRun
<1>4. /\ mem'[p] = Claimed /\ since'[p] = "exact"
      /\ \A q \in Runner \ {p} : mem'[q] = Idle /\ since'[q] = "stale"
  BY <1>0, <1>1, <1>2, <1>3
<1>5. Claimed # Idle /\ Claimed.at = "claimed" /\ Claimed.done = {} /\ Idle.at = "idle"
  BY DEF Claimed, Idle
<1>6. Idle' = Idle /\ Claimed' = Claimed
  BY DEF Idle, Claimed
<1>7. RunFits(p)'
  <2>1. \A t \in Type : mem'[p].seen[t] = NoRow
    BY <1>4, IdleSeen
  <2> QED
    BY <1>4, <1>5, <1>6, <2>1 DEF RunFits
<1>8. RunExact(p)'
  <2>1. Visited(p)' = {}
    BY <1>4, <1>5, IdleSeen DEF Visited
  <2> QED
    BY <1>4, <1>5, <2>1 DEF RunExact
<1>9. plan' \in {"none", "exact"} /\ (plan' # "none" => plan' = plan)
  BY <1>3 DEF RowsTyped
<1>10. plan' = "exact" => \A t \in Type : RowExact(t)'
  BY <1>3, <1>9, SameExact DEF PlanInv
<1>11. VehiclesFit'
  BY <1>3, <1>9, SameFits DEF PlanInv, VehiclesFit
<1> QED
  BY <1>4, <1>6, <1>7, <1>8, <1>9, <1>10, <1>11 DEF PlanInv

LEMMA IntakeKeepsPlans ==
    ASSUME RowsTyped, RowsTyped', VehicleInv, PlanInv, NEW p \in Runner, Intake(p)
    PROVE  PlanInv'
<1> DEFINE c == [t \in Type |-> demand[t] + Cascade(t)]
<1>0. mem \in [Runner -> MemRow] /\ since \in [Runner -> {"stale", "exact", "adjusted"}]
  BY DEF RowsTyped
<1>1. /\ mem[p].at = "claimed"
      /\ mem' = [mem EXCEPT ![p] = [Idle EXCEPT !.at = "planning", !.lots = job, !.cells = c]]
      /\ UNCHANGED <<world, job, req, plan, since>>
  BY DEF Intake
<1>2. mem[p] # Idle
  BY <1>1 DEF Idle
<1>3. \A q \in Runner \ {p} : mem[q] = Idle /\ since[q] = "stale" /\ mem'[q] = Idle
  BY <1>0, <1>1, <1>2, OthersStale
<1>4. /\ mem'[p].at = "planning" /\ mem'[p].lots = job /\ mem'[p].cells = c /\ mem'[p].done = {}
      /\ \A t \in Type : mem'[p].seen[t] = NoRow
  BY <1>0, <1>1 DEF Idle
<1>5. mem'[p] # Idle /\ Idle' = Idle /\ Claimed' = Claimed
  BY <1>4 DEF Idle, Claimed
<1>6. since[p] \in {"stale", "exact"}
  BY <1>0, <1>1 DEF PlanInv, RunFits, Claimed, Idle
<1>7. since[p] = "exact" => RunFits(p)'
  BY <1>1, <1>4, <1>5 DEF RunFits
<1>8. RunExact(p)'
  <2>1. Visited(p)' = {}
    BY <1>4 DEF Visited
  <2>2. CellsRight(p)'
    <3> SUFFICES ASSUME NEW t \in Type
                 PROVE  mem'[p].cells[t] = demand'[t] + Cascade(t)'
                          + Total([u \in Type |-> IF u \in Visited(p)' THEN Uses[u][t] * Exploded(u)' ELSE 0])
      BY DEF CellsRight
    <3> DEFINE z == [u \in Type |-> IF u \in Visited(p)' THEN Uses[u][t] * Exploded(u)' ELSE 0]
    <3>1. z \in [Type -> Nat] /\ \A u \in Type : z[u] = 0
      BY <2>1
    <3> HIDE DEF z
    <3>2. Total(z) = 0
      BY <3>1, TotalZero
    <3>3. mem'[p].cells[t] = demand[t] + Cascade(t) /\ demand[t] + Cascade(t) \in Nat
      BY <1>4, CascadeNat DEF RowsTyped
    <3>4. demand'[t] = demand[t] /\ Cascade(t)' = Cascade(t)
      BY <1>1, NeedFollows DEF world
    <3> QED
      BY <3>2, <3>3, <3>4 DEF z
  <2> QED
    BY <1>1, <1>4, <2>1, <2>2 DEF RunExact
<1>9. plan = "exact" => \A t \in Type : RowExact(t)'
  BY <1>1, SameExact DEF PlanInv
<1>10. plan # "none" => \A r \in Vehicles(FALSE)' : Fits(r)'
  BY <1>1, SameFits DEF PlanInv
<1>11. plan = "exact" => since[p] = "exact"
  BY <1>2 DEF PlanInv
<1>12. plan # "adjusted"
  BY <1>2 DEF PlanInv
<1> QED
  BY <1>1, <1>3, <1>5, <1>6, <1>7, <1>8, <1>9, <1>10, <1>11, <1>12 DEF PlanInv, VehiclesFit

\* A sweep leaves of a type that is not asked for what nothing is short of.
LEMMA SweptIs ==
    ASSUME NEW r \in Live, Swept(r) = req[r]
    PROVE  /\ req[r].gross = 0 /\ req[r].net = 0 /\ req[r].job # None
           /\ req[r].diverged = (req[r].diverged \/ req[r].job # None)
<1>1. req[r].job # None
  <2>1. req[r].job = None => Swept(r) = NoReq
    BY DEF Swept, Row
  <2> QED
    BY <2>1 DEF Live
<1> DEFINE d == req[r].diverged \/ req[r].job # None
           w == [state |-> "in_progress", gross |-> 0, net |-> 0, job |-> req[r].job, diverged |-> d]
<1>2. Swept(r) = w
  BY <1>1 DEF Swept, Row
<1>3. w.gross = 0 /\ w.net = 0 /\ w.diverged = d
  <2> HIDE DEF d
  <2> QED
    OBVIOUS
<1> HIDE DEF w
<1> QED
  BY <1>1, <1>2, <1>3

LEMMA SweptFits ==
    ASSUME RowsTyped, NEW r \in Live, Swept(r) = req[r], r \in Vehicles(FALSE)
    PROVE  Fits(r)
<1>1. req[r].job \in Active /\ stock[TypeOf(r)] \in Nat
  BY VehicleIs DEF RowsTyped, Live, Req, TypeOf
<1>2. req[r].gross = 0 /\ req[r].diverged
  <2>1. req[r].gross = 0 /\ req[r].job # None /\ req[r].diverged = (req[r].diverged \/ req[r].job # None)
    BY SweptIs
  <2> QED
    BY <2>1, Zenon
<1>3. Short(r) = 0 /\ job[req[r].job].qty # 0
  BY <1>1, <1>2, JobTyped DEF Short, Positive, Active
<1> QED
  BY <1>2, <1>3 DEF Fits

LEMMA EndKeepsPlans ==
    ASSUME RowsTyped, RowsTyped', VehicleInv, PlanInv, NEW p \in Runner, EndRun(p)
    PROVE  PlanInv'
<1>0. mem \in [Runner -> MemRow] /\ since \in [Runner -> {"stale", "exact", "adjusted"}]
      /\ plan \in {"none", "exact", "adjusted"}
  BY DEF RowsTyped
<1>1. /\ mem[p].at = "planning" /\ Pending(p) = {} /\ Unreconciled(p) = {} /\ ToSweep(p) = {}
      /\ mem' = [mem EXCEPT ![p] = Idle] /\ since' = [since EXCEPT ![p] = "stale"]
      /\ plan' = IF since[p] = "stale" THEN plan ELSE since[p]
      /\ UNCHANGED <<world, job, req>>
  BY DEF EndRun, Sweeping
<1>2. mem[p] # Idle
  BY <1>1 DEF Idle
<1>3. \A q \in Runner : mem'[q] = Idle /\ since'[q] = "stale" /\ Idle' = Idle
  BY <1>0, <1>1, <1>2, OthersStale DEF Idle
<1>4. since[p] = "stale" => plan' = "none"
  BY <1>0, <1>1, <1>2 DEF PlanInv
<1>5. Visited(p) = mem[p].done
  BY <1>1 DEF Visited, Unreconciled
<1>6. ASSUME NEW r \in Live, TypeOf(r) \notin Visited(p) PROVE Swept(r) = req[r]
  BY <1>1, <1>6 DEF ToSweep
<1>7. plan' = "exact" => \A t \in Type : RowExact(t)
  <2> SUFFICES ASSUME plan' = "exact", NEW t \in Type PROVE RowExact(t)
    OBVIOUS
  <2>1. since[p] = "exact"
    BY <1>0, <1>1, <1>4
  <2>2. RunExact(p)
    BY <2>1 DEF PlanInv
  <2>3. CASE t \in Visited(p)
    BY <2>2, <2>3 DEF RunExact
  <2>4. CASE t \notin Visited(p)
    <3>1. Need[t] = 0 /\ Lack(t) = 0
      BY <1>1, <2>2, <2>4, NothingLeft, LackNat
    <3>2. ASSUME NEW r \in LiveOf(t) PROVE req[r].gross = 0 /\ req[r].net = 0
      BY <1>6, <2>4, <3>2, SweptIs DEF LiveOf
    <3> QED
      BY <3>1, <3>2 DEF RowExact
  <2> QED
    BY <2>3, <2>4
<1>8. plan' # "none" => \A r \in Vehicles(FALSE) : Fits(r)
  <2> SUFFICES ASSUME plan' # "none", NEW r \in Vehicles(FALSE) PROVE Fits(r)
    OBVIOUS
  <2>1. RunFits(p)
    BY <1>4 DEF PlanInv
  <2>2. CASE TypeOf(r) \in Visited(p)
    BY <1>5, <2>1, <2>2 DEF RunFits
  <2>3. CASE TypeOf(r) \notin Visited(p)
    BY <1>6, <2>3, SweptFits DEF Vehicles
  <2> QED
    BY <2>2, <2>3
<1>9. plan' = "exact" => \A t \in Type : RowExact(t)'
  BY <1>1, <1>7, SameExact
<1>10. VehiclesFit'
  BY <1>1, <1>8, SameFits DEF VehiclesFit
<1> QED
  BY <1>3, <1>9, <1>10 DEF PlanInv

LEMMA FailKeepsPlans ==
    ASSUME RowsTyped, RowsTyped', VehicleInv, PlanInv, NEW p \in Runner, FailRun(p)
    PROVE  PlanInv'
<1>0. mem \in [Runner -> MemRow] /\ since \in [Runner -> {"stale", "exact", "adjusted"}]
  BY DEF RowsTyped
<1>1. /\ mem[p] # Idle /\ mem' = [mem EXCEPT ![p] = Idle] /\ since' = [since EXCEPT ![p] = "stale"]
      /\ UNCHANGED <<world, job, req, plan>>
  BY DEF FailRun
<1>2. \A q \in Runner : mem'[q] = Idle /\ since'[q] = "stale" /\ Idle' = Idle
  BY <1>0, <1>1, OthersStale DEF Idle
<1>3. plan = "exact" => \A t \in Type : RowExact(t)'
  BY <1>1, SameExact DEF PlanInv
<1>4. plan # "none" => \A r \in Vehicles(FALSE)' : Fits(r)'
  BY <1>1, SameFits DEF PlanInv
<1> QED
  BY <1>1, <1>2, <1>3, <1>4 DEF PlanInv, VehiclesFit

LEMMA RowIs ==
    ASSUME NEW j, NEW gross, NEW net, NEW diverged
    PROVE  /\ Row(j, gross, net, diverged) = NoReq => net = 0
           /\ (j # None \/ Row(j, gross, net, diverged) # NoReq) =>
                 /\ Row(j, gross, net, diverged).gross = gross
                 /\ Row(j, gross, net, diverged).net = net
<1>1. CASE j = None /\ net = 0
  BY <1>1 DEF Row
<1>2. CASE ~(j = None /\ net = 0)
  <2> DEFINE w == [state |-> IF j = None THEN "open" ELSE "in_progress",
                   gross |-> gross, net |-> net, job |-> j, diverged |-> diverged]
  <2>1. Row(j, gross, net, diverged) = w
    BY <1>2 DEF Row
  <2>2. w.gross = gross /\ w.net = net
    OBVIOUS
  <2>3. w.state # "none" /\ NoReq.state = "none"
    BY DEF NoReq
  <2> HIDE DEF w
  <2> QED
    BY <2>1, <2>2, <2>3
<1> QED
  BY <1>1, <1>2

\* The rows of other types are as they were, and so is what a run has to write.
LEMMA WaveVisits ==
    ASSUME RowsTyped, VehicleInv, NEW p \in Runner, NEW t \in Type, WaveDone(p, t)
    PROVE  /\ Visited(p)' = Visited(p) \cup {t} /\ t \notin Visited(p)
           /\ LiveOf(t)' = {x \in {RowFor(t)} : WrittenRow(p, t) # NoReq}
           /\ \A u \in Type \ {t} : LiveOf(u)' = LiveOf(u)
           /\ WrittenSeen(p, t) # NoRow
<1>1. /\ t \in Pending(p) /\ GenFor(t) \in Gen /\ mem'[p].done = mem[p].done
      /\ \A u \in Type : mem'[p].seen[u] = IF u = t THEN WrittenSeen(p, t) ELSE mem[p].seen[u]
      /\ RowFor(t) \in Req /\ TypeOf(RowFor(t)) = t /\ LiveOf(t) \subseteq {RowFor(t)}
      /\ req'[RowFor(t)] = WrittenRow(p, t) /\ \A x \in Req \ {RowFor(t)} : req'[x] = req[x]
  BY DEF WaveDone
<1>2. WrittenSeen(p, t) # NoRow
  <2>1. WrittenSeen(p, t).pk = GenFor(t)
    BY DEF WrittenSeen
  <2> QED
    BY <1>1, <2>1, KeyAssumption DEF NoRow
<1> DEFINE r == RowFor(t)  w == WrittenRow(p, t)  s == WrittenSeen(p, t)
<1> HIDE DEF r, w, s
<1>3. /\ t \in Pending(p) /\ mem'[p].done = mem[p].done /\ s # NoRow
      /\ \A u \in Type : mem'[p].seen[u] = IF u = t THEN s ELSE mem[p].seen[u]
      /\ r \in Req /\ TypeOf(r) = t /\ LiveOf(t) \subseteq {r}
      /\ req'[r] = w /\ \A x \in Req \ {r} : req'[x] = req[x]
  BY <1>1, <1>2 DEF r, w, s
<1>4. Visited(p)' = Visited(p) \cup {t} /\ t \notin Visited(p)
  BY <1>3 DEF Visited, Pending
<1>5. LiveOf(t)' = {x \in {r} : w # NoReq}
  <2>1. \A x \in Live : TypeOf(x) = t => x = r
    BY <1>3 DEF LiveOf
  <2> QED
    BY <1>3, <2>1 DEF LiveOf, Live, TypeOf
<1>6. \A u \in Type \ {t} : LiveOf(u)' = LiveOf(u)
  BY <1>3 DEF LiveOf, Live, TypeOf
<1> QED
  BY <1>2, <1>4, <1>5, <1>6 DEF r, w

\* The materials of the row written are added to the cells.
LEMMA WaveCells ==
    ASSUME RowsTyped, RowsTyped', VehicleInv, NEW p \in Runner, NEW t \in Type, WaveDone(p, t),
           CellsRight(p), CellNet(mem[p], t) = Lack(t)
    PROVE  CellsRight(p)'
<1>1. UNCHANGED <<demand, stock, job>>
  BY DEF WaveDone, world
<1>2. \A u \in Type : Exploded(u)' = Exploded(u) /\ Cascade(u)' = Cascade(u)
  BY <1>1, NeedFollows
<1>3. Visited(p)' = Visited(p) \cup {t} /\ t \notin Visited(p)
  BY WaveVisits
<1> SUFFICES ASSUME NEW u \in Type
             PROVE  mem'[p].cells[u] = demand'[u] + Cascade(u)'
                 + Total([v \in Type |-> IF v \in Visited(p)' THEN Uses[v][u] * Exploded(v)' ELSE 0])
  BY DEF CellsRight
<1> DEFINE f == [v \in Type |-> IF v \in Visited(p) THEN Uses[v][u] * Exploded(v) ELSE 0]
           g == [v \in Type |-> IF v \in Visited(p)' THEN Uses[v][u] * Exploded(v)' ELSE 0]
           n == IF t \in Built THEN CellNet(mem[p], t) * Uses[t][u] ELSE 0
<1>4. ASSUME NEW v \in Type PROVE Uses[v][u] * Exploded(v) \in Nat
  BY LackNat, RecipeAssumption, TimesNat
<1>5. f \in [Type -> Nat] /\ g \in [Type -> Nat]
  BY <1>2, <1>4
<1>6. f[t] = 0 /\ \A v \in Type \ {t} : g[v] = f[v]
  BY <1>2, <1>3
<1>7. g[t] = n /\ n \in Nat
  <2>1. g[t] = Uses[t][u] * Exploded(t)
    BY <1>2, <1>3
  <2>2. Uses[t][u] \in Nat /\ Lack(t) \in Nat
    BY RecipeAssumption, LackNat
  <2>3. Uses[t][u] * Lack(t) = Lack(t) * Uses[t][u] /\ Lack(t) * Uses[t][u] \in Nat
    BY <2>2, TimesNat
  <2>4. CASE t \in Built
    BY <2>1, <2>3, <2>4 DEF Exploded
  <2>5. CASE t \notin Built
    BY <2>1, <2>2, <2>5 DEF Exploded
  <2> QED
    BY <2>4, <2>5
<1>8. mem'[p].cells[u] = mem[p].cells[u] + n
  BY DEF WaveDone
<1>9. mem[p].cells[u] = demand[u] + Cascade(u) + Total(f)
  BY DEF CellsRight
<1> HIDE DEF f, g, n
<1>10. IsFiniteSet(Type) /\ demand[u] \in Nat /\ Cascade(u) \in Nat
  BY RecipeAssumption, CascadeNat DEF RowsTyped
<1>11. Total(g) = Total(f) - f[t] + g[t] /\ Total(f) \in Nat
  BY <1>5, <1>6, <1>10, TotalChange, TotalType
<1>12. mem'[p].cells[u] = demand[u] + Cascade(u) + Total(g)
  BY <1>6, <1>7, <1>8, <1>9, <1>10, <1>11
<1> QED
  BY <1>1, <1>2, <1>12 DEF g

LEMMA WaveKeepsPlans ==
    ASSUME RowsTyped, RowsTyped', VehicleInv, MatchInv, PlanInv,
           NEW p \in Runner, NEW t \in Type, WriteRow(p, t)
    PROVE  PlanInv'
<1> DEFINE r == RowFor(t)  w == WrittenRow(p, t)  s == WrittenSeen(p, t)
<1>0. since \in [Runner -> {"stale", "exact", "adjusted"}] /\ plan \in {"none", "exact", "adjusted"}
      /\ None \notin Job
  BY KeyAssumption DEF RowsTyped
<1>1. WaveDone(p, t)
  BY WaveEffect
<1>2. /\ mem[p] # Idle /\ mem[p].at = "planning" /\ t \in Pending(p)
      /\ r \in Req /\ r = <<t, GenFor(t)>> /\ TypeOf(r) = t /\ LiveOf(t) \subseteq {r}
      /\ JobOf(t) = req[r].job
      /\ req'[r] = w /\ (\A x \in Req \ {r} : req'[x] = req[x])
      /\ w.job = req[r].job /\ (w.job # None => w # NoReq /\ w.diverged = req[r].diverged)
      /\ \A q \in Runner \ {p} : mem'[q] = mem[q]
      /\ \A u \in Type : mem'[p].seen[u] = IF u = t THEN s ELSE mem[p].seen[u]
      /\ mem'[p].at = mem[p].at /\ mem'[p].lots = mem[p].lots /\ mem'[p].done = mem[p].done
      /\ UNCHANGED <<demand, stock, job, plan, since>>
  BY <1>1 DEF WaveDone, world
<1>3. /\ Visited(p)' = Visited(p) \cup {t}
      /\ LiveOf(t)' = {x \in {r} : w # NoReq}
      /\ \A u \in Type \ {t} : LiveOf(u)' = LiveOf(u)
  BY <1>1, WaveVisits
<1>4. s.pk = GenFor(t) /\ s.job = JobOf(t) /\ s.target = CellTarget(mem[p], t)
  BY DEF WrittenSeen
<1>5. w = Row(JobOf(t), mem[p].cells[t], CellNet(mem[p], t), DivergedOf(t))
  BY DEF WrittenRow
<1>6. /\ w = NoReq => CellNet(mem[p], t) = 0
      /\ (JobOf(t) # None \/ w # NoReq) => w.gross = mem[p].cells[t] /\ w.net = CellNet(mem[p], t)
  <2> HIDE DEF w
  <2> QED
    BY <1>5, RowIs
<1> HIDE DEF r, w, s
<1>7. \A q \in Runner \ {p} : mem'[q] = Idle /\ since'[q] = "stale"
  BY <1>2, OthersStale
<1>8. mem'[p] # Idle /\ Idle' = Idle /\ Claimed' = Claimed /\ mem[p].at # "claimed"
  BY <1>2 DEF Idle, Claimed
<1>9. plan # "adjusted" /\ (plan = "exact" => since[p] = "exact")
  BY <1>2 DEF PlanInv
<1>10. CASE since[p] = "stale"
  BY <1>0, <1>2, <1>7, <1>9, <1>10 DEF PlanInv, VehiclesFit
<1>11. CASE since[p] # "stale"
  <2>1. RunFits(p)
    BY <1>11 DEF PlanInv
  <2>2. mem[p].done = {} /\ since[p] = "exact"
    BY <1>2, <2>1 DEF RunFits, Pending
  <2>3. RunExact(p)
    BY <2>2 DEF PlanInv
  <2>4. mem[p].lots = job /\ CellsRight(p)
    BY <1>2, <2>2, <2>3 DEF RunExact
  <2>5. mem[p].cells[t] = Need[t] /\ CellNet(mem[p], t) = Lack(t)
    BY <2>4, WaveExact
  <2>6. \A u \in Type : Need'[u] = Need[u] /\ Lack(u)' = Lack(u)
    BY <1>2, NeedFollows
  <2>7. Active' = Active
    BY <1>2 DEF Active
  <2>8. RowExact(t)'
    <3>1. w = NoReq => Lack(t)' = 0
      BY <1>6, <2>5, <2>6
    <3>2. w # NoReq => w.gross = Need'[t] /\ w.net = Lack(t)'
      BY <1>6, <2>5, <2>6
    <3> QED
      BY <1>2, <1>3, <3>1, <3>2 DEF RowExact
  <2>9. ASSUME NEW u \in Type \ {t}, RowExact(u) PROVE RowExact(u)'
    <3>1. \A x \in Req : TypeOf(x) = u => req'[x] = req[x]
      BY <1>2
    <3>2. \A x \in Req : TypeOf(x) = u => (x \in Live' <=> x \in Live)
      BY <3>1 DEF Live
    <3> QED
      BY <1>2, <2>9, <3>1, <3>2, StillExact
  <2>10. RunExact(p)'
    <3>1. \A u \in Visited(p)' : RowExact(u)'
      <4>1. Visited(p) \subseteq Type
        BY DEF Visited, RowsTyped, MemRow
      <4> QED
        BY <1>3, <2>3, <2>8, <2>9, <4>1 DEF RunExact
    <3>2. CellsRight(p)'
      BY <1>1, <2>4, <2>5, WaveCells
    <3> QED
      BY <1>2, <2>2, <2>4, <3>1, <3>2 DEF RunExact
  <2>11. ASSUME s.job \in Active, ~job[s.job].esi
         PROVE  s.target = Positive(w.gross - stock[t])
    <3>1. job[s.job].type = t /\ t \notin Ships
      BY <1>2, <1>4, <2>11, RecipeAssumption DEF MatchInv, Matched, ForNeeds
    <3>2. s.target = Positive(mem[p].cells[t] - stock[t])
      BY <1>4, <2>4, <2>11, <3>1, TargetShort
    <3>3. w.gross = mem[p].cells[t]
      BY <1>0, <1>4, <1>6, <2>11 DEF Active
    <3> QED
      BY <3>2, <3>3
  <2>12. SeenFits(p, t)'
    <3>1. /\ mem'[p].seen[t] = s /\ req'[<<t, s.pk>>] = w
          /\ w.job = s.job /\ LiveOf(t)' \subseteq {<<t, s.pk>>}
      BY <1>2, <1>3, <1>4
    <3> QED
      BY <1>2, <2>7, <2>11, <3>1 DEF SeenFits, Short, TypeOf
  <2>13. ASSUME NEW u \in Type \ {t}, mem[p].seen[u] # NoRow PROVE SeenFits(p, u)'
    <3> DEFINE z == mem[p].seen[u]  x == <<u, z.pk>>
    <3>1. SeenFits(p, u) /\ x \in Req
      BY <2>1, <2>13, SeenTyped DEF RunFits
    <3>2. req'[x] = req[x] /\ mem'[p].seen[u] = z /\ TypeOf(x) = u
      BY <1>2, <3>1 DEF TypeOf
    <3>3. Short(x)' = Short(x)
      BY <1>2, <3>2 DEF Short, TypeOf
    <3>4. /\ req[x].job = z.job /\ LiveOf(u) \subseteq {x}
          /\ (z.job \in Active /\ ~job[z.job].esi) => z.target = Short(x)
      BY <3>1 DEF SeenFits
    <3>5. LiveOf(u)' = LiveOf(u)
      BY <1>3
    <3> HIDE DEF z, x
    <3>6. /\ req'[x].job = z.job /\ LiveOf(u)' \subseteq {x}
          /\ (z.job \in Active' /\ ~job'[z.job].esi) => z.target = Short(x)'
      BY <1>2, <2>7, <3>2, <3>3, <3>4, <3>5
    <3> QED
      BY <3>2, <3>6 DEF SeenFits, z, x
  <2>14. RunFits(p)'
    <3>1. \A u \in Type : mem'[p].seen[u] # NoRow => SeenFits(p, u)'
      BY <1>2, <2>12, <2>13
    <3>2. mem'[p].done = {} /\ since'[p] = "exact" /\ mem'[p].at = "planning"
      BY <1>2, <2>2
    <3> QED
      BY <1>8, <3>1, <3>2 DEF RunFits
  <2>15. plan = "exact" => \A u \in Type : RowExact(u)'
    BY <2>8, <2>9 DEF PlanInv
  <2>16. VehiclesFit'
    <3> SUFFICES ASSUME plan = "exact", NEW x \in Vehicles(FALSE)' PROVE Fits(x)'
      BY <1>0, <1>2, <1>9 DEF VehiclesFit
    <3>1. /\ x \in Live' /\ x \in Req /\ req'[x].job \in Active' /\ ~job'[req'[x].job].esi
      BY VehicleIsNext DEF Vehicles, Live
    <3>2. req'[x].job = req[x].job
      BY <1>2, <3>1
    <3>3. x \in Live
      BY <1>0, <2>7, <3>1, <3>2 DEF Live, NoReq, Active
    <3>4. x \in Vehicles(FALSE)
      BY <1>2, <2>7, <3>1, <3>2, <3>3, VehicleIs
    <3>5. Fits(x)
      BY <3>4 DEF PlanInv, VehiclesFit
    <3>6. CASE x # r
      BY <1>2, <3>1, <3>5, <3>6, StillFits
    <3>7. CASE x = r
      <4>1. RowExact(t) /\ x \in LiveOf(t)
        BY <1>2, <3>3, <3>7 DEF PlanInv, LiveOf
      <4>2. w.gross = req[r].gross /\ w.diverged = req[r].diverged
        BY <1>0, <1>2, <1>6, <2>5, <2>7, <3>1, <3>2, <3>7, <4>1 DEF RowExact, Active
      <4> QED
        BY <1>2, <3>2, <3>5, <3>7, <4>2 DEF Fits, Short, TypeOf
    <3> QED
      BY <3>6, <3>7
  <2> QED
    BY <1>2, <1>7, <1>8, <1>9, <2>2, <2>10, <2>14, <2>15, <2>16 DEF PlanInv
<1> QED
  BY <1>10, <1>11

LEMMA SweptRow ==
    ASSUME NEW r
    PROVE  /\ req[r].job # None => Swept(r).gross = 0 /\ Swept(r).net = 0 /\ Swept(r).diverged
           /\ Swept(r) # NoReq => Swept(r).gross = 0 /\ Swept(r).net = 0
<1> DEFINE d == req[r].diverged \/ req[r].job # None
           w == [state |-> "in_progress", gross |-> 0, net |-> 0, job |-> req[r].job, diverged |-> d]
<1>1. CASE req[r].job = None
  BY <1>1 DEF Swept, Row
<1>2. CASE req[r].job # None
  <2>1. Swept(r) = w
    BY <1>2 DEF Swept, Row
  <2>2. w.gross = 0 /\ w.net = 0 /\ w.diverged = d
    <3> HIDE DEF d
    <3> QED
      OBVIOUS
  <2> HIDE DEF w
  <2>3. Swept(r).gross = 0 /\ Swept(r).net = 0 /\ Swept(r).diverged = d
    BY <2>1, <2>2
  <2>4. Swept(r).diverged
    <3>1. d
      BY <1>2
    <3> HIDE DEF d
    <3> QED
      BY <2>3, <3>1, Zenon
  <2> QED
    BY <2>3, <2>4
<1> QED
  BY <1>1, <1>2

LEMMA SweepKeepsPlans ==
    ASSUME RowsTyped, RowsTyped', VehicleInv, MatchInv, PlanInv,
           NEW p \in Runner, NEW r \in Req, SweepRow(p, r)
    PROVE  PlanInv'
<1>0. since \in [Runner -> {"stale", "exact", "adjusted"}] /\ plan \in {"none", "exact", "adjusted"}
      /\ None \notin Job
  BY KeyAssumption DEF RowsTyped
<1> DEFINE w == Swept(r)  t == TypeOf(r)
<1>1. /\ mem[p] # Idle /\ mem[p].at = "planning" /\ Pending(p) = {} /\ r \in Live /\ t \notin Visited(p)
      /\ \A q \in Runner, u \in Type : mem[q].seen[u] = NoRow
      /\ req'[r] = w /\ \A x \in Req \ {r} : req'[x] = req[x]
      /\ w.job = req[r].job
      /\ UNCHANGED <<demand, stock, job, mem, plan, since>>
  <2>1. SweepDone(p, r)
    BY SweepEffect
  <2> QED
    BY <2>1 DEF SweepDone, world, Sweeping
<1>2. /\ req[r].job # None => w.gross = 0 /\ w.net = 0 /\ w.diverged
      /\ w # NoReq => w.gross = 0 /\ w.net = 0
  BY SweptRow
<1> HIDE DEF w
<1>3. t \in Type /\ Active' = Active /\ (\A x \in Req \ {r} : x \in Live' <=> x \in Live)
      /\ Visited(p)' = Visited(p) /\ mem[p].done \subseteq Visited(p) /\ Visited(p) \subseteq Type
  BY <1>1 DEF Req, TypeOf, Active, Live, Visited, RowsTyped, MemRow
<1>4. \A x \in Live : TypeOf(x) = t => x = r
  BY <1>1 DEF VehicleInv, OneLive
<1>5. \A q \in Runner \ {p} : mem'[q] = Idle /\ since'[q] = "stale"
  BY <1>1, OthersStale
<1>6. Idle' = Idle /\ Claimed' = Claimed
  BY DEF Idle, Claimed
<1>7. plan # "adjusted" /\ (plan = "exact" => since[p] = "exact")
  BY <1>1 DEF PlanInv
<1> HIDE DEF t
<1>8. ASSUME NEW u \in Type \ {t}, RowExact(u) PROVE RowExact(u)'
  <2>1. \A x \in Req : TypeOf(x) = u => req'[x] = req[x] /\ (x \in Live' <=> x \in Live)
    BY <1>1, <1>3 DEF t
  <2> QED
    BY <1>1, <1>8, <2>1, StillExact
<1>9. ASSUME NEW x \in Vehicles(FALSE)'
      PROVE  /\ x \in Req /\ req'[x].job \in Active /\ req'[x].job = req[x].job
             /\ x # r => x \in Vehicles(FALSE) /\ (Fits(x) => Fits(x)')
  <2>1. /\ x \in Live' /\ x \in Req /\ req'[x].job \in Active' /\ ~job'[req'[x].job].esi
    BY VehicleIsNext DEF Vehicles, Live
  <2>2. req'[x].job = req[x].job
    BY <1>1, <2>1
  <2>3. ASSUME x # r PROVE x \in Vehicles(FALSE) /\ (Fits(x) => Fits(x)')
    <3>1. x \in Vehicles(FALSE)
      BY <1>1, <1>3, <2>1, <2>2, <2>3, VehicleIs
    <3> QED
      BY <1>1, <2>1, <2>3, <3>1, StillFits
  <2> QED
    BY <1>3, <2>1, <2>2, <2>3
<1>10. CASE since[p] = "stale"
  BY <1>0, <1>1, <1>5, <1>7, <1>10 DEF PlanInv, VehiclesFit
<1>11. CASE since[p] # "stale"
  <2>1. RunFits(p)
    BY <1>11 DEF PlanInv
  <2>2. RunFits(p)'
    <3>1. \A x \in Vehicles(FALSE)' : TypeOf(x) \in mem[p].done => Fits(x)'
      BY <1>1, <1>3, <1>9, <2>1 DEF RunFits, t
    <3> QED
      BY <1>1, <1>6, <2>1, <3>1 DEF RunFits, TypeOf
  <2>3. ASSUME since[p] = "exact" PROVE RunExact(p)' /\ Need[t] = 0
    <3>1. RunExact(p)
      BY <2>3 DEF PlanInv
    <3>2. \A u \in Visited(p)' : RowExact(u)'
      BY <1>1, <1>3, <1>8, <3>1 DEF RunExact, t
    <3>3. Need[t] = 0
      BY <1>1, <1>3, <3>1, NothingLeft
    <3>4. CASE mem[p].done = {}
      <4>1. mem[p].lots = job /\ CellsRight(p)
        BY <1>1, <3>1, <3>4 DEF RunExact
      <4>2. CellsRight(p)'
        BY <1>1, <4>1, StillRight
      <4> QED
        BY <1>1, <3>2, <3>3, <3>4, <4>1, <4>2 DEF RunExact
    <3>5. CASE mem[p].done # {}
      <4>1. \A u \in Type : Need'[u] = Need[u]
        BY <1>1, NeedFollows
      <4> QED
        BY <1>1, <1>3, <3>1, <3>2, <3>3, <3>5, <4>1 DEF RunExact
    <3> QED
      BY <3>4, <3>5
  <2>4. ASSUME plan = "exact" PROVE \A u \in Type : RowExact(u)'
    <3>1. Need[t] = 0 /\ Lack(t) = 0
      BY <1>3, <1>7, <2>3, <2>4, LackNat
    <3>2. Need'[t] = 0 /\ Lack(t)' = 0
      BY <1>1, <1>3, <3>1, NeedFollows
    <3>3. \A x \in LiveOf(t)' : x = r /\ w # NoReq
      BY <1>1, <1>3, <1>4 DEF LiveOf, Live, TypeOf
    <3>4. RowExact(t)'
      BY <1>1, <1>2, <3>2, <3>3 DEF RowExact
    <3> QED
      BY <1>8, <2>4, <3>4 DEF PlanInv
  <2>5. VehiclesFit'
    <3> SUFFICES ASSUME plan = "exact", NEW x \in Vehicles(FALSE)' PROVE Fits(x)'
      BY <1>0, <1>1, <1>7 DEF VehiclesFit
    <3>1. CASE x # r
      BY <1>9, <3>1 DEF PlanInv, VehiclesFit
    <3>2. CASE x = r
      <4>1. /\ req'[x].job \in Active /\ w.gross = 0 /\ w.diverged /\ stock'[TypeOf(x)] \in Nat
        BY <1>0, <1>1, <1>2, <1>3, <1>9, <3>2 DEF Active, t, RowsTyped
      <4>2. job'[req'[x].job].qty # 0
        BY <1>1, <4>1, JobTyped DEF Active
      <4>3. Short(x)' = 0
        BY <1>1, <3>2, <4>1 DEF Short, Positive, TypeOf
      <4>4. req'[x].diverged
        BY <1>1, <3>2, <4>1, Zenon
      <4> QED
        BY <4>2, <4>3, <4>4 DEF Fits
    <3> QED
      BY <3>1, <3>2
  <2> QED
    BY <1>1, <1>5, <1>6, <1>7, <2>2, <2>3, <2>4, <2>5 DEF PlanInv
<1> QED
  BY <1>10, <1>11

\* Reconciled, a vehicle fits what its requirement is short of.
LEMMA ReconciledFits ==
    ASSUME RowsTyped, RowsTyped', NEW p \in Runner, NEW t \in Type, ReconcileDone(p, t),
           SeenFits(p, t), NEW r, r = RowAt(p, t), r \in Vehicles(FALSE)'
    PROVE  Fits(r)'
<1> DEFINE s == SeenAt(p, t)  j == s.job
<1>0. None \notin Job /\ s = mem[p].seen[t] /\ r = <<t, s.pk>>
  BY KeyAssumption DEF SeenAt, RowAt
<1>1. /\ s \in SeenRow /\ r \in Req /\ Active' = Active
      /\ s.job = None => UNCHANGED <<req, job, plan, since>>
      /\ s.job # None =>
            /\ r \in Live /\ req[r].job = s.job
            /\ req'[r] = [req[r] EXCEPT !.diverged = Flags(s),
                             !.job = IF Lets(s) THEN None ELSE s.job]
      /\ Resizes(s) => job' = [job EXCEPT ![s.job].qty = s.target] /\ Adjust(p)
      /\ ~Resizes(s) => UNCHANGED job /\ IF Lets(s) THEN Adjust(p) ELSE SameHistory
      /\ \A k \in Job : job'[k].esi = job[k].esi /\ job'[k].state = job[k].state
      /\ UNCHANGED world
  BY DEF ReconcileDone
<1>2. req[r].job = s.job /\ ((s.job \in Active /\ ~job[s.job].esi) => s.target = Short(r))
  BY <1>0 DEF SeenFits
<1> HIDE DEF s
<1>3. req'[r].job \in Active /\ ~job'[req'[r].job].esi
  BY <1>1, VehicleIsNext
<1>4. req[r] \in ReqRow /\ job \in [Job -> JobRow \cup {NoJob}] /\ stock[TypeOf(r)] \in Nat
  BY <1>0, <1>1 DEF RowsTyped, TypeOf
<1>5. j # None /\ j \in Job
  <2>1. CASE j = None
    BY <1>0, <1>1, <1>2, <1>3, <2>1 DEF Active
  <2>2. CASE j # None
    BY <1>1, <2>2 DEF SeenRow
  <2> QED
    BY <2>1, <2>2
<1>6. req'[r].gross = req[r].gross /\ req'[r].diverged = Flags(s)
      /\ req'[r].job = IF Lets(s) THEN None ELSE j
  BY <1>1, <1>4, <1>5 DEF ReqRow
<1>7. j \in Active /\ req'[r].job = j /\ ~job[j].esi
  BY <1>0, <1>1, <1>3, <1>5, <1>6 DEF Active
<1>8. s.target = Short(r) /\ Positive(req'[r].gross - stock'[TypeOf(r)]) = Short(r)
  BY <1>1, <1>2, <1>6, <1>7 DEF Short, world
<1>9. job'[j].state = job[j].state /\ job[j] \in JobRow
  BY <1>1, <1>4, <1>5, <1>7 DEF Active
<1>10. ASSUME job[j].state = "queued", Short(r) > 0 PROVE job'[j].qty = Short(r)
  <2>1. CASE Resizes(s)
    BY <1>1, <1>4, <1>5, <1>8, <1>9, <2>1 DEF JobRow
  <2>2. CASE ~Resizes(s)
    BY <1>1, <1>7, <1>8, <1>10, <2>2 DEF Resizes
  <2> QED
    BY <2>1, <2>2
<1>11. ASSUME job[j].state \in Underway PROVE req'[r].diverged <=> job'[j].qty # Short(r)
  <2>1. ~Resizes(s)
    BY <1>11 DEF Resizes, Underway
  <2>2. Flags(s) <=> job[j].qty # Short(r)
    BY <1>7, <1>8, <1>11 DEF Flags
  <2>3. job'[j].qty = job[j].qty
    BY <1>1, <2>1
  <2>4. req'[r].diverged <=> Flags(s)
    BY <1>6
  <2> QED
    BY <2>2, <2>3, <2>4
<1> HIDE DEF j
<1> QED
  BY <1>7, <1>8, <1>9, <1>10, <1>11 DEF Fits, Short, TypeOf

LEMMA ReconcileKeepsPlans ==
    ASSUME RowsTyped, RowsTyped', VehicleInv, MatchInv, PlanInv,
           NEW p \in Runner, NEW t \in Type, ReconcileRow(p, t)
    PROVE  PlanInv'
<1> DEFINE s == SeenAt(p, t)
<1>0. since \in [Runner -> {"stale", "exact", "adjusted"}] /\ plan \in {"none", "exact", "adjusted"}
      /\ None \notin Job
  BY KeyAssumption DEF RowsTyped
<1>1. PICK r : r = RowAt(p, t)
  OBVIOUS
<1>2. ReconcileDone(p, t)
  BY ReconcileEffect
<1>3. /\ s # NoRow /\ s = mem[p].seen[t] /\ r = <<t, s.pk>> /\ mem[p] # Idle
      /\ r \in Req /\ TypeOf(r) = t
      /\ \A x \in Req \ {r} : req'[x] = req[x]
      /\ s.job = None => UNCHANGED <<req, job, plan, since>>
      /\ s.job # None =>
            /\ r \in Live /\ req[r].job = s.job
            /\ req'[r] = [req[r] EXCEPT !.diverged = Flags(s),
                             !.job = IF Lets(s) THEN None ELSE s.job]
      /\ Resizes(s) => job' = [job EXCEPT ![s.job].qty = s.target] /\ Adjust(p)
      /\ ~Resizes(s) => UNCHANGED job /\ IF Lets(s) THEN Adjust(p) ELSE SameHistory
  BY <1>1, <1>2 DEF ReconcileDone, SeenAt, RowAt
<1>4. /\ Active' = Active /\ Live' \subseteq Live
      /\ \A j \in Job : job'[j].type = job[j].type /\ job'[j].esi = job[j].esi
      /\ \A q \in Runner \ {p} : mem'[q] = mem[q]
      /\ \A u \in Type : mem'[p].seen[u] = IF u = t THEN NoRow ELSE mem[p].seen[u]
      /\ \A u \in Type : mem'[p].cells[u] = 0
      /\ mem'[p].at = "planning" /\ mem'[p].done = mem[p].done \cup {t}
      /\ UNCHANGED <<demand, stock>>
  BY <1>2 DEF ReconcileDone, world
<1>5. Pending(p) = {}
  BY DEF ReconcileRow
<1> HIDE DEF s
<1>6. Visited(p)' = Visited(p) /\ Visited(p) \subseteq Type
  BY <1>3, <1>4 DEF Visited, RowsTyped, MemRow
<1>7. /\ mem'[p] # Idle /\ Idle' = Idle /\ Claimed' = Claimed
      /\ \A u \in Type : Claimed.seen[u] = NoRow
  <2>1. Idle.at = "idle"
    BY DEF Idle
  <2> QED
    BY <1>4, <2>1, IdleSeen DEF Idle, Claimed
<1>8. \A q \in Runner \ {p} : mem'[q] = Idle /\ since[q] = "stale"
  BY <1>3, <1>4, OthersStale
<1>9. Adjust(p) \/ SameHistory
  BY <1>3
<1>10. \A q \in Runner \ {p} : since'[q] = "stale"
  BY <1>8, <1>9 DEF Adjust, SameHistory
<1>11. /\ plan # "adjusted" /\ (plan = "exact" => since[p] = "exact")
       /\ plan' \in {"none", plan}
       /\ since'[p] = since[p] \/ (since'[p] = "adjusted" /\ since[p] # "stale" /\ plan' = "none")
  BY <1>3, <1>9 DEF PlanInv, Adjust, SameHistory
<1>12. CASE since[p] = "stale"
  BY <1>0, <1>8, <1>10, <1>11, <1>12, <1>7 DEF PlanInv, VehiclesFit
<1>13. CASE since[p] # "stale"
  <2>1. RunFits(p)
    BY <1>13 DEF PlanInv
  <2>2. mem[p].at = "planning"
    BY <1>3, <1>7, <2>1 DEF RunFits
  <2>3. SeenFits(p, t)
    BY <1>3, <2>1 DEF RunFits
  <2>4. LiveOf(t) \subseteq {r} /\ req[r].job = s.job
    BY <1>3, <2>3 DEF SeenFits
  <2>5. ASSUME NEW x \in Vehicles(FALSE)', x # r
        PROVE  TypeOf(x) # t /\ (x \in Vehicles(FALSE) /\ (Fits(x) => Fits(x)'))
    <3>1. /\ x \in Live' /\ x \in Req /\ req'[x].job \in Active' /\ ~job'[req'[x].job].esi
      BY VehicleIsNext DEF Vehicles, Live
    <3>2. req'[x] = req[x] /\ x \in Live /\ req[x].job \in Active /\ req[x].job \in Job
      BY <1>3, <1>4, <2>5, <3>1 DEF Active
    <3>3. TypeOf(x) # t
      BY <2>4, <2>5, <3>2 DEF LiveOf
    <3>4. x \in Vehicles(FALSE)
      BY <1>4, <3>1, <3>2, VehicleIs
    <3>5. job'[req[x].job] = job[req[x].job]
      <4>1. CASE Resizes(s)
        <5>1. job[s.job].type = t /\ job[req[x].job].type = TypeOf(x)
          BY <1>3, <2>4, <3>1, <3>2, <4>1 DEF MatchInv, Matched, Resizes
        <5>2. req[x].job # s.job
          BY <3>3, <5>1
        <5> QED
          BY <1>3, <3>2, <4>1, <5>2 DEF RowsTyped
      <4>2. CASE ~Resizes(s)
        BY <1>3, <4>2
      <4> QED
        BY <4>1, <4>2
    <3> QED
      BY <1>4, <3>1, <3>2, <3>3, <3>4, <3>5, StillFits
  <2>6. ASSUME NEW x \in Vehicles(FALSE)', x = r PROVE Fits(x)'
    BY <1>1, <1>2, <2>3, <2>6, ReconciledFits
  <2>7. ASSUME NEW u \in Type \ {t}, mem[p].seen[u] # NoRow PROVE SeenFits(p, u)'
    <3> DEFINE z == mem[p].seen[u]
    <3>1. PICK x : x = <<u, z.pk>>
      OBVIOUS
    <3>2. SeenFits(p, u) /\ x \in Req /\ TypeOf(x) = u
      BY <2>1, <2>7, <3>1, SeenTyped DEF RunFits, TypeOf
    <3>3. req'[x] = req[x] /\ mem'[p].seen[u] = z /\ LiveOf(u)' \subseteq LiveOf(u)
      BY <1>3, <1>4, <3>2 DEF LiveOf, TypeOf
    <3>4. /\ req[x].job = z.job /\ LiveOf(u) \subseteq {x}
          /\ (z.job \in Active /\ ~job[z.job].esi) => z.target = Short(x)
      BY <3>1, <3>2 DEF SeenFits
    <3>5. Short(x)' = Short(x)
      BY <1>4, <3>3 DEF Short, TypeOf
    <3> HIDE DEF z
    <3>6. /\ req'[x].job = z.job /\ LiveOf(u)' \subseteq {x}
          /\ (z.job \in Active' /\ ~job'[z.job].esi) => z.target = Short(x)'
      BY <1>4, <3>3, <3>4, <3>5 DEF Active
    <3> QED
      BY <3>1, <3>3, <3>6 DEF SeenFits
  <2>8. RunFits(p)'
    <3>1. \A u \in Type : mem'[p].seen[u] # NoRow => SeenFits(p, u)'
      BY <1>4, <2>7
    <3>2. \A x \in Vehicles(FALSE)' : TypeOf(x) \in mem'[p].done => Fits(x)'
      BY <1>4, <2>1, <2>5, <2>6 DEF RunFits
    <3>3. mem'[p].done # {} /\ mem'[p].at = "planning"
      BY <1>4
    <3> QED
      BY <1>4, <1>7, <3>1, <3>2, <3>3 DEF RunFits, TypeOf
  <2>9. ASSUME ~Adjust(p)
        PROVE  /\ UNCHANGED <<demand, stock, job>> /\ Live' = Live
               /\ \A x \in Req : req'[x].gross = req[x].gross /\ req'[x].net = req[x].net
    <3>1. CASE s.job = None
      BY <1>3, <1>4, <3>1 DEF Live
    <3>2. CASE s.job # None /\ ~Resizes(s) /\ ~Lets(s)
      <4>1. req[r] \in ReqRow
        BY <1>3 DEF RowsTyped
      <4>2. req'[r].job = s.job /\ req'[r].gross = req[r].gross /\ req'[r].net = req[r].net
        BY <1>3, <3>2, <4>1 DEF ReqRow
      <4>3. r \in Live /\ req'[r] # NoReq
        BY <1>3, <3>2, <4>2 DEF NoReq
      <4> QED
        BY <1>3, <1>4, <3>2, <4>2, <4>3 DEF Live
    <3>3. CASE Resizes(s) \/ Lets(s)
      BY <1>3, <2>9, <3>3
    <3> QED
      BY <3>1, <3>2, <3>3
  <2>10. /\ since'[p] = "exact" => ~Adjust(p) /\ since[p] = "exact"
         /\ plan' # "none" => ~Adjust(p) /\ plan = "exact" /\ plan' = plan
    BY <1>0, <1>3, <1>11 DEF Adjust, SameHistory
  <2>11. ASSUME ~Adjust(p), NEW u \in Type, RowExact(u) PROVE RowExact(u)'
    BY <2>9, <2>11, StillExact
  <2>12. ASSUME since'[p] = "exact" PROVE RunExact(p)'
    <3>1. RunExact(p)
      BY <2>10, <2>12 DEF PlanInv
    <3>2. \A u \in Visited(p)' : RowExact(u)'
      BY <1>6, <2>10, <2>11, <2>12, <3>1 DEF RunExact
    <3>3. \A u \in Type \ Visited(p) : Need[u] = 0
      BY <1>5, <2>2, <3>1, NothingLeft
    <3>4. \A u \in Type : Need'[u] = Need[u]
      BY <2>9, <2>10, <2>12, NeedFollows
    <3>5. mem'[p].done # {}
      BY <1>4
    <3> QED
      BY <1>6, <3>2, <3>3, <3>4, <3>5 DEF RunExact
  <2>13. plan' = "exact" => \A u \in Type : RowExact(u)'
    BY <2>10, <2>11 DEF PlanInv
  <2>14. VehiclesFit'
    BY <2>5, <2>6, <2>10 DEF PlanInv, VehiclesFit
  <2>15. plan' # "adjusted" /\ (plan' = "exact" => since'[p] = "exact")
    BY <1>11, <2>10
  <2> QED
    BY <1>7, <1>8, <1>10, <2>8, <2>12, <2>13, <2>14, <2>15 DEF PlanInv
<1> QED
  BY <1>12, <1>13

LEMMA NextPlanned ==
    ~MayOutlive /\ RowsTyped /\ RowsTyped' /\ VehicleInv /\ MatchInv /\ PlanInv /\ [Next]_vars => PlanInv'
<1> SUFFICES ASSUME ~MayOutlive, RowsTyped, RowsTyped', VehicleInv, MatchInv, PlanInv, [Next]_vars
             PROVE  PlanInv'
  OBVIOUS
<1>1. ASSUME NEW p \in Runner, ClaimRun(p) \/ RunStep(p) PROVE PlanInv'
  BY <1>1, ClaimKeepsPlans, IntakeKeepsPlans, WaveKeepsPlans, ReconcileKeepsPlans,
     SweepKeepsPlans, EndKeepsPlans DEF RunStep
<1>2. CASE Interference
  <2>1. ASSUME NEW p \in Runner, FailRun(p) PROVE PlanInv'
    BY <2>1, FailKeepsPlans
  <2>2. ASSUME NEW o \in Officer, FanOut(o) PROVE PlanInv'
    BY <2>2, DisturbKeeps DEF FanOut
  <2>3. ASSUME NEW o \in Officer, FanOutVain(o) \/ \E r \in Req : ReadRequirement(o, r) PROVE PlanInv'
    BY <2>3, QuietKeeps DEF FanOutVain, ReadRequirement
  <2>4. ASSUME NEW j \in Job, ClaimJob(j) \/ MarkBuilt(j) \/ CancelJob(j) \/ LinkJob(j) \/ DeliverJob(j)
        PROVE  PlanInv'
    BY <2>4, DisturbKeeps DEF ClaimJob, MarkBuilt, CancelJob, LinkJob, DeliverJob
  <2>5. ASSUME NEW t \in Type, NEW n, DemandMoves(t, n) \/ StockMoves(t, n) PROVE PlanInv'
    BY <2>5, DisturbKeeps DEF DemandMoves, StockMoves
  <2> QED
    BY <1>2, <2>1, <2>2, <2>3, <2>4, <2>5 DEF Interference
<1>3. CASE UNCHANGED vars
  BY <1>3, QuietKeeps DEF vars, world
<1> QED
  BY <1>1, <1>2, <1>3 DEF Next

LEMMA AlwaysPlanned ==
    ASSUME ~MayOutlive
    PROVE  Spec => []RowsTyped /\ []VehicleInv /\ []PlanInv
<1>1. RowsTyped /\ VehicleInv /\ MatchInv /\ [Next]_vars => MatchInv'
  BY NextMatched
<1>2. RowsTyped /\ RowsTyped' /\ VehicleInv /\ MatchInv /\ PlanInv /\ [Next]_vars => PlanInv'
  BY NextPlanned
<1> QED
  BY <1>1, <1>2, InitMatched, InitPlanned, AlwaysTyped, AlwaysVehicles, PTL DEF Spec

\* _reconcile_vehicles and _own_vehicle_output: undisturbed, what a complete run
\* leaves of its unclaimed jobs is what their requirements are short of, and a
\* claimed one is marked exactly when it differs, in recipes of any depth.
THEOREM VehiclesAlwaysFit == ASSUME ~MayOutlive PROVE Spec => []VehiclesFit
<1>1. PlanInv => VehiclesFit
  BY DEF PlanInv
<1> QED
  BY <1>1, AlwaysPlanned, PTL

\* run_mrp: undisturbed, a complete run leaves every net requirement at what the
\* recipes ask for, level by level, less stock and jobs, whatever runs died and
\* whatever officers and builders did before; jobs marked as built, or linked to
\* the game's own, ask for no materials, as _CASCADE_JOB_STATUSES has it.
THEOREM PlansExact == ASSUME ~MayOutlive PROVE Spec => []PlanExact
<1>1. RowsTyped /\ VehicleInv /\ PlanInv => PlanExact
  <2> SUFFICES ASSUME RowsTyped, VehicleInv, PlanInv, plan = "exact", NEW t \in Type
               PROVE  Net(t) = Positive(Missing(t, Need[t]) - Coming(t))
    BY DEF PlanExact
  <2> DEFINE f == [r \in LiveOf(t) |-> req[r].net]
  <2>1. RowExact(t)
    BY DEF PlanInv
  <2>2. f \in [LiveOf(t) -> Nat] /\ \A r \in LiveOf(t) : f[r] = Lack(t)
    BY <2>1 DEF RowExact, LiveOf, Live, RowsTyped, ReqRow
  <2>3. Net(t) = Total(f)
    BY DEF Net
  <2> HIDE DEF f
  <2>4. CASE LiveOf(t) = {}
    <3>1. Total(f) = 0 /\ Lack(t) = 0
      BY <2>1, <2>2, <2>4, TotalZero DEF RowExact
    <3> QED
      BY <2>3, <3>1 DEF Lack
  <2>5. CASE LiveOf(t) # {}
    <3>1. PICK r \in LiveOf(t) : TRUE
      BY <2>5
    <3>2. LiveOf(t) = {r}
      BY <3>1 DEF VehicleInv, OneLive, LiveOf
    <3>3. IsFiniteSet(LiveOf(t))
      BY <3>2, FS_Singleton
    <3>4. \A y \in LiveOf(t) \ {r} : f[y] = 0
      BY <3>2
    <3>5. Total(f) = f[r]
      BY <2>2, <3>1, <3>3, <3>4, TotalSingle
    <3> QED
      BY <2>2, <2>3, <3>1, <3>5 DEF Lack
  <2> QED
    BY <2>4, <2>5
<1> QED
  BY <1>1, AlwaysPlanned, PTL
=============================================================================
