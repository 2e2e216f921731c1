------------------------------ MODULE MrpRuns ------------------------------
(***************************************************************************)
(* Material requirements planning (apps/industry/mrp.py): a planning run   *)
(* explodes the demand for ships through the recipes, nets every type once *)
(* against stock and what is being built, and keeps one live requirement   *)
(* per type; an officer fans a requirement out to a build job, which later *)
(* runs keep in step.  A run is a long sequence of short transactions:     *)
(* officers, builders and the demand go on under it, and it may die.       *)
(* One location; a build job is the only kind of vehicle.                  *)
(***************************************************************************)
EXTENDS Totals

CONSTANTS
    Type, Ships,   \* item types; those a fit asks for by the hull
    Level,         \* low-level code: the deepest place of a type in the recipes
    Uses,          \* units of a material in one unit of a product
    Built,         \* types it is cheaper to build than to buy
    Traded,        \* types whose stock moves by hauls, purchases and losses too
    Made,          \* types that officers fan out to jobs (bound); hulls are refused
    Job,           \* keys of build jobs
    Gen,           \* a type's requirements, one after the other
    Runner, Officer, None,
    MaxDemand, MaxStock,   \* bounds on a demand and on a stock balance
    MayOutlive     \* a live run may be taken for dead (no heartbeat in time)

ASSUME RecipeAssumption ==
    /\ Ships \subseteq Type /\ Built \subseteq Type /\ Traded \subseteq Type \ Ships
    /\ Made \subseteq Type \ Ships
    /\ IsFiniteSet(Type)
    /\ Level \in [Type -> Nat] /\ Uses \in [Type -> [Type -> Nat]]
    /\ \A t, u \in Type : Uses[t][u] > 0 => u \notin Ships /\ Level[u] > Level[t]
ASSUME KeyAssumption ==
    /\ None \notin Job \cup Gen \cup Runner \cup Type
    /\ Job \subseteq Nat /\ IsFiniteSet(Job) /\ Gen \subseteq Nat
    /\ MaxDemand \in Nat /\ MaxStock \in Nat /\ MayOutlive \in BOOLEAN

VARIABLES
    demand, stock,   \* units asked for and in stock, by type
    job,             \* BuildJob rows; NoJob once delivered or cancelled
    req,             \* NetRequirement rows; NoReq once closed
    running,         \* whose MrpRun row has status running
    mem,             \* what a runner's run holds in memory; Idle: no run
    desk,            \* the requirement an officer is fanning out
    plan,            \* history: "exact" while the world is as the last complete
                     \* run found it, "adjusted" if that run changed a vehicle
                     \* and no run has begun since
    since            \* history: the same of the time since a run's claim

world == <<demand, stock>>
vars == <<demand, stock, job, req, running, mem, desk, plan, since>>

Positive(n) == IF n > 0 THEN n ELSE 0
Lowest(S) == CHOOSE x \in S : \A y \in S : x <= y

NoJob == [state |-> "none", type |-> None, qty |-> 0, esi |-> FALSE]
NoReq == [state |-> "none", gross |-> 0, net |-> 0, job |-> None, diverged |-> FALSE]
NoRow == [pk |-> None, job |-> None, target |-> 0, diverged |-> FALSE]
Idle == [at |-> "idle", cells |-> [t \in Type |-> 0], lots |-> [j \in Job |-> NoJob],
         seen |-> [t \in Type |-> NoRow], done |-> {}]
Claimed == [Idle EXCEPT !.at = "claimed"]

\* BuildJob.is_active; a requirement's live statuses.
Active == {j \in Job : job[j] # NoJob}
\* Claimed; "queued" stands for blocked, too.
Underway == {"building", "built"}
Req == Type \X Gen
Live == {r \in Req : req[r] # NoReq}
TypeOf(r) == r[1]
LiveOf(t) == {r \in Live : TypeOf(r) = t}

Init ==
    /\ demand = [t \in Type |-> 0] /\ stock = [t \in Type |-> 0]
    /\ job = [j \in Job |-> NoJob] /\ req = [r \in Req |-> NoReq]
    /\ running = None /\ mem = [p \in Runner |-> Idle]
    /\ desk = [o \in Officer |-> None]
    /\ plan = "none" /\ since = [p \in Runner |-> "stale"]

\* Somebody else than a run changes what runs plan from.
Disturb == plan' = "none" /\ since' = [p \in Runner |-> "stale"]
\* Run p changes a vehicle: news for itself, a disturbance for all others.
Adjust(p) ==
    /\ plan' = "none"
    /\ since' = [q \in Runner |-> IF q = p /\ since[p] # "stale" THEN "adjusted" ELSE "stale"]
SameHistory == UNCHANGED <<plan, since>>

-----------------------------------------------------------------------------
(* A run                                                                   *)

\* Mutant: the row of a run that died is never taken over.
FreeIfEnded == running = None
\* A run is refused while another is running with a fresh heartbeat.
Free == running \in {q \in Runner : mem[q] # Idle} => MayOutlive

\* _claim_run: one transaction; a run without a heartbeat is marked failed.
ClaimRun(p) ==
    /\ mem[p] = Idle /\ Free
    /\ running' = p /\ mem' = [mem EXCEPT ![p] = Claimed]
    /\ since' = [since EXCEPT ![p] = "exact"]
    /\ plan' = (IF plan = "adjusted" THEN "none" ELSE plan)
    /\ UNCHANGED <<world, job, req, desk>>

\* Mutant: the materials of jobs already fanned out are not demanded.
NoCascade(t) == 0
\* Jobs whose materials are held to be gone: those the game knows, and those
\* marked as built - "inputs already burned", though the stock loses them only
\* when the job is delivered.
Drawn == {j \in Active : job[j].esi \/ job[j].state = "built"}
\* What the other jobs still have to draw of a type.
Cascade(t) == Total([j \in Job |-> IF j \in Active \ Drawn
                                   THEN Uses[job[j].type][t] * job[j].qty ELSE 0])

\* The demand, the lots under way and their materials, read once.
Intake(p) ==
    /\ mem[p].at = "claimed"
    /\ mem' = [mem EXCEPT ![p] = [Idle EXCEPT !.at = "planning", !.lots = job,
                 !.cells = [t \in Type |-> demand[t] + Cascade(t)]]]
    /\ UNCHANGED <<world, job, req, running, desk, plan, since>>

Visited(p) == {t \in Type : mem[p].seen[t] # NoRow} \cup mem[p].done
Pending(p) == {t \in Type : mem[p].cells[t] > 0} \ Visited(p)

Lots(m, t) == Total([j \in Job |-> IF m.lots[j].type = t THEN m.lots[j].qty ELSE 0])
\* Mutant: the guard against a plan that eats its own vehicle is missing.
NothingOwn(m, j, short) == 0
\* _own_vehicle_output: units of its own job a requirement was credited with,
\* lots being drawn by key.  A lot of the game's own job is not the vehicle's.
OwnOutput(m, j, short) ==
    IF j = None \/ m.lots[j].esi THEN 0
    ELSE AtMost(m.lots[j].qty, Positive(short - Total([k \in Job |->
             IF k < j /\ m.lots[k].type = m.lots[j].type THEN m.lots[k].qty ELSE 0])))

\* The live row of the type, or a new one.  Keys nobody holds are used again.
Unused(t) == {g \in Gen : /\ <<t, g>> \notin Live
                          /\ \A o \in Officer : desk[o] # <<t, g>>
                          /\ \A p \in Runner : mem[p].seen[t].pk # g}
GenFor(t) == Lowest(IF LiveOf(t) # {} THEN {r[2] : r \in LiveOf(t)} ELSE Unused(t))
\* What a closed row says is not kept.
Row(j, gross, net, diverged) ==
    IF j = None /\ net = 0 THEN NoReq
    ELSE [state |-> IF j = None THEN "open" ELSE "in_progress",
          gross |-> gross, net |-> net, job |-> j, diverged |-> diverged]

\* One cell of a wave: netted against stock (ships never are) and the lots
\* under way, written, and exploded into its materials when it is built.
WriteRow(p, t) ==
    LET m == mem[p]
        g == GenFor(t)  r == <<t, g>>
        gross == m.cells[t]
        short == gross - (IF t \in Ships THEN 0 ELSE AtMost(gross, stock[t]))
        net == short - AtMost(short, Lots(m, t))
        j == IF r \in Live THEN req[r].job ELSE None
        diverged == r \in Live /\ req[r].diverged
    IN
    /\ m.at = "planning" /\ t \in Pending(p)
    /\ \A u \in Pending(p) : Level[t] <= Level[u]
    /\ LiveOf(t) # {} \/ Unused(t) # {}
    /\ req' = [req EXCEPT ![r] = Row(j, gross, net, diverged)]
    /\ mem' = [mem EXCEPT ![p] = [m EXCEPT
                 !.cells = [u \in Type |-> @[u] + IF t \in Built THEN net * Uses[t][u] ELSE 0],
                 !.seen[t] = [pk |-> g, job |-> j, target |-> net + OwnOutput(m, j, short),
                              diverged |-> diverged]]]
    /\ UNCHANGED <<world, job, running, desk, plan, since>>

\* _reconcile_vehicles, after the waves, works on the rows as this run wrote
\* them: a finished job is let go, an unclaimed one resized, a claimed one
\* compared.
Unreconciled(p) == {t \in Type : mem[p].seen[t] # NoRow}
ReconcileRow(p, t) ==
    LET s == mem[p].seen[t]
        r == <<t, s.pk>>
        j == s.job
        over == j # None /\ j \notin Active
        flag == j \in Active /\ job[j].state \in Underway /\ job[j].qty # s.target
    IN
    /\ Pending(p) = {} /\ t \in Unreconciled(p)
    /\ \A u \in Unreconciled(p) : Level[t] <= Level[u]
    /\ mem' = [mem EXCEPT ![p] = [Idle EXCEPT !.at = "planning", !.done = mem[p].done \cup {t},
                                              !.seen = [mem[p].seen EXCEPT ![t] = NoRow]]]
    /\ req' = [req EXCEPT ![r].diverged = IF s.diverged # flag THEN flag ELSE @,
                          ![r].job = IF over THEN None ELSE @]
    /\ IF /\ j \in Active /\ job[j].state = "queued"
          /\ s.target > 0 /\ job[j].qty # s.target
       THEN job' = [job EXCEPT ![j].qty = s.target] /\ Adjust(p)
       ELSE UNCHANGED job /\ IF over THEN Adjust(p) ELSE SameHistory
    /\ UNCHANGED <<world, running, desk>>

\* _sweep_stale_rows: a live row the run did not come to has lost its demand.
Sweeping(p) == mem[p].at = "planning" /\ Pending(p) = {} /\ Unreconciled(p) = {}
Swept(r) == Row(req[r].job, 0, 0, req[r].diverged \/ req[r].job # None)
ToSweep(p) == {r \in Live : TypeOf(r) \notin Visited(p) /\ Swept(r) # req[r]}
SweepRow(p, r) ==
    /\ Sweeping(p) /\ r \in ToSweep(p)
    /\ req' = [req EXCEPT ![r] = Swept(r)]
    /\ UNCHANGED <<world, job, running, mem, desk, plan, since>>

\* run_mrp marks its row done, whatever was made of it meanwhile.
EndRun(p) ==
    /\ Sweeping(p) /\ ToSweep(p) = {}
    /\ running' = (IF running = p THEN None ELSE running)
    /\ mem' = [mem EXCEPT ![p] = Idle]
    /\ plan' = (IF since[p] = "stale" THEN plan ELSE since[p])
    /\ since' = [since EXCEPT ![p] = "stale"]
    /\ UNCHANGED <<world, job, req, desk>>

\* An exception marks the run failed; a worker that dies leaves it running.
FailRun(p) ==
    /\ mem[p] # Idle /\ mem' = [mem EXCEPT ![p] = Idle]
    /\ running' \in {running, None} /\ (running # p => running' = running)
    /\ since' = [since EXCEPT ![p] = "stale"]
    /\ UNCHANGED <<world, job, req, desk, plan>>

-----------------------------------------------------------------------------
(* Officers, builders and the world                                        *)

\* mrp_fan_out: the requirement is read and looked at, but for what it suggests to
\* do,
ReadRequirement(o, r) ==
    /\ desk[o] = None /\ r \in Live /\ TypeOf(r) \in Made
    /\ desk' = [desk EXCEPT ![o] = r]
    /\ UNCHANGED <<world, job, req, running, mem, plan, since>>

\* Mutant: the row is not read again under its lock.
UnlinkedAnyway(r) == TRUE
Unlinked(r) == req[r].job = None

\* Job keys are used again once nothing refers to them.
Vacant == {j \in Job \ Active : /\ \A r \in Req : req[r].job # j
                                /\ \A p \in Runner, t \in Type : mem[p].seen[t].job # j
                                /\ \A p \in Runner : mem[p].lots[j] = NoJob}

\* Mutant: a requirement met meanwhile gives a job of no units.
UnitsAsNet(r) == req[r].net
UnitsOf(r) == IF req[r].net > 0 THEN req[r].net ELSE 1

\* create_build_job_for_requirement: then locked and given a job.  At most one
\* row of a type may be live.
FanOut(o) ==
    LET r == desk[o]  j == Lowest(Vacant) IN
    /\ r # None /\ Vacant # {} /\ Unlinked(r)
    /\ LiveOf(TypeOf(r)) \subseteq {r}
    /\ job' = [job EXCEPT ![j] = [state |-> "queued", type |-> TypeOf(r),
                                  qty |-> UnitsOf(r), esi |-> FALSE]]
    /\ req' = [req EXCEPT ![r].job = j, ![r].state = "in_progress"]
    /\ desk' = [desk EXCEPT ![o] = None]
    /\ Disturb /\ UNCHANGED <<world, running, mem>>

\* It has one already, or another row of the type is the live one.
FanOutVain(o) ==
    LET r == desk[o] IN
    /\ r # None
    /\ ~Unlinked(r) \/ ~(LiveOf(TypeOf(r)) \subseteq {r})
    /\ desk' = [desk EXCEPT ![o] = None]
    /\ UNCHANGED <<world, job, req, running, mem, plan, since>>

ClaimJob(j) ==
    /\ job[j].state = "queued" /\ job' = [job EXCEPT ![j].state = "building"]
    /\ Disturb /\ UNCHANGED <<world, req, running, mem, desk>>
MarkBuilt(j) ==
    /\ job[j].state = "building" /\ job' = [job EXCEPT ![j].state = "built"]
    /\ Disturb /\ UNCHANGED <<world, req, running, mem, desk>>
CancelJob(j) ==
    /\ j \in Active /\ job' = [job EXCEPT ![j] = NoJob]
    /\ Disturb /\ UNCHANGED <<world, req, running, mem, desk>>
\* The job is linked to the game's own, which is counted from now on, or unlinked.
LinkJob(j) ==
    /\ job[j].state \in Underway /\ job' = [job EXCEPT ![j].esi = ~@]
    /\ Disturb /\ UNCHANGED <<world, req, running, mem, desk>>

\* The product enters the stock, the materials leave it as far as they are there.
DeliverJob(j) ==
    LET t == job[j].type IN
    /\ job[j].state \in Underway /\ stock[t] + job[j].qty <= MaxStock
    /\ job' = [job EXCEPT ![j] = NoJob]
    /\ stock' = [u \in Type |-> IF u = t THEN stock[u] + job[j].qty
                                ELSE Positive(stock[u] - Uses[t][u] * job[j].qty)]
    /\ Disturb /\ UNCHANGED <<demand, req, running, mem, desk>>

DemandMoves(t, n) ==
    /\ t \in Ships /\ n # demand[t] /\ demand' = [demand EXCEPT ![t] = n]
    /\ Disturb /\ UNCHANGED <<stock, job, req, running, mem, desk>>
StockMoves(t, n) ==
    /\ t \in Traded /\ n # stock[t] /\ stock' = [stock EXCEPT ![t] = n]
    /\ Disturb /\ UNCHANGED <<demand, job, req, running, mem, desk>>

RunStep(p) ==
    \/ Intake(p) \/ EndRun(p)
    \/ \E t \in Type : WriteRow(p, t) \/ ReconcileRow(p, t)
    \/ \E r \in Req : SweepRow(p, r)
\* Everything that runs do not do, and what interrupts them.
Interference ==
    \/ \E p \in Runner : FailRun(p)
    \/ \E o \in Officer : FanOut(o) \/ FanOutVain(o) \/ \E r \in Req : ReadRequirement(o, r)
    \/ \E j \in Job : \/ ClaimJob(j) \/ MarkBuilt(j) \/ CancelJob(j)
                     \/ LinkJob(j) \/ DeliverJob(j)
    \/ \E t \in Type :
          (\E n \in 0..MaxDemand : DemandMoves(t, n)) \/ (\E n \in 0..MaxStock : StockMoves(t, n))

Next == Interference \/ \E p \in Runner : ClaimRun(p) \/ RunStep(p)

\* A run that has begun goes on, and runs are started again and again.
Fairness == \A p \in Runner : WF_vars(RunStep(p)) /\ WF_vars(ClaimRun(p))
Spec == Init /\ [][Next]_vars
FairSpec == Spec /\ Fairness

-----------------------------------------------------------------------------
(* Properties                                                              *)

TypeOK ==
    /\ demand \in [Type -> Nat] /\ stock \in [Type -> Nat]
    /\ \A j \in Job : job[j] = NoJob \/ (job[j].type \in Type /\ job[j].qty \in Nat \ {0})
    /\ \A r \in Live : req[r].gross \in Nat /\ req[r].net \in Nat /\ req[r].job \in Job \cup {None}
    /\ running \in Runner \cup {None} /\ plan \in {"none", "exact", "adjusted"}
    /\ \A p \in Runner : mem[p].at \in {"idle", "claimed", "planning"}

\* What the recipes ask for, level by level: the demand, and the materials of
\* everything that is still to be built, in a job or not.
Missing(t, need) == Positive(need - (IF t \in Ships THEN 0 ELSE stock[t]))
InJobs(t, S) == Total([j \in Job |-> IF j \in S /\ job[j].type = t THEN job[j].qty ELSE 0])
Coming(t) == InJobs(t, Job)
\* What still has to draw materials: what is missing, if it is to be built, or in
\* jobs, but for the jobs that have drawn them.
ToDraw(t, need, drawn) ==
    (IF t \in Built /\ Missing(t, need) > Coming(t) THEN Missing(t, need) ELSE Coming(t))
        - InJobs(t, drawn)
Need[t \in Type] == demand[t] + Total([u \in Type |->
    IF Uses[u][t] > 0 THEN Uses[u][t] * ToDraw(u, Need[u], Drawn) ELSE 0])
Net(t) == Total([r \in LiveOf(t) |-> req[r].net])

\* Undisturbed, a complete run leaves every type's net requirement at what the
\* recipes ask for less what is in stock and in jobs: nothing is counted twice
\* and nothing is forgotten - the materials of built jobs taken for used up, as the
\* run takes them -, however jobs were fanned out, resized, built, cancelled
\* or delivered between and during earlier runs, and whatever runs died.
PlanExact == plan = "exact" => \A t \in Type : Net(t) = Positive(Missing(t, Need[t]) - Coming(t))

\* The same with jobs marked as built still to draw: until their delivery takes
\* "the inputs this build consumed" (erp/services.py:230) off the stock, the stock
\* shows them, and a run counts on them for something else.
Linked == {j \in Active : job[j].esi}
BookNeed[t \in Type] == demand[t] + Total([u \in Type |->
    IF Uses[u][t] > 0 THEN Uses[u][t] * ToDraw(u, BookNeed[u], Linked) ELSE 0])
BuiltMaterialsKept ==
    plan = "exact" => \A t \in Type : Net(t) = Positive(Missing(t, BookNeed[t]) - Coming(t))

\* Undisturbed, a complete run leaves an unclaimed job at what its requirement
\* is short of, and marks a claimed one as diverged exactly when it differs: the
\* plan does not eat its own vehicle (_own_vehicle_output).
Short(r) == Positive(req[r].gross - stock[TypeOf(r)])
Fits(r) ==
    LET j == req[r].job IN
    /\ (job[j].state = "queued" /\ Short(r) > 0) => job[j].qty = Short(r)
    /\ job[j].state \in Underway => (req[r].diverged <=> job[j].qty # Short(r))
Vehicles(esi) == {r \in Live : req[r].job \in Active /\ job[req[r].job].esi = esi}
VehiclesFit == plan # "none" => \A r \in Vehicles(FALSE) : Fits(r)

\* "The vehicle TARGET must exclude" its own output (industry/mrp.py:1014): so
\* with a job that is linked to the game's own.
LinkedVehiclesFit == plan # "none" => \A r \in Vehicles(TRUE) : Fits(r)

\* A requirement never has two jobs under way: re-clicks, officers at once and
\* runs that let jobs go do not mint a second one.
OneVehicle == \A t \in Type : Cardinality({j \in Active : job[j].type = t}) <= 1

\* Runs converge: unless the world keeps changing, the plan gets exact, runs
\* that died notwithstanding.
Converges == []<><<Interference>>_vars \/ <>(plan = "exact")

\* "an unchanged world re-runs to zero row writes" (industry/mrp.py:28): no new
\* requirement is written for a type while the plan is exact.
RerunCreatesNothing ==
    [][\A p \in Runner, t \in Type :
          (plan = "exact" /\ mem[p].seen[t] = NoRow /\ mem'[p].seen[t] # NoRow)
              => LiveOf(t) # {}]_vars
=============================================================================
