--------------------------- MODULE ProductionFloor ---------------------------
(***************************************************************************)
(* The production board: build jobs, the industry plans they come from and *)
(* the claims (StockReservation) plans hold on the corporation's stock of  *)
(* a material (apps/erp/services.py, apps/industry/services.py and         *)
(* jobs_bridge.py, apps/stockpile/services.py).                            *)
(*                                                                         *)
(* A process is a web worker running one request.  What a view reads       *)
(* before a lock is one step, what it writes is another.  A delivery and a *)
(* reservation hold the row locks of the job and of the plan from the step *)
(* that reads under them to the step that commits; the locks on stock rows *)
(* are taken and released inside the commit.                               *)
(*                                                                         *)
(* Building one unit takes one unit of one material.                       *)
(***************************************************************************)
EXTENDS Totals

CONSTANTS
    Plan,       \* industry plans
    Line,       \* primary keys of the BUILD lines of the plans
    PlanOf,     \* the plan of a line
    Size,       \* quantity of a line
    Row,        \* primary keys of the stock rows of the material, first in first out
    Job,        \* primary keys of build jobs
    Claim,      \* primary keys of stock reservations
    User,       \* pilots
    Officer,    \* those of them who are officers
    Underway,   \* the lines of the jobs in progress as the model begins, by job key
    Op,         \* bound: the requests the workers serve
    Proc,       \* workers
    Nobody,     \* no user, no worker, no line
    MaxUnits,   \* bound: units of a stock row and of a job
    CanCrash    \* whether a worker may die between two of its steps

ASSUME LineAssumption == /\ PlanOf \in [Line -> Plan] /\ Size \in [Line -> 1..MaxUnits]
ASSUME KeyAssumption == \A K \in {Line, Row, Job, Claim} :
                           IsFiniteSet(K) /\ K = 1..Cardinality(K)
ASSUME StartAssumption == /\ DOMAIN Underway = 1..Cardinality(DOMAIN Underway)
                          /\ DOMAIN Underway \subseteq Job
                          /\ \A j \in DOMAIN Underway : Underway[j] \in Line
ASSUME UserAssumption == Officer \subseteq User /\ Nobody \notin User \cup Proc \cup Line
ASSUME LimitAssumption == MaxUnits \in Nat /\ CanCrash \in BOOLEAN

Startable == {"queued", "blocked"}
Finished == {"delivered", "cancelled"}
JobStatus == Startable \cup {"building", "built"} \cup Finished
Closed == {"done", "cancelled"}
PlanStatus == {"draft", "active"} \cup Closed   \* active stands for blocked too

VARIABLES
    job,        \* BuildJob rows: status, owner, created_by, source_item, quantity
    deliveries, \* number of Delivery rows of a job
    plan,       \* IndustryProject.status
    archived,   \* IndustryProject.is_archived
    stock,      \* StockpileItem.quantity_current
    claims,     \* StockReservation rows that are ACTIVE; Gone once they are not
    jobLock, planLock,  \* which worker's transaction holds the row lock
    pc, req     \* a worker's step and request

board == <<job, deliveries>>
plans == <<plan, archived>>
goods == <<stock, claims>>
locks == <<jobLock, planLock>>
vars == <<job, deliveries, plan, archived, stock, claims, jobLock, planLock, pc, req>>

JobRow == [status : JobStatus, owner : User \cup {Nobody}, by : User,
           line : Line \cup {Nobody}, qty : 1..MaxUnits]
ClaimRow == [state : {"active"}, plan : Plan, row : Row, qty : Nat \ {0}]
NoJob == [status |-> "none", owner |-> Nobody, by |-> Nobody, line |-> Nobody, qty |-> 0]
Unused == [state |-> "unused"]
Gone == [state |-> "gone"]
Active(p, r, q) == [state |-> "active", plan |-> p, row |-> r, qty |-> q]

-----------------------------------------------------------------------------
(* Derived quantities                                                      *)

Jobs == {j \in Job : job[j].status # "none"}
Live == {c \in Claim : claims[c].state = "active"}
Own(p) == {c \in Live : claims[c].plan = p}
Sum(cs) == Total([c \in cs |-> claims[c].qty])
Held(p) == Sum(Own(p))
Claimed(r) == Sum({c \in Live : claims[c].row = r})

\* available: what the rows hold less every ACTIVE claim, never below zero.
Available == AtLeast(Total(stock) - Sum(Live), 0)

\* Materials of a plan's lines, summed.
Lines(p) == {l \in Line : PlanOf[l] = p}
Bom(p) == Total([l \in Lines(p) |-> Size[l]])

\* Keys are handed out in increasing order: the nth new row takes the nth
\* key after those in use.
UsedKeys == Cardinality({c \in Claim : claims[c] # Unused})
Rank(x, s) == Cardinality({y \in s : y <= x})

DeliveredLines == {job[j].line : j \in {i \in Job : job[i].status = "delivered"}}
Taken(l) == \E j \in Jobs : job[j].line = l /\ job[j].status # "cancelled"

-----------------------------------------------------------------------------
(* Requests                                                                *)

RecheckReq == [op : {"board", "create", "claim"}, job : Job, user : User,
               seen : JobStatus, qty : 1..MaxUnits]
SetReq == [op : {"status", "cancel"}, job : Job, user : User, to : JobStatus]
EditReq == [op : {"edit"}, job : Job, user : User, qty : 1..MaxUnits]
DeliverReq == [op : {"deliver"}, job : Job, user : User, last : BOOLEAN]
PushReq == [op : {"push"}, plan : Plan, user : User, seen : PlanStatus, lines : SUBSET Line]
LeadReq == [op : {"lead"}, plan : Plan, seen : PlanStatus]
ReserveReq == [op : {"reserve"}, plan : Plan]
ReleaseReq == [op : {"release", "setplan", "archive"}, plan : Plan,
               to : PlanStatus \cup {"archived", "restored", "same"}, ids : SUBSET Claim]
NoReq == [op |-> "none"]
Request == RecheckReq \cup SetReq \cup EditReq \cup DeliverReq \cup PushReq
             \cup LeadReq \cup ReserveReq \cup ReleaseReq \cup {NoReq}
Step == {"idle", "recheck", "claim", "set", "edit", "lock", "deliver", "read", "push",
         "lead", "save", "lockplan", "reserve", "list", "release"}

Goto(p, step) == pc' = [pc EXCEPT ![p] = step]
Done(p) == Goto(p, "idle") /\ req' = [req EXCEPT ![p] = NoReq]
Keep(p, step, request) == Goto(p, step) /\ req' = [req EXCEPT ![p] = request]
Begin(p, step, request) ==
    /\ pc[p] = "idle"
    /\ request.op \in Op
    /\ Keep(p, step, request)
    /\ UNCHANGED <<board, plans, goods, locks>>

\* Mutant: the job row is written without waiting for its lock.
JobFreeAlways(j) == TRUE
JobFree(j) == jobLock[j] = Nobody
\* Mutant: the plan row is written and read without waiting for its lock.
PlanFreeAlways(pl) == TRUE
PlanFree(pl) == planLock[pl] = Nobody

Init ==
    /\ \E u \in User : job = [j \in Job |->
           IF j \in DOMAIN Underway
           THEN [status |-> "building", owner |-> u, by |-> u,
                 line |-> Underway[j], qty |-> Size[Underway[j]]]
           ELSE NoJob]
    /\ deliveries = [j \in Job |-> 0]
    /\ plan \in [Plan -> {"draft", "active"}]
    /\ archived = [pl \in Plan |-> FALSE]
    /\ stock \in [Row -> 0..MaxUnits]
    /\ claims = [c \in Claim |-> Unused]
    /\ jobLock = [j \in Job |-> Nobody]
    /\ planLock = [pl \in Plan |-> Nobody]
    /\ pc = [p \in Proc |-> "idle"]
    /\ req = [p \in Proc |-> NoReq]

-----------------------------------------------------------------------------
(* Jobs: queued, blocked, claimed, built, cancelled                        *)

\* recheck_block's verdict on a job of q units: every ACTIVE claim counts
\* against it, those of the job's own plan included.
Verdict(q) == IF Available < q THEN "blocked" ELSE "queued"

\* board and job_tracker list the unclaimed jobs, then recheck each.
StartBoard(p) ==
    \E j \in Jobs, u \in User :
        /\ job[j].status \in Startable
        /\ job[j].owner = Nobody
        /\ Begin(p, "recheck", [op |-> "board", job |-> j, user |-> u,
                                seen |-> job[j].status, qty |-> job[j].qty])

\* create_job: the insert commits, then the new job is rechecked.
StartCreate(p) ==
    \E u \in Officer, q \in 1..MaxUnits : \E j \in Job :
        /\ pc[p] = "idle"
        /\ "create" \in Op
        /\ j = Cardinality(Jobs) + 1
        /\ job' = [job EXCEPT ![j] = [status |-> "queued", owner |-> Nobody, by |-> u,
                                      line |-> Nobody, qty |-> q]]
        /\ Keep(p, "recheck", [op |-> "create", job |-> j, user |-> u,
                               seen |-> "queued", qty |-> q])
        /\ UNCHANGED <<deliveries, plans, goods, locks>>

\* The claim view reads the job and rechecks it before it claims it.
StartClaim(p) ==
    \E j \in Jobs, u \in User :
        Begin(p, "recheck", [op |-> "claim", job |-> j, user |-> u,
                             seen |-> job[j].status, qty |-> job[j].qty])

\* recheck_block writes the status with no lock and no look at the row, when the
\* verdict differs from the status read, or when a blocked job's list of short
\* materials has changed.
Recheck(p) ==
    /\ pc[p] = "recheck"
    /\ LET j == req[p].job
           seen == req[p].seen
           verdict == IF seen \in Startable THEN Verdict(req[p].qty) ELSE seen
       IN  /\ \/ verdict = seen /\ UNCHANGED job
              \/ /\ verdict # seen \/ seen = "blocked"
                 /\ JobFree(j)
                 /\ job' = [job EXCEPT ![j].status = verdict]
           /\ IF req[p].op = "claim" /\ verdict # "blocked"
              THEN Goto(p, "claim") /\ UNCHANGED req
              ELSE Done(p)
    /\ UNCHANGED <<deliveries, plans, goods, locks>>

\* Mutant: a queued job is anyone's to claim.
ClaimableQueued(j) == job[j].status = "queued"
\* claim: only an unowned queued job, under its row lock.
Claimable(j) == job[j].owner = Nobody /\ job[j].status = "queued"
ClaimJob(p) ==
    /\ pc[p] = "claim"
    /\ LET j == req[p].job
       IN  /\ JobFree(j)
           /\ job' = IF Claimable(j)
                     THEN [job EXCEPT ![j].owner = req[p].user, ![j].status = "building"]
                     ELSE job
    /\ Done(p)
    /\ UNCHANGED <<deliveries, plans, goods, locks>>

Allowed == [queued |-> {"blocked", "building", "cancelled"},
            blocked |-> {"queued", "building", "cancelled"},
            building |-> {"built", "cancelled"},
            built |-> {"cancelled"}, delivered |-> {}, cancelled |-> {}]

Acts(u, j) == u \in Officer \/ job[j].owner = u
Manages(u, j) == Acts(u, j) \/ (job[j].by = u /\ job[j].owner = Nobody)

\* update_status: the owner or an officer; only an officer cancels this way.
StartStatus(p) ==
    \E j \in Jobs, u \in User, to \in JobStatus :
        /\ Acts(u, j)
        /\ to = "cancelled" => u \in Officer
        /\ Begin(p, "set", [op |-> "status", job |-> j, user |-> u, to |-> to])

\* cancel_job: also the creator of a job that is unclaimed when it is read.
StartCancel(p) ==
    \E j \in Jobs, u \in User :
        /\ Manages(u, j)
        /\ job[j].status \notin Finished
        /\ Begin(p, "set", [op |-> "cancel", job |-> j, user |-> u, to |-> "cancelled"])

\* set_status: the transition is checked under the row lock, the actor is not.
SetStatus(p) ==
    /\ pc[p] = "set"
    /\ LET j == req[p].job
       IN  /\ JobFree(j)
           /\ job' = IF req[p].to \in Allowed[job[j].status]
                     THEN [job EXCEPT ![j].status = req[p].to]
                     ELSE job
    /\ Done(p)
    /\ UNCHANGED <<deliveries, plans, goods, locks>>

StartEdit(p) ==
    \E j \in Jobs, u \in User, q \in 1..MaxUnits :
        /\ Manages(u, j)
        /\ job[j].status \in Startable
        /\ Begin(p, "edit", [op |-> "edit", job |-> j, user |-> u, qty |-> q])

\* update_quantity: the new quantity and the recheck, both under the row lock.
Editable(j) == job[j].status \in Startable
Edit(p) ==
    /\ pc[p] = "edit"
    /\ LET j == req[p].job
           q == req[p].qty
       IN  /\ JobFree(j)
           /\ job' = IF Editable(j)
                     THEN [job EXCEPT ![j].qty = q, ![j].status = Verdict(q)]
                     ELSE job
    /\ Done(p)
    /\ UNCHANGED <<deliveries, plans, goods, locks>>

-----------------------------------------------------------------------------
(* Deliveries                                                              *)

MaxDeliveries == 2   \* bound: deliveries of a job when another is begun

StartDeliver(p) ==
    \E j \in Jobs, u \in User :
        /\ Acts(u, j)
        /\ deliveries[j] < MaxDeliveries
        /\ Begin(p, "lock", [op |-> "deliver", job |-> j, user |-> u, last |-> FALSE])

Deliverable(j) == job[j].status \in {"building", "built"}
PlanLine(j) == job[j].line # Nobody
PlanAt(j) == PlanOf[job[j].line]

\* deliver, up to its last lock: the job is re-read under its lock, then the
\* plan is locked and its delivered lines counted with this one.
RefuseDelivery(p) ==
    /\ pc[p] = "lock"
    /\ JobFree(req[p].job)
    /\ ~Deliverable(req[p].job)
    /\ Done(p)
    /\ UNCHANGED <<board, plans, goods, locks>>

LastLine(j) ==
    /\ PlanLine(j)
    /\ plan[PlanAt(j)] \notin Closed
    /\ Lines(PlanAt(j)) \subseteq DeliveredLines \cup {job[j].line}

LockDelivery(p) ==
    /\ pc[p] = "lock"
    /\ LET j == req[p].job
       IN  /\ JobFree(j)
           /\ Deliverable(j)
           /\ jobLock' = [jobLock EXCEPT ![j] = p]
           /\ IF PlanLine(j)
              THEN PlanFree(PlanAt(j)) /\ planLock' = [planLock EXCEPT ![PlanAt(j)] = p]
              ELSE UNCHANGED planLock
           /\ Keep(p, "deliver", [req[p] EXCEPT !.last = LastLine(j)])
    /\ UNCHANGED <<board, plans, goods>>

\* What a delivery takes off its plan's claims, oldest first: each as far as the
\* need, the claim and the stock of its row still go.
Least(a, b, c) == AtMost(AtMost(a, b), c)
OwnTakes(cs, q) ==
    {t \in [cs -> 0..q] : \A c \in cs :
        LET before == {d \in cs : d < c}
            sameRow == {d \in before : claims[d].row = claims[c].row}
        IN  t[c] = Least(claims[c].qty, q - Total([d \in before |-> t[d]]),
                         stock[claims[c].row] - Total([d \in sameRow |-> t[d]]))}
OffRow(t, r) == Total([c \in {d \in DOMAIN t : claims[d].row = r} |-> t[c]])

\* Mutants: claims are not respected; nor is what the row holds.
StockUnits(r) == stock[r]
AnyUnits(r) == MaxUnits
\* Units of a row no ACTIVE claim covers; consuming a claim leaves them as they are.
FreeUnits(r) == AtLeast(stock[r] - Claimed(r), 0)

\* The rest comes off the free units, biggest rows first.
FreeTakes(left, q) ==
    {g \in [Row -> 0..q] :
        /\ \A r \in Row : g[r] <= FreeUnits(r)
        /\ Total(g) = AtMost(q, Total([r \in Row |-> FreeUnits(r)]))
        /\ \A r, s \in Row :
              /\ left[r] > left[s] \/ (left[r] = left[s] /\ r < s)
              /\ g[s] > 0
              => g[r] = FreeUnits(r)}

\* The claims after a delivery took t off them: what a claim was not needed for
\* stays as a claim of its own.
Split(t) == {c \in DOMAIN t : t[c] > 0 /\ t[c] < claims[c].qty}
Consumed(t) ==
    [c \in Claim |->
        IF c \in DOMAIN t /\ t[c] > 0 THEN Gone
        ELSE IF \E d \in Split(t) : c = UsedKeys + Rank(d, Split(t))
        THEN LET d == CHOOSE x \in Split(t) : c = UsedKeys + Rank(x, Split(t))
             IN  Active(claims[d].plan, claims[d].row, claims[d].qty - t[d])
        ELSE claims[c]]
Released(cs, ids) ==
    [c \in Claim |-> IF c \in ids /\ cs[c].state = "active" THEN Gone ELSE cs[c]]

\* Mutant: the claims to release are listed before the consumption splits one.
OwnAtFirst(cs, pl) == Own(pl)
\* The ids a closing delivery releases: every claim its plan holds by then.
StillOwn(cs, pl) == {c \in Claim : cs[c].state = "active" /\ cs[c].plan = pl}

\* deliver: consume the materials, mark the job, record the delivery, and close
\* the plan with its last line.
Deliver(p) ==
    /\ pc[p] = "deliver"
    /\ LET j == req[p].job
           mine == IF PlanLine(j) THEN Own(PlanAt(j)) ELSE {}
       IN  /\ \E t \in OwnTakes(mine, job[j].qty) :
              LET left == [r \in Row |-> stock[r] - OffRow(t, r)]
              IN  /\ UsedKeys + Cardinality(Split(t)) <= Cardinality(Claim)
                  /\ \E g \in FreeTakes(left, job[j].qty - Total(t)) :
                        stock' = [r \in Row |-> left[r] - g[r]]
                  /\ claims' = IF req[p].last
                               THEN Released(Consumed(t), StillOwn(Consumed(t), PlanAt(j)))
                               ELSE Consumed(t)
           /\ plan' = IF req[p].last THEN [plan EXCEPT ![PlanAt(j)] = "done"] ELSE plan
           /\ job' = [job EXCEPT ![j].status = "delivered"]
           /\ deliveries' = [deliveries EXCEPT ![j] = @ + 1]
           /\ jobLock' = [jobLock EXCEPT ![j] = Nobody]
           /\ planLock' = [k \in Plan |-> IF planLock[k] = p THEN Nobody ELSE planLock[k]]
    /\ Done(p)
    /\ UNCHANGED archived

-----------------------------------------------------------------------------
(* Plans: pushing to the board, status, archive, claims on stock           *)

\* project_push_jobs: the view refuses a closed or archived plan it has read.
StartPush(p) ==
    \E pl \in Plan, u \in User :
        /\ plan[pl] \notin Closed /\ ~archived[pl]
        /\ Begin(p, "read", [op |-> "push", plan |-> pl, user |-> u,
                             seen |-> plan[pl], lines |-> {}])

\* push_project_to_jobs reads which lines have no job yet, with no lock.
ReadLines(p) ==
    /\ pc[p] = "read"
    /\ Keep(p, "push", [req[p] EXCEPT !.lines = {l \in Lines(req[p].plan) : ~Taken(l)}])
    /\ UNCHANGED <<board, plans, goods, locks>>

\* It creates a job for each, rechecked, and activates a plan it read as draft.
Push(p) ==
    /\ pc[p] = "push"
    /\ LET pl == req[p].plan
           lines == req[p].lines
           key(l) == Cardinality(Jobs) + Rank(l, lines)
           activates == lines # {} /\ req[p].seen = "draft"
       IN  /\ Cardinality(Jobs) + Cardinality(lines) <= Cardinality(Job)
           /\ job' = [j \in Job |->
                 IF \E l \in lines : j = key(l)
                 THEN LET l == CHOOSE k \in lines : j = key(k)
                      IN  [status |-> Verdict(Size[l]), owner |-> Nobody,
                           by |-> req[p].user, line |-> l, qty |-> Size[l]]
                 ELSE job[j]]
           /\ activates => PlanFree(pl)
           /\ plan' = IF activates THEN [plan EXCEPT ![pl] = "active"] ELSE plan
    /\ Done(p)
    /\ UNCHANGED <<deliveries, archived, goods, locks>>

\* project_claim: the status is read, then saved with the new lead.
StartLead(p) ==
    \E pl \in Plan : Begin(p, "lead", [op |-> "lead", plan |-> pl, seen |-> plan[pl]])
Lead(p) ==
    /\ pc[p] = "lead"
    /\ LET pl == req[p].plan
       IN  /\ PlanFree(pl)
           /\ plan' = [plan EXCEPT ![pl] = IF req[p].seen = "draft" THEN "active"
                                           ELSE req[p].seen]
    /\ Done(p)
    /\ UNCHANGED <<board, archived, goods, locks>>

\* project_status and project_archive save, then release in a second transaction.
StartSetPlan(p) ==
    \E pl \in Plan, to \in PlanStatus :
        Begin(p, "save", [op |-> "setplan", plan |-> pl, to |-> to, ids |-> {}])
StartArchive(p) ==
    \E pl \in Plan, to \in {"archived", "restored"} :
        Begin(p, "save", [op |-> "archive", plan |-> pl, to |-> to, ids |-> {}])
SavePlan(p) ==
    /\ pc[p] = "save"
    /\ LET pl == req[p].plan
           to == req[p].to
       IN  /\ PlanFree(pl)
           /\ IF req[p].op = "archive"
              THEN /\ archived' = [archived EXCEPT ![pl] = (to = "archived")]
                   /\ UNCHANGED plan
              ELSE /\ plan' = [plan EXCEPT ![pl] = to]
                   /\ UNCHANGED archived
           /\ IF to \in Closed \cup {"archived"} THEN Goto(p, "list") /\ UNCHANGED req
              ELSE Done(p)
    /\ UNCHANGED <<board, goods, locks>>

StartRelease(p) ==
    \E pl \in Plan :
        Begin(p, "list", [op |-> "release", plan |-> pl, to |-> "same", ids |-> {}])

\* release_project_stock: the statement's snapshot finds the ACTIVE claims; a
\* claim another transaction has consumed by the time it is locked is skipped.
ListClaims(p) ==
    /\ pc[p] = "list"
    /\ Keep(p, "release", [req[p] EXCEPT !.ids = Own(req[p].plan)])
    /\ UNCHANGED <<board, plans, goods, locks>>
Release(p) ==
    /\ pc[p] = "release"
    /\ claims' = Released(claims, req[p].ids)
    /\ Done(p)
    /\ UNCHANGED <<board, plans, stock, locks>>

\* reserve_project_stock: the plan is locked first; a closed one reserves nothing.
StartReserve(p) ==
    \E pl \in Plan : Begin(p, "lockplan", [op |-> "reserve", plan |-> pl])
Reservable(pl) == plan[pl] \notin Closed /\ ~archived[pl]
RefuseReserve(p) ==
    /\ pc[p] = "lockplan"
    /\ PlanFree(req[p].plan)
    /\ ~Reservable(req[p].plan)
    /\ Done(p)
    /\ UNCHANGED <<board, plans, goods, locks>>
LockPlan(p) ==
    /\ pc[p] = "lockplan"
    /\ PlanFree(req[p].plan)
    /\ Reservable(req[p].plan)
    /\ planLock' = [planLock EXCEPT ![req[p].plan] = p]
    /\ Goto(p, "reserve")
    /\ UNCHANGED <<board, plans, goods, jobLock, req>>

\* Mutant: a second Reserve asks for the whole demand again.
NetOfNothing(pl) == AtMost(Bom(pl), Available)
\* The demand is netted against what the plan already holds, and capped.
Net(pl) == AtLeast(AtMost(Bom(pl) - Held(pl), Available), 0)
\* reserve_for_project_bulk: free units of the rows, first in first out.
Reserve(p) ==
    /\ pc[p] = "reserve"
    /\ LET pl == req[p].plan
       IN  \E g \in [Row -> 0..Net(pl)] :
             LET rows == {r \in Row : g[r] > 0}
                 key(r) == UsedKeys + Rank(r, rows)
             IN  /\ \A r \in Row : g[r] <= FreeUnits(r)
                 /\ Total(g) = AtMost(Net(pl), Total([r \in Row |-> FreeUnits(r)]))
                 /\ \A r, s \in Row : r < s /\ g[s] > 0 => g[r] = FreeUnits(r)
                 /\ UsedKeys + Cardinality(rows) <= Cardinality(Claim)
                 /\ claims' = [c \in Claim |->
                       IF \E r \in rows : c = key(r)
                       THEN LET r == CHOOSE x \in rows : c = key(x) IN Active(pl, r, g[r])
                       ELSE claims[c]]
    /\ planLock' = [planLock EXCEPT ![req[p].plan] = Nobody]
    /\ Done(p)
    /\ UNCHANGED <<board, plans, stock, jobLock>>

\* record_manual_stock: a pilot's count, whatever is claimed.
Recount ==
    /\ "recount" \in Op
    /\ \E r \in Row, q \in 0..MaxUnits : stock' = [stock EXCEPT ![r] = q]
    /\ UNCHANGED <<board, plans, claims, locks, pc, req>>

\* A worker dies: its open transaction is rolled back.
Crash(p) ==
    /\ CanCrash
    /\ pc[p] # "idle"
    /\ Done(p)
    /\ jobLock' = [j \in Job |-> IF jobLock[j] = p THEN Nobody ELSE jobLock[j]]
    /\ planLock' = [k \in Plan |-> IF planLock[k] = p THEN Nobody ELSE planLock[k]]
    /\ UNCHANGED <<board, plans, goods>>

-----------------------------------------------------------------------------
JobStep(p) ==
    \/ StartBoard(p) \/ StartCreate(p) \/ StartClaim(p) \/ Recheck(p) \/ ClaimJob(p)
    \/ StartStatus(p) \/ StartCancel(p) \/ SetStatus(p) \/ StartEdit(p) \/ Edit(p)
    \/ StartDeliver(p) \/ RefuseDelivery(p) \/ LockDelivery(p) \/ Deliver(p)
PlanStep(p) ==
    \/ StartPush(p) \/ ReadLines(p) \/ Push(p) \/ StartLead(p) \/ Lead(p)
    \/ StartSetPlan(p) \/ StartArchive(p) \/ SavePlan(p)
    \/ StartRelease(p) \/ ListClaims(p) \/ Release(p)
    \/ StartReserve(p) \/ RefuseReserve(p) \/ LockPlan(p) \/ Reserve(p)
Next == Recount \/ \E p \in Proc : JobStep(p) \/ PlanStep(p) \/ Crash(p)
Spec == Init /\ [][Next]_vars

-----------------------------------------------------------------------------
(* Properties                                                              *)

\* Every table, lock and worker has its type.
StoreType ==
    /\ job \in [Job -> {NoJob} \cup JobRow]
    /\ deliveries \in [Job -> Nat]
    /\ plan \in [Plan -> PlanStatus]
    /\ archived \in [Plan -> BOOLEAN]
    /\ stock \in [Row -> 0..MaxUnits]
    /\ claims \in [Claim -> {Unused, Gone} \cup ClaimRow]
WorkerType ==
    /\ jobLock \in [Job -> Proc \cup {Nobody}]
    /\ planLock \in [Plan -> Proc \cup {Nobody}]
    /\ pc \in [Proc -> Step]
    /\ req \in [Proc -> Request]
TypeOK == StoreType /\ WorkerType

\* Racing reserve requests never claim more for a plan than its lines need
\* (reserve_project_stock, "the loser reserves nothing new").
ClaimsWithinBom == \A pl \in Plan : Held(pl) <= Bom(pl)

\* Only a stocktake leaves a row short of the claims on it: no reservation
\* promises units twice and no delivery eats units another plan reserved.
OnlyStocktakeShorts ==
    [][\A r \in Row :
          Claimed(r) <= stock[r] /\ Claimed(r)' > stock'[r] =>
              UNCHANGED <<claims, deliveries>>]_vars

\* The delivery of a plan's last line closes the plan, however the deliveries of
\* its lines interleave: none is stranded in ACTIVE with nothing left to build.
LastDeliveryCloses ==
    [][\A pl \in Plan :
          /\ \E j \in Job : /\ job[j].line \in Lines(pl)
                            /\ deliveries'[j] > deliveries[j]
          /\ Lines(pl) \subseteq DeliveredLines'
          => plan'[pl] \in Closed]_vars

\* A plan a delivery has just closed holds no claims, whichever of them the
\* delivery consumed, split or left.
DoneHoldsNothing ==
    [][\A pl \in Plan :
          plan[pl] # "done" /\ plan'[pl] = "done" /\ deliveries' # deliveries
              => Held(pl)' = 0]_vars

\* No request claims more stock for a plan that is closed or archived, even one
\* that read the plan while it was open.
ClosedGainsNothing ==
    [][\A pl \in Plan :
          ~Reservable(pl) /\ ~Reservable(pl)' => Held(pl)' <= Held(pl)]_vars

\* A job keeps the pilot whose claim was granted, whatever others read before
\* their own claim of it and whatever a recheck writes over its status.
OwnerKeeps ==
    [][\A j \in Job : job[j].owner # Nobody => job'[j].owner = job[j].owner]_vars

\* A job that has left the board returns to it, and a finished job changes at all,
\* only when a recheck writes a verdict on what it read while the job was on the
\* board: no edit, claim, new status or delivery overtaken by others reopens one.
OnlyRechecksReopen ==
    [][\A j \in Jobs :
          /\ job[j].status \notin Startable
          /\ job'[j].status # job[j].status
          /\ job[j].status \in Finished \/ job'[j].status \in Startable
          => \E p \in Proc : /\ pc[p] = "recheck" /\ pc'[p] # "recheck"
                            /\ req[p].job = j /\ req[p].seen \in Startable]_vars

-----------------------------------------------------------------------------
(* What the code says of itself                                            *)

\* "Only touches QUEUED/BLOCKED jobs - never an in-progress, built, delivered or
\* cancelled one"; "Terminal states can't be moved out of" (erp/services.py).
FinishedStays ==
    [][\A j \in Job : job[j].status \in Finished => job'[j].status = job[j].status]_vars

\* "a job that another pilot claims mid-edit can't have its quantity rewritten"
\* (update_quantity, erp/services.py): a pilot builds the quantity claimed.
ClaimedQuantityHolds ==
    [][\A j \in Job : job[j].owner # Nobody => job'[j].qty = job[j].qty]_vars

\* "re-pushing a plan won't duplicate a job for a line that still has one open (or
\* already delivered)" (industry/jobs_bridge.py).
OneJobPerLine ==
    \A i, j \in Jobs :
        /\ job[i].line = job[j].line /\ job[i].line # Nobody
        /\ "cancelled" \notin {job[i].status, job[j].status}
        => i = j

\* "a closed plan holds no ACTIVE reservations" (industry/views.py), once every
\* request has been answered.
ClosedHoldsNothing ==
    (\A p \in Proc : pc[p] = "idle") =>
        \A pl \in Plan : plan[pl] \in Closed => Held(pl) = 0

\* "flagged BLOCKED" is for a queued job "that can't start because corp stock is
\* short" (erp/services.py); a claim means "don't let others take what my BOM
\* needs from stock" (industry/services.py): a plan's own claims never block it.
OwnClaimsDontBlock ==
    [][\A j \in Jobs :
          job[j].status = "queued" /\ job'[j].status = "blocked" /\ PlanLine(j)
              => Held(PlanAt(j)) < job[j].qty]_vars
=============================================================================
