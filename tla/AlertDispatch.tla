--------------------------- MODULE AlertDispatch ---------------------------
(***************************************************************************)
(* The delivery of an alert (apps/pingboard): the dispatcher that walks    *)
(* its channels, the tasks and the two sweeps that start it, and the       *)
(* officers' requests.  No row is locked and no transaction spans two      *)
(* statements: between any two of them other workers and requests run, or  *)
(* the process dies.  The broker delivers a dead worker's task again; the  *)
(* rest of a dead request is lost.                                         *)
(***************************************************************************)
EXTENDS Naturals, FiniteSets

CONSTANTS
    Alert,
    Channel,          \* the places of an alert's delivery legs among its channels
    Worker, Officer, None,
    Calendar,         \* alerts that announce a calendar event
    MaxAttempts,      \* AlertDelivery.max_attempts
    Acts,             \* the requests officers make
    MaxCrashes,       \* bound on the deaths of workers
    MaxRequests       \* bound on the requests about an alert

ASSUME AlertAssumption == /\ Calendar \subseteq Alert /\ Channel \subseteq Nat
                          /\ MaxAttempts \in Nat \ {0} /\ MaxCrashes \in Nat
ASSUME ActorAssumption == /\ Acts \subseteq {"cancel", "approve", "retry"} /\ MaxRequests \in Nat
                          /\ IsFiniteSet(Worker)

VARIABLES
    status,     \* Alert.status
    late,       \* expires_at has passed
    retracted,  \* the calendar event is no longer open
    leg,        \* AlertDelivery.status, "none" before the row exists
    attempts,   \* AlertDelivery.attempts
    jobs,       \* deliver_alert messages in the broker
    pc, mem,    \* a worker's step and what it knows
    desk,       \* an officer's request, the alert it read and its next statement
    calls,      \* how often a channel's provider was called
    landed,     \* how often it took the message
    crashed,    \* how often a task on the alert died
    overlaps,   \* how often a dispatch began while another was under way
    asked       \* how many requests were made about the alert

rows == <<leg, attempts>>
world == <<late, retracted>>
providers == <<calls, landed>>
history == <<crashed, overlaps>>
vars == <<status, late, retracted, leg, attempts, jobs, pc, mem, desk, calls, landed, crashed,
          overlaps, asked>>

Terminal == {"sent", "partial", "failed", "cancelled", "expired"}
Deliverable == {"queued", "sending"}
Outcome == {"delivered", "failed", "skipped"}

Idle == [task |-> None, alert |-> None, late |-> FALSE, todo |-> {}, ok |-> FALSE, fail |-> FALSE,
         leg |-> None, result |-> None, seen |-> 0]
AtRest == [at |-> "rest", act |-> None, alert |-> None]
Start(w, task, a) ==
    /\ pc' = [pc EXCEPT ![w] = "load"]
    /\ mem' = [mem EXCEPT ![w] = [Idle EXCEPT !.task = task, !.alert = a]]
Done(w) == pc' = [pc EXCEPT ![w] = "idle"] /\ mem' = [mem EXCEPT ![w] = Idle]
Goto(w, step, m) == pc' = [pc EXCEPT ![w] = step] /\ mem' = [mem EXCEPT ![w] = m]
SetStatus(a, s) == status' = [status EXCEPT ![a] = s]

\* The dispatches of an alert that are past the gate, sending or withdrawing it.
Beyond == {"walk", "record", "save", "withdraw", "skip", "list", "park"}
UnderWay(a) == {w \in Worker : pc[w] \in Beyond /\ mem[w].alert = a}
CountOverlap(a) ==
    overlaps' = IF UnderWay(a) = {} THEN overlaps ELSE [overlaps EXCEPT ![a] = @ + 1]

\* An emitted alert is scheduled, a draft, or queued; its emitter may die before
\* it hands the task to the broker.
Init ==
    /\ status \in [Alert -> {"draft", "scheduled", "queued"}]
    /\ late = [a \in Alert |-> FALSE] /\ retracted = [a \in Alert |-> FALSE]
    /\ leg = [a \in Alert |-> [c \in Channel |-> "none"]]
    /\ attempts = [a \in Alert |-> [c \in Channel |-> 0]] /\ calls = attempts /\ landed = attempts
    /\ jobs \in [Alert -> {0, 1}] /\ \A a \in Alert : jobs[a] = 1 => status[a] = "queued"
    /\ pc = [w \in Worker |-> "idle"] /\ mem = [w \in Worker |-> Idle]
    /\ desk = [o \in Officer |-> AtRest]
    /\ crashed = [a \in Alert |-> 0] /\ overlaps = crashed /\ asked = crashed

-----------------------------------------------------------------------------
(* What starts a dispatch                                                  *)

\* deliver_alert: acknowledged when it ends (late acknowledgement).
TakeJob(w, a) ==
    /\ pc[w] = "idle" /\ jobs[a] > 0
    /\ jobs' = [jobs EXCEPT ![a] = @ - 1] /\ Start(w, "deliver", a)
    /\ UNCHANGED <<status, world, rows, desk, asked, providers, history>>

\* dispatch_due_alerts: the swap from scheduled is one conditional UPDATE.
DispatchDue(w, a) ==
    /\ pc[w] = "idle" /\ status[a] = "scheduled"
    /\ IF late[a] THEN SetStatus(a, "expired") /\ UNCHANGED <<pc, mem>>
       ELSE SetStatus(a, "queued") /\ Start(w, "due", a)
    /\ UNCHANGED <<world, rows, jobs, desk, asked, providers, history>>

Retryable(a) == status[a] \in {"failed", "partial"}

\* retry_failed_deliveries: likewise, for an alert with a failed leg that has
\* attempts left.
RetrySweep(w, a) ==
    /\ pc[w] = "idle" /\ Retryable(a)
    /\ \E c \in Channel : leg[a][c] = "failed" /\ attempts[a][c] < MaxAttempts
    /\ SetStatus(a, "queued") /\ Start(w, "sweep", a)
    /\ UNCHANGED <<world, rows, jobs, desk, asked, providers, history>>

-----------------------------------------------------------------------------
(* The dispatcher                                                          *)

\* Mutant: an alert caught in mid-send is left alone.
FreshlyQueued(s) == s = "queued"
Accepts(s) == s \in Deliverable

\* The alert is read;
Load(w) ==
    LET a == mem[w].alert IN
    /\ pc[w] = "load"
    /\ IF Accepts(status[a]) THEN Goto(w, "begin", [mem[w] EXCEPT !.late = late[a]]) ELSE Done(w)
    /\ UNCHANGED <<status, world, rows, jobs, desk, asked, providers, history>>

\* expired, retracted, or saved as being sent.
Expire(w) ==
    /\ pc[w] = "begin" /\ mem[w].late
    /\ SetStatus(mem[w].alert, "expired") /\ Done(w)
    /\ UNCHANGED <<world, rows, jobs, desk, asked, providers, history>>

BeginSending(w) ==
    LET a == mem[w].alert IN
    /\ pc[w] = "begin" /\ ~mem[w].late /\ ~retracted[a]
    /\ SetStatus(a, "sending") /\ Goto(w, "walk", [mem[w] EXCEPT !.todo = Channel])
    /\ CountOverlap(a)
    /\ UNCHANGED <<world, rows, jobs, desk, asked, providers, crashed>>

\* A retracted alert is withdrawn: what went out is read and the status saved,
BeginWithdraw(w) ==
    LET a == mem[w].alert IN
    /\ pc[w] = "begin" /\ ~mem[w].late /\ retracted[a]
    /\ Goto(w, "withdraw", [mem[w] EXCEPT !.ok = \E c \in Channel : leg[a][c] = "delivered"])
    /\ CountOverlap(a)
    /\ UNCHANGED <<status, world, rows, jobs, desk, asked, providers, crashed>>

SaveWithdrawn(w) ==
    /\ pc[w] = "withdraw" /\ Goto(w, "skip", mem[w])
    /\ SetStatus(mem[w].alert, IF mem[w].ok THEN "partial" ELSE "cancelled")
    /\ UNCHANGED <<world, rows, jobs, desk, asked, providers, history>>

\* its pending legs are skipped in one UPDATE, its failed legs listed,
Turned(a, from, to) == leg' = [leg EXCEPT ![a] = [c \in Channel |->
                                 IF leg[a][c] = from THEN to ELSE leg[a][c]]]
SkipLegs(w) ==
    /\ pc[w] = "skip" /\ Goto(w, "list", mem[w]) /\ Turned(mem[w].alert, "pending", "skipped")
    /\ UNCHANGED <<status, world, attempts, jobs, desk, asked, providers, history>>

ListFailed(w) ==
    LET a == mem[w].alert IN
    /\ pc[w] = "list"
    /\ Goto(w, "park", [mem[w] EXCEPT !.todo = {c \in Channel : leg[a][c] = "failed"}])
    /\ UNCHANGED <<status, world, rows, jobs, desk, asked, providers, history>>

\* and each of those is saved as skipped, whatever it has become.
ParkLeg(w, c) ==
    /\ pc[w] = "park" /\ c \in mem[w].todo
    /\ leg' = [leg EXCEPT ![mem[w].alert][c] = "skipped"]
    /\ Goto(w, "park", [mem[w] EXCEPT !.todo = @ \ {c}])
    /\ UNCHANGED <<status, world, attempts, jobs, desk, asked, providers, history>>

EndWithdraw(w) ==
    /\ pc[w] = "park" /\ mem[w].todo = {} /\ Done(w)
    /\ UNCHANGED <<status, world, rows, jobs, desk, asked, providers, history>>

\* The channels are walked in the order the alert lists them.
Comes(w, c) == pc[w] = "walk" /\ c \in mem[w].todo /\ \A d \in mem[w].todo : c <= d

\* Mutant: a delivered leg is sent again with those that failed.
DeliveredWhole(a, c) == \A d \in Channel : leg[a][d] = "delivered"
Delivered(a, c) == leg[a][c] = "delivered"

\* Mutant: a delivered leg is passed over without counting as a success.
PassedSilently(m, c) == [m EXCEPT !.todo = @ \ {c}]
\* A delivered leg is never sent again, but it counts as a success.
Passed(m, c) == [m EXCEPT !.todo = @ \ {c}, !.ok = TRUE]

PassDelivered(w, c) ==
    LET a == mem[w].alert IN
    /\ Comes(w, c) /\ Delivered(a, c)
    /\ Goto(w, "walk", Passed(mem[w], c))
    /\ UNCHANGED <<status, world, rows, jobs, desk, asked, providers, history>>

\* Mutant: one attempt too many.
SpentLate(a, c) == attempts[a][c] > MaxAttempts
Spent(a, c) == attempts[a][c] >= MaxAttempts

PassSpent(w, c) ==
    LET a == mem[w].alert IN
    /\ Comes(w, c) /\ ~Delivered(a, c) /\ Spent(a, c)
    /\ Goto(w, "walk", [mem[w] EXCEPT !.todo = @ \ {c}, !.fail = TRUE])
    /\ UNCHANGED <<status, world, rows, jobs, desk, asked, providers, history>>

\* The provider is called,
Send(w, c, result) ==
    LET a == mem[w].alert IN
    /\ Comes(w, c) /\ ~Delivered(a, c) /\ ~Spent(a, c)
    /\ calls' = [calls EXCEPT ![a][c] = @ + 1]
    /\ landed' = IF result = "delivered" THEN [landed EXCEPT ![a][c] = @ + 1] ELSE landed
    /\ Goto(w, "record", [mem[w] EXCEPT !.todo = @ \ {c}, !.leg = c, !.result = result])
    /\ UNCHANGED <<status, world, rows, jobs, desk, asked, history>>

\* the leg's row is read,
FetchLeg(w) ==
    LET a == mem[w].alert  c == mem[w].leg IN
    /\ pc[w] = "record" /\ Goto(w, "save", [mem[w] EXCEPT !.seen = attempts[a][c]])
    /\ UNCHANGED <<status, world, rows, jobs, desk, asked, providers, history>>

\* and saved with the outcome and one attempt more than it had.
SaveLeg(w) ==
    LET a == mem[w].alert  c == mem[w].leg  r == mem[w].result IN
    /\ pc[w] = "save"
    /\ leg' = [leg EXCEPT ![a][c] = r]
    /\ attempts' = [attempts EXCEPT ![a][c] = mem[w].seen + 1]
    /\ Goto(w, "walk", [mem[w] EXCEPT !.leg = None, !.result = None, !.seen = 0,
                          !.ok = @ \/ r = "delivered", !.fail = @ \/ r = "failed"])
    /\ UNCHANGED <<status, world, jobs, desk, asked, providers, history>>

Verdict(m) == IF m.ok THEN IF m.fail THEN "partial" ELSE "sent" ELSE "failed"
Finish(w) ==
    /\ pc[w] = "walk" /\ mem[w].todo = {}
    /\ SetStatus(mem[w].alert, Verdict(mem[w])) /\ Done(w)
    /\ UNCHANGED <<world, rows, jobs, desk, asked, providers, history>>

-----------------------------------------------------------------------------
(* Officers: a request reads the alert, then writes statement by statement *)

Offered(act, a) ==
    CASE act = "cancel" -> status[a] \notin Terminal
      [] act = "approve" -> status[a] = "draft" /\ ~retracted[a]
      [] act = "retry" -> status[a] \in {"failed", "partial"}
First == [cancel |-> "cancel", approve |-> "queue", retry |-> "legs"]

Request(o, act, a) ==
    /\ desk[o] = AtRest /\ asked[a] < MaxRequests /\ Offered(act, a)
    /\ desk' = [desk EXCEPT ![o] = [at |-> First[act], act |-> act, alert |-> a]]
    /\ asked' = [asked EXCEPT ![a] = @ + 1]
    /\ UNCHANGED <<status, world, rows, jobs, pc, mem, providers, history>>

GoesOn(o, at) == desk' = [desk EXCEPT ![o].at = at]
Rests(o) == desk' = [desk EXCEPT ![o] = AtRest]
Enqueue(a) == jobs' = [jobs EXCEPT ![a] = @ + 1]

\* retry_alert turns the failed legs, then queues the alert as approve_alert does.
RetryLegs(o) ==
    /\ desk[o].at = "legs" /\ GoesOn(o, "queue") /\ Turned(desk[o].alert, "failed", "pending")
    /\ UNCHANGED <<status, world, attempts, jobs, pc, mem, asked, providers, history>>

SaveQueued(o) ==
    /\ desk[o].at = "queue" /\ GoesOn(o, "enqueue") /\ SetStatus(desk[o].alert, "queued")
    /\ UNCHANGED <<world, rows, jobs, pc, mem, asked, providers, history>>

EnqueueAlert(o) ==
    /\ desk[o].at = "enqueue" /\ Rests(o) /\ Enqueue(desk[o].alert)
    /\ UNCHANGED <<status, world, rows, pc, mem, asked, providers, history>>

\* cancel_alert saves the alert, then skips its pending legs.
SaveCancelled(o) ==
    /\ desk[o].at = "cancel" /\ GoesOn(o, "skip") /\ SetStatus(desk[o].alert, "cancelled")
    /\ UNCHANGED <<world, rows, jobs, pc, mem, asked, providers, history>>

SkipPending(o) ==
    /\ desk[o].at = "skip" /\ Rests(o) /\ Turned(desk[o].alert, "pending", "skipped")
    /\ UNCHANGED <<status, world, attempts, jobs, pc, mem, asked, providers, history>>

\* The web worker dies; what the request has saved so far stays.
Abandon(o) ==
    /\ desk[o] # AtRest /\ Rests(o)
    /\ UNCHANGED <<status, world, rows, jobs, pc, mem, asked, providers, history>>

-----------------------------------------------------------------------------
(* Time, the calendar and failure                                          *)

PassExpiry(a) ==
    /\ ~late[a] /\ late' = [late EXCEPT ![a] = TRUE]
    /\ UNCHANGED <<status, retracted, rows, jobs, pc, mem, desk, asked, providers, history>>

RetractEvent(a) ==
    /\ a \in Calendar /\ ~retracted[a] /\ retracted' = [retracted EXCEPT ![a] = TRUE]
    /\ UNCHANGED <<status, late, rows, jobs, pc, mem, desk, asked, providers, history>>

\* A worker dies: its task is delivered again.  A sweep that runs again starts
\* from what the database says.
Crash(w) ==
    LET a == mem[w].alert IN
    /\ pc[w] # "idle" /\ crashed[a] < MaxCrashes
    /\ crashed' = [crashed EXCEPT ![a] = @ + 1] /\ Done(w)
    /\ IF mem[w].task = "deliver" THEN Enqueue(a) ELSE UNCHANGED jobs
    /\ UNCHANGED <<status, world, rows, desk, asked, providers, overlaps>>

Step(w) ==
    \/ Load(w) \/ Expire(w) \/ BeginSending(w) \/ FetchLeg(w) \/ SaveLeg(w) \/ Finish(w)
    \/ BeginWithdraw(w) \/ SaveWithdrawn(w) \/ SkipLegs(w) \/ ListFailed(w) \/ EndWithdraw(w)
    \/ \E c \in Channel :
          \/ PassDelivered(w, c) \/ PassSpent(w, c) \/ ParkLeg(w, c)
          \/ \E r \in Outcome : Send(w, c, r)

Answer(o) ==
    \/ RetryLegs(o) \/ SaveQueued(o) \/ EnqueueAlert(o)
    \/ SaveCancelled(o) \/ SkipPending(o) \/ Abandon(o)

Next ==
    \/ \E w \in Worker :
          \/ Step(w) \/ Crash(w)
          \/ \E a \in Alert : TakeJob(w, a) \/ DispatchDue(w, a) \/ RetrySweep(w, a)
    \/ \E o \in Officer : Answer(o) \/ \E act \in Acts, a \in Alert : Request(o, act, a)
    \/ \E a \in Alert : PassExpiry(a) \/ RetractEvent(a)

\* Workers run what they took and some worker takes each waiting message.
Fairness ==
    /\ \A w \in Worker : WF_vars(Step(w))
    /\ \A a \in Alert : WF_vars(\E w \in Worker : TakeJob(w, a))

Spec == Init /\ [][Next]_vars
FairSpec == Spec /\ Fairness

-----------------------------------------------------------------------------
(* Properties                                                              *)

Dispatching(a) == {w \in Worker : pc[w] # "idle" /\ mem[w].alert = a}

TypeOK ==
    /\ status \in [Alert -> {"draft", "scheduled"} \cup Deliverable \cup Terminal]
    /\ leg \in [Alert -> [Channel -> {"none", "pending"} \cup Outcome]]
    /\ attempts \in [Alert -> [Channel -> Nat]]
    /\ calls \in [Alert -> [Channel -> Nat]] /\ landed \in [Alert -> [Channel -> Nat]]
    /\ jobs \in [Alert -> Nat] /\ crashed \in [Alert -> Nat]
    /\ overlaps \in [Alert -> Nat] /\ asked \in [Alert -> Nat]
    /\ pc \in [Worker -> {"idle", "load", "begin"} \cup Beyond]

\* A provider takes a leg once.  Each time more, a worker died with the record in
\* hand or a dispatch began beside another: retries, sweeps and redelivered tasks
\* that follow one another never send a delivered leg again, whatever officers save
\* in between (dispatch, "never re-send a delivered channel").
DeliveredOnce == \A a \in Alert, c \in Channel : landed[a][c] <= 1 + crashed[a] + overlaps[a]

\* A provider is called for a leg no more often than the leg has attempts, but for
\* one call for each death and each dispatch that began beside another, though all
\* of them save the count they read (AlertDelivery.max_attempts).
AttemptsCapped ==
    \A a \in Alert, c \in Channel : calls[a][c] <= MaxAttempts + crashed[a] + overlaps[a]

\* The status left when nobody works on an alert tells what went out, as long as its
\* dispatches followed one another: sent has every leg delivered or skipped, partial
\* some delivered, failed none, whatever officers saved over it and wherever workers
\* and requests died (dispatch).
StatusTells ==
    \A a \in Alert : Dispatching(a) = {} /\ overlaps[a] = 0 =>
       /\ status[a] = "sent" => /\ \A c \in Channel : leg[a][c] \in {"delivered", "skipped"}
                                /\ \E c \in Channel : leg[a][c] = "delivered"
       /\ status[a] = "partial" => \E c \in Channel : leg[a][c] = "delivered"
       /\ status[a] = "failed" => \A c \in Channel : leg[a][c] # "delivered"

\* "ACKS_LATE re-delivers on a worker crash" (pingboard/tasks.py:3): an alert to be
\* delivered whose task is with the broker comes to an end, though workers die and
\* officers' requests interfere.
QueuedSettles ==
    \A a \in Alert : (status[a] \in Deliverable /\ jobs[a] > 0) ~> (status[a] \in Terminal)

-----------------------------------------------------------------------------
(* What the code says of itself                                            *)

\* "Deliver-once across retries: never re-send a delivered channel"
\* (pingboard/dispatch.py): a leg lands twice only if its record was lost.
SentOnce == \A a \in Alert, c \in Channel : landed[a][c] <= 1 + crashed[a]

\* "make a re-run safe" (pingboard/tasks.py): an alert to be delivered comes to an
\* end, wherever workers and requests die.
DueSettles == \A a \in Alert : (status[a] \in Deliverable) ~> (status[a] \in Terminal)
=============================================================================
