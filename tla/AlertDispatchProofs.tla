------------------------- MODULE AlertDispatchProofs -------------------------
(***************************************************************************)
(* Proofs about AlertDispatch for any alerts, channels, workers, requests, *)
(* deaths and attempts: what a provider was called for and took, and what  *)
(* the status left behind tells.                                           *)
(*                                                                         *)
(* No row is locked and any number of dispatches of an alert may be under  *)
(* way.  What holds is an account of each leg: the calls it has had, with  *)
(* those the dispatchers that have still to come to it may make, exceed    *)
(* what is recorded by no more than the deaths and the dispatches that     *)
(* began beside another (Takes, Calls).  While no dispatch has begun beside *)
(* another a dispatcher's memory and the status agree with the legs        *)
(* (Sole).                                                                 *)
(***************************************************************************)
EXTENDS AlertDispatch, FiniteSetTheorems, TLAPS

Task == {"deliver", "due", "sweep"}
Memory == [task : Task \cup {None}, alert : Alert \cup {None}, late : BOOLEAN,
           todo : SUBSET Channel, ok : BOOLEAN, fail : BOOLEAN,
           leg : Channel \cup {None}, result : Outcome \cup {None}, seen : Nat]
Desk == [at : {"rest", "cancel", "skip", "queue", "legs", "enqueue"},
         act : {"cancel", "approve", "retry", None}, alert : Alert \cup {None}]
Sending == {"walk", "record", "save"}
Stopping == {"withdraw", "skip", "list", "park"}
Places == {"idle", "load", "begin"} \cup Beyond

\* What a worker at its step holds.
Fits(step, m) ==
    /\ step # "idle" => m.alert \in Alert
    /\ step \in {"load", "begin"} => ~m.ok /\ ~m.fail
    /\ step \in {"record", "save"} => m.leg \in Channel \ m.todo /\ m.result \in Outcome
Workers ==
    /\ mem \in [Worker -> Memory]
    /\ desk \in [Officer -> Desk]
    /\ \A o \in Officer : desk[o].at # "rest" => desk[o].alert \in Alert
    /\ late \in [Alert -> BOOLEAN] /\ retracted \in [Alert -> BOOLEAN]
    /\ \A w \in Worker : Fits(pc[w], mem[w])

\* What a worker does for a leg: its dispatch sends the alert, has still to come to
\* the channel, owes the record of a call; or it withdraws the alert, and is to save
\* a leg it listed as failed.
Dealing(w, a) == pc[w] \in Sending /\ mem[w].alert = a
Calling(w, a, c) == Dealing(w, a) /\ c \in mem[w].todo
Owing(w, a, c) == pc[w] \in {"record", "save"} /\ mem[w].alert = a /\ mem[w].leg = c
Withdrawing(w, a) == pc[w] \in Stopping /\ mem[w].alert = a
Parking(w, a, c) == pc[w] = "park" /\ mem[w].alert = a /\ c \in mem[w].todo

Due(a, c) == Cardinality({w \in Worker : Calling(w, a, c)})
Spare(a) == crashed[a] + overlaps[a]

\* Nobody is about to call the provider of a leg but those that may still come to it.
Unclaimed(a, c) ==
    /\ \A w \in Worker : ~Owing(w, a, c)
    /\ \/ \A w \in Worker : ~Dealing(w, a) /\ ~Withdrawing(w, a)
       \/ \E w \in Worker : Withdrawing(w, a) \/ (Dealing(w, a) /\ ~Calling(w, a, c))

\* A leg that stays delivered, and one somebody is about to save as something else.
Safe(a, c) ==
    /\ leg[a][c] = "delivered"
    /\ \A w \in Worker : ~Parking(w, a, c) /\ (Owing(w, a, c) => mem[w].result = "delivered")
Spoilt(a, c) ==
    \E w \in Worker : Withdrawing(w, a) \/ (Owing(w, a, c) /\ mem[w].result # "delivered")
Tight(a, c) == Spoilt(a, c) \/ (leg[a][c] # "delivered" /\ Unclaimed(a, c))

Takes(a, c) ==
    /\ landed[a][c] <= Spare(a) + 1
    /\ ~Safe(a, c) => landed[a][c] + Due(a, c) <= Spare(a) + 1
    /\ ~Safe(a, c) /\ Tight(a, c) => landed[a][c] + Due(a, c) <= Spare(a)

Calls(a, c) ==
    /\ calls[a][c] <= MaxAttempts + Spare(a)
    /\ calls[a][c] + Due(a, c) <= Spare(a) + attempts[a][c] + 1
    /\ Unclaimed(a, c) => calls[a][c] + Due(a, c) <= Spare(a) + attempts[a][c]
    /\ \A w \in Worker : Owing(w, a, c) /\ pc[w] = "save" =>
          calls[a][c] + Due(a, c) <= Spare(a) + mem[w].seen + 1

\* The channels a dispatcher has come to and recorded, and what it knows of them.
Judged(w) == {c \in Channel \ mem[w].todo : pc[w] = "walk" \/ c # mem[w].leg}
Knows(w, a) ==
    /\ pc[w] \in Sending =>
          /\ status[a] \notin {"sent", "partial", "failed"}
          /\ mem[w].ok <=> \E c \in Judged(w) : leg[a][c] = "delivered"
          /\ ~mem[w].fail => \A c \in Judged(w) : leg[a][c] \in {"delivered", "skipped"}
    /\ pc[w] = "withdraw" /\ mem[w].ok => \E c \in Channel : leg[a][c] = "delivered"
    /\ pc[w] = "park" => \A c \in mem[w].todo : leg[a][c] # "delivered"
Tells(a) ==
    /\ status[a] = "sent" => /\ \A c \in Channel : leg[a][c] \in {"delivered", "skipped"}
                             /\ \E c \in Channel : leg[a][c] = "delivered"
    /\ status[a] = "partial" => \E c \in Channel : leg[a][c] = "delivered"
    /\ status[a] = "failed" => \A c \in Channel : leg[a][c] # "delivered"
Sole(a) ==
    overlaps[a] = 0 =>
       /\ \A x, y \in UnderWay(a) : x = y
       /\ \A w \in UnderWay(a) : Knows(w, a)
       /\ Tells(a)

Inv ==
    /\ TypeOK /\ Workers
    /\ \A a \in Alert, c \in Channel : Takes(a, c) /\ Calls(a, c)
    /\ \A a \in Alert : Sole(a)

-----------------------------------------------------------------------------
(* Types                                                                   *)

LEMMA IdleMemory == Idle \in Memory /\ Fits("idle", Idle)
BY DEF Idle, Memory, Fits

\* What a dispatch begins with.
LEMMA StartMemory ==
    ASSUME NEW a \in Alert, NEW task \in Task
    PROVE  LET m == [Idle EXCEPT !.task = task, !.alert = a]
           IN  m \in Memory /\ Fits("load", m) /\ m.alert = a
BY DEF Idle, Memory, Fits

\* A worker that goes on has a memory of the right type and an alert.
LEMMA WorkerTypes ==
    ASSUME TypeOK, Workers, NEW w \in Worker, NEW step \in Places, NEW m \in Memory,
           Fits(step, m), Goto(w, step, m), UNCHANGED <<late, retracted, desk>>
    PROVE  Workers' /\ pc' \in [Worker -> Places]
<1>1. /\ \A x \in Worker : pc'[x] = (IF x = w THEN step ELSE pc[x]) /\ mem'[x] = (IF x = w THEN m ELSE mem[x])
  BY DEF TypeOK, Workers, Goto
<1>2. \A x \in Worker : Fits(pc[x], mem[x])
  BY DEF Workers
<1>3. \A x \in Worker : Fits(pc'[x], mem'[x])
  BY <1>1, <1>2
<1>4. mem' \in [Worker -> Memory] /\ pc' \in [Worker -> Places]
  BY DEF TypeOK, Workers, Goto, Places
<1> QED BY <1>3, <1>4 DEF Workers

LEMMA OthersRest ==
    ASSUME TypeOK, Workers, UNCHANGED <<pc, mem>>,
           late' \in [Alert -> BOOLEAN], retracted' \in [Alert -> BOOLEAN],
           desk' \in [Officer -> Desk],
           \A o \in Officer : desk'[o].at # "rest" => desk'[o].alert \in Alert
    PROVE  Workers' /\ pc' \in [Worker -> Places]
BY DEF TypeOK, Workers, Places

LEMMA StartTypes ==
    ASSUME TypeOK, Workers, NEW w \in Worker, NEW a \in Alert, NEW task \in Task,
           Start(w, task, a), UNCHANGED <<late, retracted, desk>>
    PROVE  Workers' /\ pc' \in [Worker -> Places]
<1> DEFINE m == [Idle EXCEPT !.task = task, !.alert = a]
<1>1. m \in Memory /\ Fits("load", m)
  BY StartMemory
<1>2. Goto(w, "load", m)
  BY DEF Start, Goto
<1> HIDE DEF m
<1> QED BY <1>1, <1>2, WorkerTypes DEF Places

LEMMA DoneTypes ==
    ASSUME TypeOK, Workers, NEW w \in Worker, Done(w), UNCHANGED <<late, retracted, desk>>
    PROVE  Workers' /\ pc' \in [Worker -> Places]
<1>1. Goto(w, "idle", Idle)
  BY DEF Done, Goto
<1> QED BY <1>1, IdleMemory, WorkerTypes DEF Places

\* What an officer does next.
LEMMA DeskTypes ==
    ASSUME Workers, NEW o \in Officer,
           \/ \E at \in {"skip", "queue", "enqueue"} : desk[o].at # "rest" /\ GoesOn(o, at)
           \/ Rests(o)
    PROVE  desk' \in [Officer -> Desk] /\ \A u \in Officer : desk'[u].at # "rest" => desk'[u].alert \in Alert
BY DEF Workers, GoesOn, Rests, AtRest, Desk

LEMMA TypesKept ==
    ASSUME TypeOK, Workers, [Next]_vars
    PROVE  TypeOK' /\ Workers'
<1>1. CASE UNCHANGED vars
  BY <1>1 DEF vars, rows, world, providers, history, TypeOK, Workers
<1>2. ASSUME NEW w \in Worker, NEW a \in Alert, TakeJob(w, a) PROVE TypeOK' /\ Workers'
  <2>1. Workers' /\ pc' \in [Worker -> Places]
    BY <1>2, StartTypes DEF TakeJob, Task, world
  <2> QED BY <1>2, <2>1 DEF TakeJob, TypeOK, rows, providers, history, Places
<1>3. ASSUME NEW w \in Worker, NEW a \in Alert, DispatchDue(w, a) PROVE TypeOK' /\ Workers'
  <2>1. Workers' /\ pc' \in [Worker -> Places]
    <3>1. CASE late[a]
      BY <1>3, <3>1, OthersRest DEF DispatchDue, Workers, world
    <3>2. CASE ~late[a]
      BY <1>3, <3>2, StartTypes DEF DispatchDue, Task, world
    <3> QED BY <3>1, <3>2
  <2>2. status' \in [Alert -> {"draft", "scheduled"} \cup Deliverable \cup Terminal]
    BY <1>3 DEF DispatchDue, SetStatus, TypeOK, Deliverable, Terminal
  <2> QED BY <1>3, <2>1, <2>2 DEF DispatchDue, TypeOK, rows, providers, history, Places
<1>4. ASSUME NEW w \in Worker, NEW a \in Alert, RetrySweep(w, a) PROVE TypeOK' /\ Workers'
  <2>1. Workers' /\ pc' \in [Worker -> Places]
    BY <1>4, StartTypes DEF RetrySweep, Task, world
  <2> QED BY <1>4, <2>1
             DEF RetrySweep, SetStatus, TypeOK, rows, providers, history, Places, Deliverable
<1>5. ASSUME NEW w \in Worker, Load(w) PROVE TypeOK' /\ Workers'
  <2>1. Workers' /\ pc' \in [Worker -> Places]
    <3> DEFINE m == [mem[w] EXCEPT !.late = late[mem[w].alert]]
    <3>1. CASE Done(w)
      BY <1>5, <3>1, DoneTypes DEF Load, world
    <3>2. CASE Goto(w, "begin", m)
      <4>1. mem[w] \in Memory /\ Fits("load", mem[w]) /\ late[mem[w].alert] \in BOOLEAN
        BY <1>5 DEF Load, Workers, Fits
      <4>2. m \in Memory /\ Fits("begin", m)
        BY <4>1 DEF Memory, Fits
      <4> QED BY <1>5, <3>2, <4>2, WorkerTypes DEF Load, world, Places
    <3> QED BY <1>5, <3>1, <3>2 DEF Load
  <2> QED BY <1>5, <2>1 DEF Load, TypeOK, rows, providers, history, Places
<1>6. ASSUME NEW w \in Worker, Expire(w) PROVE TypeOK' /\ Workers'
  <2>1. Workers' /\ pc' \in [Worker -> Places]
    BY <1>6, DoneTypes DEF Expire, world
  <2> QED BY <1>6, <2>1 DEF Expire, TypeOK, rows, providers, history, Places, SetStatus, Terminal
<1>7. ASSUME NEW w \in Worker, BeginSending(w) PROVE TypeOK' /\ Workers'
  <2> DEFINE m == [mem[w] EXCEPT !.todo = Channel]
  <2>1. mem[w] \in Memory /\ Fits(pc[w], mem[w]) /\ pc[w] # "idle"
    BY <1>7 DEF BeginSending, Workers
  <2>2. m \in Memory /\ Fits("walk", m)
    BY <1>7, <2>1 DEF BeginSending, Memory, Fits
  <2>3. Goto(w, "walk", m)
    BY <1>7 DEF BeginSending
  <2> HIDE DEF m
  <2>4. Workers' /\ pc' \in [Worker -> Places]
    BY <1>7, <2>2, <2>3, WorkerTypes DEF BeginSending, world, Places, Beyond
  <2> QED BY <1>7, <2>1, <2>4
             DEF BeginSending, TypeOK, rows, providers, history, Places, SetStatus, CountOverlap,
                 Deliverable, Fits
<1>8. ASSUME NEW w \in Worker, BeginWithdraw(w) PROVE TypeOK' /\ Workers'
  <2> DEFINE m == [mem[w] EXCEPT !.ok = \E c \in Channel : leg[mem[w].alert][c] = "delivered"]
  <2>1. mem[w] \in Memory /\ Fits(pc[w], mem[w]) /\ pc[w] # "idle"
    BY <1>8 DEF BeginWithdraw, Workers
  <2>2. m \in Memory /\ Fits("withdraw", m)
    BY <1>8, <2>1 DEF BeginWithdraw, Memory, Fits
  <2>3. Goto(w, "withdraw", m)
    BY <1>8 DEF BeginWithdraw
  <2> HIDE DEF m
  <2>4. Workers' /\ pc' \in [Worker -> Places]
    BY <1>8, <2>2, <2>3, WorkerTypes DEF BeginWithdraw, world, Places, Beyond
  <2> QED BY <1>8, <2>1, <2>4
             DEF BeginWithdraw, TypeOK, rows, providers, history, Places, CountOverlap, Fits
<1>9. ASSUME NEW w \in Worker, SaveWithdrawn(w) PROVE TypeOK' /\ Workers'
  <2> DEFINE m == mem[w]
  <2>1. mem[w] \in Memory /\ Fits(pc[w], mem[w]) /\ pc[w] # "idle"
    BY <1>9 DEF SaveWithdrawn, Workers
  <2>2. m \in Memory /\ Fits("skip", m)
    BY <1>9, <2>1 DEF SaveWithdrawn, Memory, Fits
  <2>3. Goto(w, "skip", m)
    BY <1>9 DEF SaveWithdrawn
  <2> HIDE DEF m
  <2>4. Workers' /\ pc' \in [Worker -> Places]
    BY <1>9, <2>2, <2>3, WorkerTypes DEF SaveWithdrawn, world, Places, Beyond
  <2> QED BY <1>9, <2>1, <2>4
             DEF SaveWithdrawn, TypeOK, rows, providers, history, Places, SetStatus, Terminal, Fits
<1>10. ASSUME NEW w \in Worker, SkipLegs(w) PROVE TypeOK' /\ Workers'
  <2> DEFINE m == mem[w]
  <2>1. mem[w] \in Memory /\ Fits(pc[w], mem[w]) /\ pc[w] # "idle"
    BY <1>10 DEF SkipLegs, Workers
  <2>2. m \in Memory /\ Fits("list", m)
    BY <1>10, <2>1 DEF SkipLegs, Memory, Fits
  <2>3. Goto(w, "list", m)
    BY <1>10 DEF SkipLegs
  <2> HIDE DEF m
  <2>4. Workers' /\ pc' \in [Worker -> Places]
    BY <1>10, <2>2, <2>3, WorkerTypes DEF SkipLegs, world, Places, Beyond
  <2> QED BY <1>10, <2>1, <2>4
             DEF SkipLegs, TypeOK, rows, providers, history, Places, Turned, Outcome, Fits
<1>11. ASSUME NEW w \in Worker, ListFailed(w) PROVE TypeOK' /\ Workers'
  <2> DEFINE m == [mem[w] EXCEPT !.todo = {c \in Channel : leg[mem[w].alert][c] = "failed"}]
  <2>1. mem[w] \in Memory /\ Fits(pc[w], mem[w]) /\ pc[w] # "idle"
    BY <1>11 DEF ListFailed, Workers
  <2>2. m \in Memory /\ Fits("park", m)
    BY <1>11, <2>1 DEF ListFailed, Memory, Fits
  <2>3. Goto(w, "park", m)
    BY <1>11 DEF ListFailed
  <2> HIDE DEF m
  <2>4. Workers' /\ pc' \in [Worker -> Places]
    BY <1>11, <2>2, <2>3, WorkerTypes DEF ListFailed, world, Places, Beyond
  <2> QED BY <1>11, <2>1, <2>4 DEF ListFailed, TypeOK, rows, providers, history, Places, Fits
<1>12. ASSUME NEW w \in Worker, NEW c \in Channel, ParkLeg(w, c) PROVE TypeOK' /\ Workers'
  <2> DEFINE m == [mem[w] EXCEPT !.todo = @ \ {c}]
  <2>1. mem[w] \in Memory /\ Fits(pc[w], mem[w]) /\ pc[w] # "idle"
    BY <1>12 DEF ParkLeg, Workers
  <2>2. m \in Memory /\ Fits("park", m)
    BY <1>12, <2>1 DEF ParkLeg, Memory, Fits
  <2>3. Goto(w, "park", m)
    BY <1>12 DEF ParkLeg
  <2> HIDE DEF m
  <2>4. Workers' /\ pc' \in [Worker -> Places]
    BY <1>12, <2>2, <2>3, WorkerTypes DEF ParkLeg, world, Places, Beyond
  <2> QED BY <1>12, <2>1, <2>4 DEF ParkLeg, TypeOK, rows, providers, history, Places, Outcome, Fits
<1>13. ASSUME NEW w \in Worker, EndWithdraw(w) PROVE TypeOK' /\ Workers'
  <2>1. Workers' /\ pc' \in [Worker -> Places]
    BY <1>13, DoneTypes DEF EndWithdraw, world
  <2> QED BY <1>13, <2>1 DEF EndWithdraw, TypeOK, rows, providers, history, Places
<1>14. ASSUME NEW w \in Worker, NEW c \in Channel, PassDelivered(w, c) PROVE TypeOK' /\ Workers'
  <2> DEFINE m == [mem[w] EXCEPT !.todo = @ \ {c}, !.ok = TRUE]
  <2>1. mem[w] \in Memory /\ Fits(pc[w], mem[w]) /\ pc[w] # "idle"
    BY <1>14 DEF PassDelivered, Workers, Comes
  <2>2. m \in Memory /\ Fits("walk", m)
    BY <1>14, <2>1 DEF PassDelivered, Memory, Fits, Comes
  <2>3. Goto(w, "walk", m)
    BY <1>14 DEF PassDelivered, Passed
  <2> HIDE DEF m
  <2>4. Workers' /\ pc' \in [Worker -> Places]
    BY <1>14, <2>2, <2>3, WorkerTypes DEF PassDelivered, world, Places, Beyond
  <2> QED BY <1>14, <2>1, <2>4 DEF PassDelivered, TypeOK, rows, providers, history, Places, Fits
<1>15. ASSUME NEW w \in Worker, NEW c \in Channel, PassSpent(w, c) PROVE TypeOK' /\ Workers'
  <2> DEFINE m == [mem[w] EXCEPT !.todo = @ \ {c}, !.fail = TRUE]
  <2>1. mem[w] \in Memory /\ Fits(pc[w], mem[w]) /\ pc[w] # "idle"
    BY <1>15 DEF PassSpent, Workers, Comes
  <2>2. m \in Memory /\ Fits("walk", m)
    BY <1>15, <2>1 DEF PassSpent, Memory, Fits, Comes
  <2>3. Goto(w, "walk", m)
    BY <1>15 DEF PassSpent
  <2> HIDE DEF m
  <2>4. Workers' /\ pc' \in [Worker -> Places]
    BY <1>15, <2>2, <2>3, WorkerTypes DEF PassSpent, world, Places, Beyond
  <2> QED BY <1>15, <2>1, <2>4 DEF PassSpent, TypeOK, rows, providers, history, Places, Fits
<1>16. ASSUME NEW w \in Worker, NEW c \in Channel, NEW r \in Outcome, Send(w, c, r)
       PROVE TypeOK' /\ Workers'
  <2> DEFINE m == [mem[w] EXCEPT !.todo = @ \ {c}, !.leg = c, !.result = r]
  <2>1. mem[w] \in Memory /\ Fits(pc[w], mem[w]) /\ pc[w] # "idle"
    BY <1>16 DEF Send, Workers, Comes
  <2>2. m \in Memory /\ Fits("record", m)
    BY <1>16, <2>1 DEF Send, Memory, Fits, Comes
  <2>3. Goto(w, "record", m)
    BY <1>16 DEF Send
  <2> HIDE DEF m
  <2>4. Workers' /\ pc' \in [Worker -> Places]
    BY <1>16, <2>2, <2>3, WorkerTypes DEF Send, world, Places, Beyond
  <2>5. calls' \in [Alert -> [Channel -> Nat]] /\ landed' \in [Alert -> [Channel -> Nat]]
    BY <1>16, <2>1 DEF Send, TypeOK, Fits
  <2> QED BY <1>16, <2>4, <2>5 DEF Send, TypeOK, rows, history, Places
<1>17. ASSUME NEW w \in Worker, FetchLeg(w) PROVE TypeOK' /\ Workers'
  <2> DEFINE m == [mem[w] EXCEPT !.seen = attempts[mem[w].alert][mem[w].leg]]
  <2>1. mem[w] \in Memory /\ Fits(pc[w], mem[w]) /\ pc[w] # "idle"
    BY <1>17 DEF FetchLeg, Workers
  <2>2. m \in Memory /\ Fits("save", m)
    <3>1. mem[w].alert \in Alert /\ mem[w].leg \in Channel
      BY <1>17, <2>1 DEF FetchLeg, Fits
    <3>2. attempts[mem[w].alert][mem[w].leg] \in Nat
      BY <3>1 DEF TypeOK
    <3> QED BY <1>17, <2>1, <3>2 DEF FetchLeg, Memory, Fits
  <2>3. Goto(w, "save", m)
    BY <1>17 DEF FetchLeg
  <2> HIDE DEF m
  <2>4. Workers' /\ pc' \in [Worker -> Places]
    BY <1>17, <2>2, <2>3, WorkerTypes DEF FetchLeg, world, Places, Beyond
  <2> QED BY <1>17, <2>1, <2>4 DEF FetchLeg, TypeOK, rows, providers, history, Places, Fits
<1>18. ASSUME NEW w \in Worker, SaveLeg(w) PROVE TypeOK' /\ Workers'
  <2> DEFINE m == [mem[w] EXCEPT !.leg = None, !.result = None, !.seen = 0,
                          !.ok = @ \/ mem[w].result = "delivered", !.fail = @ \/ mem[w].result = "failed"]
  <2>1. mem[w] \in Memory /\ Fits(pc[w], mem[w]) /\ pc[w] # "idle"
    BY <1>18 DEF SaveLeg, Workers
  <2>2. m \in Memory /\ Fits("walk", m)
    BY <1>18, <2>1 DEF SaveLeg, Memory, Fits
  <2>3. Goto(w, "walk", m)
    BY <1>18 DEF SaveLeg
  <2> HIDE DEF m
  <2>4. Workers' /\ pc' \in [Worker -> Places]
    BY <1>18, <2>2, <2>3, WorkerTypes DEF SaveLeg, world, Places, Beyond
  <2>5. leg' \in [Alert -> [Channel -> {"none", "pending"} \cup Outcome]]
    BY <1>18, <2>1 DEF SaveLeg, TypeOK, Fits
  <2>6. attempts' \in [Alert -> [Channel -> Nat]]
    BY <1>18, <2>1 DEF SaveLeg, TypeOK, Fits, Memory
  <2> QED BY <1>18, <2>4, <2>5, <2>6 DEF SaveLeg, TypeOK, providers, history, Places
<1>19. ASSUME NEW w \in Worker, Finish(w) PROVE TypeOK' /\ Workers'
  <2>1. Workers' /\ pc' \in [Worker -> Places]
    BY <1>19, DoneTypes DEF Finish, world
  <2> QED BY <1>19, <2>1
             DEF Finish, TypeOK, rows, providers, history, Places, SetStatus, Verdict, Terminal
<1>20. ASSUME NEW w \in Worker, Crash(w) PROVE TypeOK' /\ Workers'
  <2>1. mem[w].alert \in Alert
    BY <1>20 DEF Crash, Workers, Fits
  <2>2. Workers' /\ pc' \in [Worker -> Places]
    BY <1>20, DoneTypes DEF Crash, world
  <2>3. jobs' \in [Alert -> Nat]
    <3>1. CASE UNCHANGED jobs
      BY <3>1 DEF TypeOK
    <3>2. CASE Enqueue(mem[w].alert)
      BY <2>1, <3>2 DEF Enqueue, TypeOK
    <3> QED BY <1>20, <3>1, <3>2 DEF Crash
  <2>4. crashed' \in [Alert -> Nat]
    BY <1>20, <2>1 DEF Crash, TypeOK
  <2> QED BY <1>20, <2>2, <2>3, <2>4 DEF Crash, TypeOK, rows, providers, Places
<1>21. ASSUME NEW o \in Officer, NEW a \in Alert, NEW act \in Acts, Request(o, act, a)
       PROVE TypeOK' /\ Workers'
  <2>1. act \in {"cancel", "approve", "retry"}
    BY ActorAssumption
  <2>2. First[act] \in {"cancel", "queue", "legs"}
    BY <2>1 DEF First
  <2>3. /\ desk' \in [Officer -> Desk]
        /\ \A u \in Officer : desk'[u].at # "rest" => desk'[u].alert \in Alert
    BY <1>21, <2>1, <2>2 DEF Request, Workers, Desk
  <2>4. Workers' /\ pc' \in [Worker -> Places]
    BY <1>21, <2>3, OthersRest DEF Request, Workers, world
  <2> QED BY <1>21, <2>4 DEF Request, TypeOK, rows, providers, history, Places
<1>22. ASSUME NEW o \in Officer, RetryLegs(o) PROVE TypeOK' /\ Workers'
  <2>1. Workers' /\ pc' \in [Worker -> Places]
    BY <1>22, DeskTypes, OthersRest DEF RetryLegs, Workers, world
  <2> QED BY <1>22, <2>1
             DEF RetryLegs, Turned, Outcome, Workers, TypeOK, rows, providers, history, Places
<1>23. ASSUME NEW o \in Officer, SaveQueued(o) PROVE TypeOK' /\ Workers'
  <2>1. Workers' /\ pc' \in [Worker -> Places]
    BY <1>23, DeskTypes, OthersRest DEF SaveQueued, Workers, world
  <2> QED BY <1>23, <2>1
             DEF SaveQueued, SetStatus, Deliverable, Workers, TypeOK, rows, providers, history,
                 Places
<1>24. ASSUME NEW o \in Officer, EnqueueAlert(o) PROVE TypeOK' /\ Workers'
  <2>1. Workers' /\ pc' \in [Worker -> Places]
    BY <1>24, DeskTypes, OthersRest DEF EnqueueAlert, Workers, world
  <2>2. desk[o].alert \in Alert
    BY <1>24 DEF EnqueueAlert, Workers
  <2>3. jobs' \in [Alert -> Nat]
    BY <1>24, <2>2 DEF EnqueueAlert, Enqueue, TypeOK
  <2> QED BY <1>24, <2>1, <2>3 DEF EnqueueAlert, TypeOK, rows, providers, history, Places
<1>25. ASSUME NEW o \in Officer, SaveCancelled(o) PROVE TypeOK' /\ Workers'
  <2>1. Workers' /\ pc' \in [Worker -> Places]
    BY <1>25, DeskTypes, OthersRest DEF SaveCancelled, Workers, world
  <2> QED BY <1>25, <2>1
             DEF SaveCancelled, SetStatus, Terminal, Workers, TypeOK, rows, providers, history,
                 Places
<1>26. ASSUME NEW o \in Officer, SkipPending(o) PROVE TypeOK' /\ Workers'
  <2>1. Workers' /\ pc' \in [Worker -> Places]
    BY <1>26, DeskTypes, OthersRest DEF SkipPending, Workers, world
  <2> QED BY <1>26, <2>1
             DEF SkipPending, Turned, Outcome, Workers, TypeOK, rows, providers, history, Places
<1>27. ASSUME NEW o \in Officer, Abandon(o) PROVE TypeOK' /\ Workers'
  <2>1. Workers' /\ pc' \in [Worker -> Places]
    BY <1>27, DeskTypes, OthersRest DEF Abandon, Workers, world
  <2> QED BY <1>27, <2>1 DEF Abandon, Workers, TypeOK, rows, providers, history, Places
<1>28. ASSUME NEW a \in Alert, PassExpiry(a) \/ RetractEvent(a) PROVE TypeOK' /\ Workers'
  <2>1. late' \in [Alert -> BOOLEAN] /\ retracted' \in [Alert -> BOOLEAN]
    BY <1>28 DEF PassExpiry, RetractEvent, Workers
  <2>2. Workers' /\ pc' \in [Worker -> Places]
    BY <1>28, <2>1, OthersRest DEF PassExpiry, RetractEvent, Workers
  <2> QED BY <1>28, <2>2 DEF PassExpiry, RetractEvent, TypeOK, rows, providers, history, Places
<1> QED
  BY <1>1, <1>2, <1>3, <1>4, <1>5, <1>6, <1>7, <1>8, <1>9, <1>10, <1>11, <1>12, <1>13, <1>14, <1>15,
     <1>16, <1>17, <1>18, <1>19, <1>20, <1>21, <1>22, <1>23, <1>24, <1>25, <1>26, <1>27, <1>28
  DEF Next, Step, Answer

-----------------------------------------------------------------------------
(* The accounts of a leg                                                   *)

\* A worker whose part in a leg is what it was,
Still(x, a, c) ==
    /\ Dealing(x, a)' <=> Dealing(x, a)
    /\ Calling(x, a, c)' <=> Calling(x, a, c)
    /\ Owing(x, a, c)' <=> Owing(x, a, c)
    /\ Withdrawing(x, a)' <=> Withdrawing(x, a)
    /\ Parking(x, a, c)' <=> Parking(x, a, c)
    /\ Owing(x, a, c) => mem'[x].result = mem[x].result
    /\ Owing(x, a, c) /\ pc'[x] = "save" => pc[x] = "save" /\ mem'[x].seen = mem[x].seen
\* and a step that does nothing for a leg.
Booked(a, c) == /\ landed'[a][c] = landed[a][c] /\ calls'[a][c] = calls[a][c]
                /\ crashed'[a] = crashed[a] /\ overlaps'[a] = overlaps[a]
Noted(a, c) == attempts'[a][c] = attempts[a][c] /\ (leg'[a][c] = "delivered" <=> leg[a][c] = "delivered")
Steady(a, c) == (\A x \in Worker : Still(x, a, c)) /\ Booked(a, c) /\ Noted(a, c)

LEMMA DueCounts ==
    ASSUME NEW a \in Alert, NEW c \in Channel
    PROVE  /\ Due(a, c) \in Nat
           /\ (\A x \in Worker : ~Calling(x, a, c)) => Due(a, c) = 0
           /\ \A x \in Worker : Calling(x, a, c) => Due(a, c) > 0
<1> DEFINE S == {w \in Worker : Calling(w, a, c)}
<1>1. IsFiniteSet(S)
  BY ActorAssumption, FS_Subset
<1>2. Cardinality(S) \in Nat /\ (Cardinality(S) = 0 <=> S = {})
  BY <1>1, FS_CardinalityType, FS_EmptySet
<1> QED BY <1>2 DEF Due

\* A step of one worker moves the count by what that worker does.
LEMMA DueMoves ==
    ASSUME NEW a \in Alert, NEW c \in Channel, NEW w \in Worker,
           \A x \in Worker \ {w} : Calling(x, a, c)' <=> Calling(x, a, c)
    PROVE  /\ Due(a, c)' \in Nat
           /\ (Calling(w, a, c)' <=> Calling(w, a, c)) => Due(a, c)' = Due(a, c)
           /\ ~Calling(w, a, c) /\ Calling(w, a, c)' => Due(a, c)' = Due(a, c) + 1
           /\ Calling(w, a, c) /\ ~Calling(w, a, c)' => Due(a, c)' = Due(a, c) - 1
<1> DEFINE S == {x \in Worker : Calling(x, a, c)}
           T == {x \in Worker : Calling(x, a, c)'}
<1>1. IsFiniteSet(S) /\ IsFiniteSet(T)
  BY ActorAssumption, FS_Subset
<1>2. Due(a, c) = Cardinality(S) /\ Due(a, c)' = Cardinality(T)
  BY DEF Due
<1>3. Cardinality(S) \in Nat /\ Cardinality(T) \in Nat
  BY <1>1, FS_CardinalityType
<1>4. (Calling(w, a, c)' <=> Calling(w, a, c)) => S = T
  OBVIOUS
<1>5. ASSUME ~Calling(w, a, c), Calling(w, a, c)' PROVE Cardinality(T) = Cardinality(S) + 1
  <2>1. T = S \cup {w} /\ w \notin S
    BY <1>5
  <2> QED BY <2>1, <1>1, FS_AddElement
<1>6. ASSUME Calling(w, a, c), ~Calling(w, a, c)' PROVE Cardinality(T) = Cardinality(S) - 1
  <2>1. T = S \ {w} /\ w \in S
    BY <1>6
  <2> QED BY <2>1, <1>1, FS_RemoveElement
<1> QED BY <1>2, <1>3, <1>4, <1>5, <1>6

LEMMA SteadyDue ==
    ASSUME NEW a \in Alert, NEW c \in Channel, \A x \in Worker : Still(x, a, c)
    PROVE  Due(a, c)' = Due(a, c)
<1>1. {x \in Worker : Calling(x, a, c)'} = {x \in Worker : Calling(x, a, c)}
  BY DEF Still
<1> QED BY <1>1 DEF Due

LEMMA SteadyKeeps ==
    ASSUME NEW a \in Alert, NEW c \in Channel, Takes(a, c), Calls(a, c), Steady(a, c)
    PROVE  Takes(a, c)' /\ Calls(a, c)'
<1>1. Due(a, c)' = Due(a, c)
  BY SteadyDue DEF Steady
<1>2. Spare(a)' = Spare(a)
  BY DEF Steady, Booked, Spare
<1>3. /\ (Unclaimed(a, c)' <=> Unclaimed(a, c)) /\ (Spoilt(a, c)' <=> Spoilt(a, c)) /\ (Safe(a, c)' <=> Safe(a, c))
  BY DEF Steady, Noted, Still, Unclaimed, Spoilt, Safe
<1>4. Tight(a, c)' <=> Tight(a, c)
  BY <1>3 DEF Tight, Steady, Noted
<1>5. Takes(a, c)'
  BY <1>1, <1>2, <1>3, <1>4 DEF Takes, Steady, Booked
<1>6. Calls(a, c)'
  BY <1>1, <1>2, <1>3 DEF Calls, Steady, Booked, Noted, Still
<1> QED BY <1>5, <1>6

\* A worker's step leaves the others alone,
LEMMA Moves ==
    ASSUME TypeOK, Workers, NEW w \in Worker, NEW step, NEW m, Goto(w, step, m)
    PROVE  /\ pc'[w] = step /\ mem'[w] = m
           /\ \A x \in Worker \ {w} : pc'[x] = pc[x] /\ mem'[x] = mem[x]
           /\ \A x \in Worker \ {w}, a \in Alert, c \in Channel : Still(x, a, c)
<1>1. /\ pc'[w] = step /\ mem'[w] = m
      /\ \A x \in Worker \ {w} : pc'[x] = pc[x] /\ mem'[x] = mem[x]
  BY DEF TypeOK, Workers, Goto
<1>2. ASSUME NEW x \in Worker \ {w}, NEW a \in Alert, NEW c \in Channel PROVE Still(x, a, c)
  BY <1>1 DEF Still, Dealing, Calling, Owing, Withdrawing, Parking
<1> QED BY <1>1, <1>2

\* and is nothing to the alerts it does not work on.
LEMMA Aside ==
    ASSUME TypeOK, Workers, NEW w \in Worker, NEW step, NEW m, Goto(w, step, m),
           NEW a \in Alert, NEW c \in Channel, Takes(a, c), Calls(a, c), Booked(a, c), Noted(a, c),
           pc[w] \notin Beyond \/ mem[w].alert # a, step \notin Beyond \/ m.alert # a
    PROVE  Takes(a, c)' /\ Calls(a, c)'
<1>1. Still(w, a, c)
  BY Moves DEF Still, Dealing, Calling, Owing, Withdrawing, Parking, Beyond, Sending, Stopping
<1>2. Steady(a, c)
  BY <1>1, Moves DEF Steady
<1> QED BY <1>2, SteadyKeeps

LEMMA AtRestKeeps ==
    ASSUME NEW a \in Alert, NEW c \in Channel, Takes(a, c), Calls(a, c),
           UNCHANGED <<pc, mem>>, Booked(a, c), Noted(a, c)
    PROVE  Takes(a, c)' /\ Calls(a, c)'
<1>1. Steady(a, c)
  BY DEF Steady, Still, Dealing, Calling, Owing, Withdrawing, Parking
<1> QED BY <1>1, SteadyKeeps

\* A dispatch begins to send the alert or to withdraw it: beside another, or alone.
LEMMA BeginKeeps ==
    ASSUME TypeOK, Workers, NEW a \in Alert, NEW c \in Channel, NEW w \in Worker, Takes(a, c), Calls(a, c),
           \A x \in Worker \ {w} : Still(x, a, c),
           ~Dealing(w, a), ~Withdrawing(w, a), ~Owing(w, a, c), ~Parking(w, a, c),
           ~Owing(w, a, c)', ~Parking(w, a, c)', Calling(w, a, c)' \/ (~Dealing(w, a)' /\ Withdrawing(w, a)'),
           Calling(w, a, c)' => ~Withdrawing(w, a)',
           Noted(a, c), landed'[a][c] = landed[a][c], calls'[a][c] = calls[a][c], crashed'[a] = crashed[a],
           overlaps'[a] = IF \A x \in Worker : ~Dealing(x, a) /\ ~Withdrawing(x, a) THEN overlaps[a]
                          ELSE overlaps[a] + 1
    PROVE  Takes(a, c)' /\ Calls(a, c)'
<1>n. /\ landed[a][c] \in Nat /\ calls[a][c] \in Nat /\ attempts[a][c] \in Nat
      /\ crashed[a] \in Nat /\ overlaps[a] \in Nat
  BY DEF TypeOK
<1>s. \A x \in Worker : mem[x].seen \in Nat
  BY DEF Workers, Memory
<1>d. /\ Due(a, c)' \in Nat /\ Due(a, c) \in Nat
      /\ Due(a, c)' = Due(a, c) + (IF Calling(w, a, c)' THEN 1 ELSE 0)
      /\ ((\A x \in Worker : ~Calling(x, a, c)) => Due(a, c) = 0)
  BY DueMoves, DueCounts DEF Still, Calling
<1>o. \A x \in Worker : (Owing(x, a, c) => Dealing(x, a)) /\ (Parking(x, a, c) => Withdrawing(x, a))
  BY DEF Owing, Dealing, Parking, Withdrawing, Sending, Stopping
<1>1. CASE \A x \in Worker : ~Dealing(x, a) /\ ~Withdrawing(x, a)
  <2>1. Due(a, c) = 0 /\ Spare(a)' = Spare(a) /\ Spare(a) \in Nat
    BY <1>1, <1>n, <1>d DEF Calling, Spare
  <2>2. Unclaimed(a, c) /\ ~Spoilt(a, c) /\ (Safe(a, c) <=> leg[a][c] = "delivered")
    BY <1>1, <1>o DEF Unclaimed, Spoilt, Safe
  <2>3. /\ \A x \in Worker : ~Owing(x, a, c)' /\ ~Parking(x, a, c)'
        /\ \A x \in Worker \ {w} : ~Dealing(x, a)' /\ ~Withdrawing(x, a)'
    BY <1>1, <1>o DEF Still
  <2>4. /\ (Safe(a, c)' <=> leg[a][c] = "delivered") /\ (Calling(w, a, c)' => ~Spoilt(a, c)' /\ ~Unclaimed(a, c)')
    BY <2>3 DEF Safe, Spoilt, Unclaimed, Noted, Calling
  <2>5. Takes(a, c)'
    BY <1>n, <1>d, <2>1, <2>2, <2>4 DEF Takes, Tight, Noted
  <2>6. Calls(a, c)'
    BY <1>n, <1>d, <2>1, <2>2, <2>3, <2>4 DEF Calls, Noted
  <2> QED BY <2>5, <2>6
<1>2. CASE ~\A x \in Worker : ~Dealing(x, a) /\ ~Withdrawing(x, a)
  <2>1. Spare(a)' = Spare(a) + 1 /\ Spare(a) \in Nat
    BY <1>2, <1>n DEF Spare
  <2>2. (Safe(a, c)' <=> Safe(a, c)) /\ (Unclaimed(a, c)' => Unclaimed(a, c) \/ ~Calling(w, a, c)')
    BY <1>2, <1>o DEF Safe, Unclaimed, Noted, Still
  <2>3. Calling(w, a, c)' => (Spoilt(a, c)' <=> Spoilt(a, c))
    BY <1>o DEF Spoilt, Still
  <2>4. Takes(a, c)'
    BY <1>n, <1>d, <2>1, <2>2, <2>3 DEF Takes, Tight, Noted
  <2>5. /\ \A x \in Worker : Owing(x, a, c)' /\ pc'[x] = "save" => Owing(x, a, c) /\ pc[x] = "save" /\ mem'[x].seen = mem[x].seen
    BY DEF Still
  <2>6. Calls(a, c)'
    BY <1>n, <1>s, <1>d, <2>1, <2>2, <2>5, AlertAssumption DEF Calls, Noted
  <2> QED BY <2>4, <2>6
<1> QED BY <1>1, <1>2

\* One with nothing left to do ends.
LEMMA EndKeeps ==
    ASSUME TypeOK, Workers, NEW a \in Alert, NEW c \in Channel, NEW w \in Worker, Takes(a, c), Calls(a, c),
           \A x \in Worker \ {w} : Still(x, a, c),
           (Dealing(w, a) /\ ~Calling(w, a, c)) \/ Withdrawing(w, a), ~Owing(w, a, c), ~Parking(w, a, c), Withdrawing(w, a) => ~Dealing(w, a),
           ~Dealing(w, a)', ~Withdrawing(w, a)', ~Owing(w, a, c)', ~Parking(w, a, c)',
           Booked(a, c), Noted(a, c)
    PROVE  Takes(a, c)' /\ Calls(a, c)'
<1>n. /\ landed[a][c] \in Nat /\ calls[a][c] \in Nat /\ attempts[a][c] \in Nat
      /\ crashed[a] \in Nat /\ overlaps[a] \in Nat
  BY DEF TypeOK
<1>s. \A x \in Worker : mem[x].seen \in Nat
  BY DEF Workers, Memory
<1>d. Due(a, c)' \in Nat /\ Due(a, c) \in Nat /\ Due(a, c)' = Due(a, c)
  BY DueMoves, DueCounts DEF Still, Calling
<1>1. Takes(a, c)'
  BY <1>n, <1>d DEF Takes, Spare, Safe, Tight, Spoilt, Unclaimed, Booked, Noted, Still, Calling
<1>2. Calls(a, c)'
  BY <1>n, <1>s, <1>d, AlertAssumption DEF Calls, Spare, Unclaimed, Booked, Noted, Still, Calling
<1> QED BY <1>1, <1>2

\* One dies, whatever it had in hand.
LEMMA DeathKeeps ==
    ASSUME TypeOK, Workers, NEW a \in Alert, NEW c \in Channel, NEW w \in Worker, Takes(a, c), Calls(a, c),
           \A x \in Worker \ {w} : Still(x, a, c),
           ~Dealing(w, a)', ~Withdrawing(w, a)', ~Owing(w, a, c)', ~Parking(w, a, c)',
           Noted(a, c), landed'[a][c] = landed[a][c], calls'[a][c] = calls[a][c],
           crashed'[a] = crashed[a] + 1, overlaps'[a] = overlaps[a]
    PROVE  Takes(a, c)' /\ Calls(a, c)'
<1>n. /\ landed[a][c] \in Nat /\ calls[a][c] \in Nat /\ attempts[a][c] \in Nat
      /\ crashed[a] \in Nat /\ overlaps[a] \in Nat
  BY DEF TypeOK
<1>s. \A x \in Worker : mem[x].seen \in Nat
  BY DEF Workers, Memory
<1>d. Due(a, c)' \in Nat /\ Due(a, c) \in Nat /\ Due(a, c)' <= Due(a, c)
  BY DueMoves, DueCounts DEF Still, Calling
<1>1. Takes(a, c)'
  BY <1>n, <1>d DEF Takes, Spare, Safe, Tight, Spoilt, Unclaimed, Booked, Noted, Still, Calling
<1>2. Calls(a, c)'
  BY <1>n, <1>s, <1>d, AlertAssumption DEF Calls, Spare, Unclaimed, Booked, Noted, Still, Calling
<1> QED BY <1>1, <1>2

\* One that withdraws the alert lists its failed legs,
LEMMA ListKeeps ==
    ASSUME TypeOK, Workers, NEW a \in Alert, NEW c \in Channel, NEW w \in Worker, Takes(a, c), Calls(a, c),
           \A x \in Worker \ {w} : Still(x, a, c),
           Withdrawing(w, a), ~Dealing(w, a), ~Owing(w, a, c), ~Parking(w, a, c),
           Withdrawing(w, a)', ~Dealing(w, a)', ~Owing(w, a, c)', Parking(w, a, c)' => leg[a][c] # "delivered",
           Booked(a, c), Noted(a, c)
    PROVE  Takes(a, c)' /\ Calls(a, c)'
<1>n. /\ landed[a][c] \in Nat /\ calls[a][c] \in Nat /\ attempts[a][c] \in Nat
      /\ crashed[a] \in Nat /\ overlaps[a] \in Nat
  BY DEF TypeOK
<1>s. \A x \in Worker : mem[x].seen \in Nat
  BY DEF Workers, Memory
<1>d. Due(a, c)' \in Nat /\ Due(a, c) \in Nat /\ Due(a, c)' = Due(a, c)
  BY DueMoves, DueCounts DEF Still, Calling
<1>1. Takes(a, c)'
  BY <1>n, <1>d DEF Takes, Spare, Safe, Tight, Spoilt, Unclaimed, Booked, Noted, Still, Calling
<1>2. Calls(a, c)'
  BY <1>n, <1>s, <1>d, AlertAssumption DEF Calls, Spare, Unclaimed, Booked, Noted, Still, Calling
<1> QED BY <1>1, <1>2

\* and saves one of them as skipped.
LEMMA ParkKeeps ==
    ASSUME TypeOK, Workers, NEW a \in Alert, NEW c \in Channel, NEW w \in Worker, Takes(a, c), Calls(a, c),
           \A x \in Worker \ {w} : Still(x, a, c),
           Withdrawing(w, a), ~Dealing(w, a), ~Owing(w, a, c), Parking(w, a, c),
           Withdrawing(w, a)', ~Dealing(w, a)', ~Owing(w, a, c)', ~Parking(w, a, c)',
           Booked(a, c), attempts'[a][c] = attempts[a][c], leg'[a][c] # "delivered"
    PROVE  Takes(a, c)' /\ Calls(a, c)'
<1>n. /\ landed[a][c] \in Nat /\ calls[a][c] \in Nat /\ attempts[a][c] \in Nat
      /\ crashed[a] \in Nat /\ overlaps[a] \in Nat
  BY DEF TypeOK
<1>s. \A x \in Worker : mem[x].seen \in Nat
  BY DEF Workers, Memory
<1>d. Due(a, c)' \in Nat /\ Due(a, c) \in Nat /\ Due(a, c)' = Due(a, c)
  BY DueMoves, DueCounts DEF Still, Calling
<1>1. Takes(a, c)'
  BY <1>n, <1>d DEF Takes, Spare, Safe, Tight, Spoilt, Unclaimed, Booked, Noted, Still, Calling
<1>2. Calls(a, c)'
  BY <1>n, <1>s, <1>d, AlertAssumption DEF Calls, Spare, Unclaimed, Booked, Noted, Still, Calling
<1> QED BY <1>1, <1>2

\* A dispatcher passes the channel over,
LEMMA PassKeeps ==
    ASSUME TypeOK, Workers, NEW a \in Alert, NEW c \in Channel, NEW w \in Worker, Takes(a, c), Calls(a, c),
           \A x \in Worker \ {w} : Still(x, a, c),
           Calling(w, a, c), ~Withdrawing(w, a), ~Owing(w, a, c), ~Parking(w, a, c),
           Dealing(w, a)', ~Calling(w, a, c)', ~Withdrawing(w, a)', ~Owing(w, a, c)', ~Parking(w, a, c)',
           Booked(a, c), Noted(a, c)
    PROVE  Takes(a, c)' /\ Calls(a, c)'
<1>n. /\ landed[a][c] \in Nat /\ calls[a][c] \in Nat /\ attempts[a][c] \in Nat
      /\ crashed[a] \in Nat /\ overlaps[a] \in Nat
  BY DEF TypeOK
<1>s. \A x \in Worker : mem[x].seen \in Nat
  BY DEF Workers, Memory
<1>d. Due(a, c)' \in Nat /\ Due(a, c) \in Nat /\ Due(a, c)' = Due(a, c) - 1
  BY DueMoves, DueCounts DEF Still, Calling
<1>1. Takes(a, c)'
  BY <1>n, <1>d DEF Takes, Spare, Safe, Tight, Spoilt, Unclaimed, Booked, Noted, Still, Calling
<1>2. Calls(a, c)'
  BY <1>n, <1>s, <1>d, AlertAssumption DEF Calls, Spare, Unclaimed, Booked, Noted, Still, Calling
<1> QED BY <1>1, <1>2

\* calls its provider,
LEMMA SendKeeps ==
    ASSUME TypeOK, Workers, NEW a \in Alert, NEW c \in Channel, NEW w \in Worker, Takes(a, c), Calls(a, c),
           \A x \in Worker \ {w} : Still(x, a, c),
           Calling(w, a, c), ~Withdrawing(w, a), ~Owing(w, a, c), ~Parking(w, a, c), leg[a][c] # "delivered",
           Dealing(w, a)', ~Calling(w, a, c)', ~Withdrawing(w, a)', Owing(w, a, c)', ~Parking(w, a, c)',
           pc'[w] # "save", attempts[a][c] < MaxAttempts,
           Noted(a, c), calls'[a][c] = calls[a][c] + 1, crashed'[a] = crashed[a], overlaps'[a] = overlaps[a],
           landed'[a][c] = landed[a][c] + (IF mem'[w].result = "delivered" THEN 1 ELSE 0)
    PROVE  Takes(a, c)' /\ Calls(a, c)'
<1>n. /\ landed[a][c] \in Nat /\ calls[a][c] \in Nat /\ attempts[a][c] \in Nat
      /\ crashed[a] \in Nat /\ overlaps[a] \in Nat
  BY DEF TypeOK
<1>s. \A x \in Worker : mem[x].seen \in Nat
  BY DEF Workers, Memory
<1>d. Due(a, c)' \in Nat /\ Due(a, c) \in Nat /\ Due(a, c)' = Due(a, c) - 1
  BY DueMoves, DueCounts DEF Still, Calling
<1>1. Takes(a, c)'
  BY <1>n, <1>d DEF Takes, Spare, Safe, Tight, Spoilt, Unclaimed, Booked, Noted, Still, Calling
<1>2. Calls(a, c)'
  BY <1>n, <1>s, <1>d, AlertAssumption DEF Calls, Spare, Unclaimed, Booked, Noted, Still, Calling
<1> QED BY <1>1, <1>2

\* reads the leg's row,
LEMMA FetchKeeps ==
    ASSUME TypeOK, Workers, NEW a \in Alert, NEW c \in Channel, NEW w \in Worker, Takes(a, c), Calls(a, c),
           \A x \in Worker \ {w} : Still(x, a, c),
           ~Withdrawing(w, a), Owing(w, a, c), ~Parking(w, a, c), Calling(w, a, c)' <=> Calling(w, a, c), Dealing(w, a),
           Dealing(w, a)', ~Withdrawing(w, a)', Owing(w, a, c)', ~Parking(w, a, c)',
           mem'[w].result = mem[w].result, mem'[w].seen = attempts[a][c],
           Booked(a, c), Noted(a, c)
    PROVE  Takes(a, c)' /\ Calls(a, c)'
<1>n. /\ landed[a][c] \in Nat /\ calls[a][c] \in Nat /\ attempts[a][c] \in Nat
      /\ crashed[a] \in Nat /\ overlaps[a] \in Nat
  BY DEF TypeOK
<1>s. \A x \in Worker : mem[x].seen \in Nat
  BY DEF Workers, Memory
<1>d. Due(a, c)' \in Nat /\ Due(a, c) \in Nat /\ Due(a, c)' = Due(a, c)
  BY DueMoves, DueCounts DEF Still, Calling
<1>1. Takes(a, c)'
  BY <1>n, <1>d DEF Takes, Spare, Safe, Tight, Spoilt, Unclaimed, Booked, Noted, Still, Calling
<1>2. Calls(a, c)'
  BY <1>n, <1>s, <1>d, AlertAssumption DEF Calls, Spare, Unclaimed, Booked, Noted, Still, Calling
<1> QED BY <1>1, <1>2

\* and saves it.
LEMMA SaveKeeps ==
    ASSUME TypeOK, Workers, NEW a \in Alert, NEW c \in Channel, NEW w \in Worker, Takes(a, c), Calls(a, c),
           \A x \in Worker \ {w} : Still(x, a, c),
           ~Withdrawing(w, a), Owing(w, a, c), ~Parking(w, a, c), pc[w] = "save", ~Calling(w, a, c), Dealing(w, a),
           Dealing(w, a)', ~Calling(w, a, c)', ~Withdrawing(w, a)', ~Owing(w, a, c)', ~Parking(w, a, c)',
           leg'[a][c] = mem[w].result, attempts'[a][c] = mem[w].seen + 1, Booked(a, c)
    PROVE  Takes(a, c)' /\ Calls(a, c)'
<1>n. /\ landed[a][c] \in Nat /\ calls[a][c] \in Nat /\ attempts[a][c] \in Nat
      /\ crashed[a] \in Nat /\ overlaps[a] \in Nat
  BY DEF TypeOK
<1>s. \A x \in Worker : mem[x].seen \in Nat
  BY DEF Workers, Memory
<1>d. Due(a, c)' \in Nat /\ Due(a, c) \in Nat /\ Due(a, c)' = Due(a, c)
  BY DueMoves, DueCounts DEF Still, Calling
<1>1. Takes(a, c)'
  BY <1>n, <1>d DEF Takes, Spare, Safe, Tight, Spoilt, Unclaimed, Booked, Noted, Still, Calling
<1>2. Calls(a, c)'
  BY <1>n, <1>s, <1>d, AlertAssumption DEF Calls, Spare, Unclaimed, Booked, Noted, Still, Calling
<1> QED BY <1>1, <1>2

-----------------------------------------------------------------------------
(* Every step keeps the accounts                                           *)

LEMMA AccountsKept ==
    ASSUME Inv, [Next]_vars, NEW a \in Alert, NEW c \in Channel
    PROVE  Takes(a, c)' /\ Calls(a, c)'
<1>t. TypeOK /\ Workers /\ Takes(a, c) /\ Calls(a, c)
  BY DEF Inv
<1>1. CASE UNCHANGED vars
  BY <1>1, <1>t, AtRestKeeps DEF vars, Booked, Noted
<1>2. ASSUME NEW w \in Worker, NEW b \in Alert, TakeJob(w, b) PROVE Takes(a, c)' /\ Calls(a, c)'
  <2>1. \E m : Goto(w, "load", m) /\ pc[w] \notin Beyond
    BY <1>2 DEF TakeJob, Start, Goto, Beyond
  <2> QED BY <1>2, <1>t, <2>1, Aside DEF TakeJob, Booked, Noted, rows, providers, history, Beyond
<1>3. ASSUME NEW w \in Worker, NEW b \in Alert, DispatchDue(w, b) PROVE Takes(a, c)' /\ Calls(a, c)'
  <2>1. Booked(a, c) /\ Noted(a, c)
    BY <1>3 DEF DispatchDue, Booked, Noted, rows, providers, history
  <2>2. CASE late[b]
    BY <1>3, <1>t, <2>1, <2>2, AtRestKeeps DEF DispatchDue
  <2>3. CASE ~late[b]
    <3>1. \E m : Goto(w, "load", m) /\ pc[w] \notin Beyond
      BY <1>3, <2>3 DEF DispatchDue, Start, Goto, Beyond
    <3> QED BY <1>t, <2>1, <3>1, Aside DEF Beyond
  <2> QED BY <2>2, <2>3
<1>4. ASSUME NEW w \in Worker, NEW b \in Alert, RetrySweep(w, b) PROVE Takes(a, c)' /\ Calls(a, c)'
  <2>1. \E m : Goto(w, "load", m) /\ pc[w] \notin Beyond
    BY <1>4 DEF RetrySweep, Start, Goto, Beyond
  <2> QED BY <1>4, <1>t, <2>1, Aside DEF RetrySweep, Booked, Noted, rows, providers, history, Beyond
<1>5. ASSUME NEW w \in Worker, Load(w) PROVE Takes(a, c)' /\ Calls(a, c)'
  <2>1. Booked(a, c) /\ Noted(a, c) /\ pc[w] \notin Beyond
    BY <1>5 DEF Load, Booked, Noted, rows, providers, history, Beyond
  <2>2. CASE Done(w)
    <3>1. Goto(w, "idle", Idle)
      BY <2>2 DEF Done, Goto
    <3> QED BY <1>t, <2>1, <3>1, Aside DEF Beyond
  <2>3. CASE Goto(w, "begin", [mem[w] EXCEPT !.late = late[mem[w].alert]])
    BY <1>t, <2>1, <2>3, Aside DEF Beyond
  <2> QED BY <1>5, <2>2, <2>3 DEF Load
<1>6. ASSUME NEW w \in Worker, Expire(w) PROVE Takes(a, c)' /\ Calls(a, c)'
  <2>1. \E m : Goto(w, "idle", m) /\ pc[w] \notin Beyond
    BY <1>6 DEF Expire, Done, Goto, Beyond
  <2> QED BY <1>6, <1>t, <2>1, Aside DEF Expire, Booked, Noted, rows, providers, history, Beyond
<1>7. ASSUME NEW w \in Worker, BeginSending(w) PROVE Takes(a, c)' /\ Calls(a, c)'
  <2> DEFINE m == [mem[w] EXCEPT !.todo = Channel]
  <2>1. Goto(w, "walk", m)
    BY <1>7 DEF BeginSending, Goto
  <2>2. mem[w] \in Memory /\ Fits(pc[w], mem[w]) /\ mem[w].alert \in Alert
    BY <1>7, <1>t DEF BeginSending, Workers, Fits
  <2>3. m.alert = mem[w].alert /\ m.todo = Channel
    BY <2>2 DEF Memory
  <2> HIDE DEF m
  <2>4. CASE a # mem[w].alert
    <3>1. Booked(a, c) /\ Noted(a, c)
      BY <1>7, <1>t, <2>2, <2>4
         DEF BeginSending, Booked, Noted, TypeOK, rows, providers, history, CountOverlap
    <3> QED BY <1>t, <2>1, <2>3, <2>4, <3>1, Aside DEF Beyond
  <2>5. CASE a = mem[w].alert
    <3>2. /\ landed'[a][c] = landed[a][c] /\ calls'[a][c] = calls[a][c] /\ crashed'[a] = crashed[a]
          /\ Noted(a, c)
          /\ overlaps'[a] = IF UnderWay(a) = {} THEN overlaps[a] ELSE overlaps[a] + 1
      BY <1>7, <1>t, <2>2, <2>3, <2>5
         DEF BeginSending, Booked, Noted, TypeOK, rows, providers, history, CountOverlap
    <3>3. /\ ~Dealing(w, a) /\ ~Withdrawing(w, a) /\ ~Owing(w, a, c) /\ ~Parking(w, a, c)
      BY <1>7, <1>t, <2>2, <2>3, <2>5
         DEF BeginSending, Fits, Dealing, Calling, Owing, Withdrawing, Parking, Sending, Stopping,
             Beyond
    <3>4. /\ Calling(w, a, c)' /\ ~Withdrawing(w, a)' /\ ~Owing(w, a, c)' /\ ~Parking(w, a, c)'
      BY <1>7, <1>t, <2>2, <2>3, <2>5, <2>1, Moves
         DEF BeginSending, Fits, Dealing, Calling, Owing, Withdrawing, Parking, Sending, Stopping,
             Beyond
    <3>5. UnderWay(a) = {} <=> \A x \in Worker : ~Dealing(x, a) /\ ~Withdrawing(x, a)
      BY DEF UnderWay, Dealing, Withdrawing, Sending, Stopping, Beyond
    <3> QED BY <1>7, <1>t, <2>1, <3>2, <3>3, <3>4, <3>5, Moves, BeginKeeps
  <2> QED BY <2>4, <2>5
<1>8. ASSUME NEW w \in Worker, BeginWithdraw(w) PROVE Takes(a, c)' /\ Calls(a, c)'
  <2> DEFINE m == [mem[w] EXCEPT !.ok = \E d \in Channel : leg[mem[w].alert][d] = "delivered"]
  <2>1. Goto(w, "withdraw", m)
    BY <1>8 DEF BeginWithdraw, Goto
  <2>2. mem[w] \in Memory /\ Fits(pc[w], mem[w]) /\ mem[w].alert \in Alert
    BY <1>8, <1>t DEF BeginWithdraw, Workers, Fits
  <2>3. m.alert = mem[w].alert
    BY <2>2 DEF Memory
  <2> HIDE DEF m
  <2>4. CASE a # mem[w].alert
    <3>1. Booked(a, c) /\ Noted(a, c)
      BY <1>8, <1>t, <2>2, <2>4
         DEF BeginWithdraw, Booked, Noted, TypeOK, rows, providers, history, CountOverlap
    <3> QED BY <1>t, <2>1, <2>3, <2>4, <3>1, Aside DEF Beyond
  <2>5. CASE a = mem[w].alert
    <3>2. /\ landed'[a][c] = landed[a][c] /\ calls'[a][c] = calls[a][c] /\ crashed'[a] = crashed[a]
          /\ Noted(a, c)
          /\ overlaps'[a] = IF UnderWay(a) = {} THEN overlaps[a] ELSE overlaps[a] + 1
      BY <1>8, <1>t, <2>2, <2>3, <2>5
         DEF BeginWithdraw, Booked, Noted, TypeOK, rows, providers, history, CountOverlap
    <3>3. /\ ~Dealing(w, a) /\ ~Withdrawing(w, a) /\ ~Owing(w, a, c) /\ ~Parking(w, a, c)
      BY <1>8, <1>t, <2>2, <2>3, <2>5
         DEF BeginWithdraw, Fits, Dealing, Calling, Owing, Withdrawing, Parking, Sending, Stopping,
             Beyond
    <3>4. /\ ~Dealing(w, a)' /\ Withdrawing(w, a)' /\ ~Calling(w, a, c)' /\ ~Owing(w, a, c)'
          /\ ~Parking(w, a, c)'
      BY <1>8, <1>t, <2>2, <2>3, <2>5, <2>1, Moves
         DEF BeginWithdraw, Fits, Dealing, Calling, Owing, Withdrawing, Parking, Sending, Stopping,
             Beyond
    <3>5. UnderWay(a) = {} <=> \A x \in Worker : ~Dealing(x, a) /\ ~Withdrawing(x, a)
      BY DEF UnderWay, Dealing, Withdrawing, Sending, Stopping, Beyond
    <3> QED BY <1>8, <1>t, <2>1, <3>2, <3>3, <3>4, <3>5, Moves, BeginKeeps
  <2> QED BY <2>4, <2>5
<1>9. ASSUME NEW w \in Worker, SaveWithdrawn(w) PROVE Takes(a, c)' /\ Calls(a, c)'
  <2> DEFINE m == mem[w]
  <2>1. Goto(w, "skip", m)
    BY <1>9 DEF SaveWithdrawn, Goto
  <2>2. mem[w] \in Memory /\ Fits(pc[w], mem[w]) /\ mem[w].alert \in Alert
    BY <1>9, <1>t DEF SaveWithdrawn, Workers, Fits
  <2>3. m.alert = mem[w].alert
    OBVIOUS
  <2>4. Booked(a, c) /\ Noted(a, c)
    BY <1>9, <1>t, <2>2 DEF SaveWithdrawn, Booked, Noted, TypeOK, rows, providers, history
  <2>5. Still(w, a, c)
    BY <1>9, <1>t, <2>1, Moves
       DEF SaveWithdrawn, Still, Dealing, Calling, Owing, Withdrawing, Parking, Sending, Stopping,
           Beyond
  <2>6. Steady(a, c)
    BY <1>t, <2>1, <2>4, <2>5, Moves DEF Steady
  <2> QED BY <1>t, <2>6, SteadyKeeps
<1>10. ASSUME NEW w \in Worker, SkipLegs(w) PROVE Takes(a, c)' /\ Calls(a, c)'
  <2> DEFINE m == mem[w]
  <2>1. Goto(w, "list", m)
    BY <1>10 DEF SkipLegs, Goto
  <2>2. mem[w] \in Memory /\ Fits(pc[w], mem[w]) /\ mem[w].alert \in Alert
    BY <1>10, <1>t DEF SkipLegs, Workers, Fits
  <2>3. m.alert = mem[w].alert
    OBVIOUS
  <2>4. Booked(a, c) /\ Noted(a, c)
    BY <1>10, <1>t, <2>2 DEF SkipLegs, Booked, Noted, TypeOK, rows, providers, history, Turned
  <2>5. Still(w, a, c)
    BY <1>10, <1>t, <2>1, Moves
       DEF SkipLegs, Still, Dealing, Calling, Owing, Withdrawing, Parking, Sending, Stopping, Beyond
  <2>6. Steady(a, c)
    BY <1>t, <2>1, <2>4, <2>5, Moves DEF Steady
  <2> QED BY <1>t, <2>6, SteadyKeeps
<1>11. ASSUME NEW w \in Worker, ListFailed(w) PROVE Takes(a, c)' /\ Calls(a, c)'
  <2> DEFINE m == [mem[w] EXCEPT !.todo = {d \in Channel : leg[mem[w].alert][d] = "failed"}]
  <2>1. Goto(w, "park", m)
    BY <1>11 DEF ListFailed, Goto
  <2>2. mem[w] \in Memory /\ Fits(pc[w], mem[w]) /\ mem[w].alert \in Alert
    BY <1>11, <1>t DEF ListFailed, Workers, Fits
  <2>3. m.alert = mem[w].alert /\ m.todo = {d \in Channel : leg[mem[w].alert][d] = "failed"}
    BY <2>2 DEF Memory
  <2> HIDE DEF m
  <2>4. CASE a # mem[w].alert
    <3>1. Booked(a, c) /\ Noted(a, c)
      BY <1>11, <1>t, <2>2, <2>4 DEF ListFailed, Booked, Noted, TypeOK, rows, providers, history
    <3> QED BY <1>t, <2>1, <2>3, <2>4, <3>1, Aside DEF Beyond
  <2>5. CASE a = mem[w].alert
    <3>2. Booked(a, c) /\ Noted(a, c)
      BY <1>11, <1>t, <2>2, <2>3, <2>5
         DEF ListFailed, Booked, Noted, TypeOK, rows, providers, history
    <3>3. /\ Withdrawing(w, a) /\ ~Dealing(w, a) /\ ~Owing(w, a, c) /\ ~Parking(w, a, c)
      BY <1>11, <1>t, <2>2, <2>3, <2>5
         DEF ListFailed, Fits, Dealing, Calling, Owing, Withdrawing, Parking, Sending, Stopping,
             Beyond
    <3>4. /\ Withdrawing(w, a)' /\ ~Dealing(w, a)' /\ ~Owing(w, a, c)'
          /\ (Parking(w, a, c)' => leg[a][c] # "delivered")
      BY <1>11, <1>t, <2>2, <2>3, <2>5, <2>1, Moves
         DEF ListFailed, Fits, Dealing, Calling, Owing, Withdrawing, Parking, Sending, Stopping,
             Beyond
    <3> QED BY <1>11, <1>t, <2>1, <3>2, <3>3, <3>4, Moves, ListKeeps
  <2> QED BY <2>4, <2>5
<1>12. ASSUME NEW w \in Worker, NEW d \in Channel, ParkLeg(w, d) PROVE Takes(a, c)' /\ Calls(a, c)'
  <2> DEFINE m == [mem[w] EXCEPT !.todo = @ \ {d}]
  <2>1. Goto(w, "park", m)
    BY <1>12 DEF ParkLeg, Goto
  <2>2. mem[w] \in Memory /\ Fits(pc[w], mem[w]) /\ mem[w].alert \in Alert
    BY <1>12, <1>t DEF ParkLeg, Workers, Fits
  <2>3. m.alert = mem[w].alert /\ m.todo = mem[w].todo \ {d}
    BY <2>2 DEF Memory
  <2> HIDE DEF m
  <2>4. CASE a # mem[w].alert
    <3>1. Booked(a, c) /\ Noted(a, c)
      BY <1>12, <1>t, <2>2, <2>4 DEF ParkLeg, Booked, Noted, TypeOK, rows, providers, history
    <3> QED BY <1>t, <2>1, <2>3, <2>4, <3>1, Aside DEF Beyond
  <2>5. CASE a = mem[w].alert
    <3>1. CASE c # d
      <4>1. Booked(a, c) /\ Noted(a, c)
        BY <1>12, <1>t, <2>2, <2>5, <3>1
           DEF ParkLeg, Booked, Noted, TypeOK, rows, providers, history
      <4>2. Still(w, a, c)
        BY <1>12, <1>t, <2>1, <2>2, <2>3, <2>5, <3>1, Moves
           DEF ParkLeg, Still, Fits, Dealing, Calling, Owing, Withdrawing, Parking, Sending,
               Stopping, Beyond
      <4>3. Steady(a, c)
        BY <1>t, <2>1, <4>1, <4>2, Moves DEF Steady
      <4> QED BY <1>t, <4>3, SteadyKeeps
    <3>2. CASE c = d
      <4>2. Booked(a, c) /\ attempts'[a][c] = attempts[a][c] /\ leg'[a][c] # "delivered"
        BY <1>12, <1>t, <2>2, <2>3, <2>5, <3>2
           DEF ParkLeg, Booked, Noted, TypeOK, rows, providers, history
      <4>3. /\ Withdrawing(w, a) /\ ~Dealing(w, a) /\ ~Owing(w, a, c) /\ Parking(w, a, c)
        BY <1>12, <1>t, <2>2, <2>3, <2>5, <3>2
           DEF ParkLeg, Fits, Dealing, Calling, Owing, Withdrawing, Parking, Sending, Stopping,
               Beyond
      <4>4. /\ Withdrawing(w, a)' /\ ~Dealing(w, a)' /\ ~Owing(w, a, c)' /\ ~Parking(w, a, c)'
        BY <1>12, <1>t, <2>2, <2>3, <2>5, <3>2, <2>1, Moves
           DEF ParkLeg, Fits, Dealing, Calling, Owing, Withdrawing, Parking, Sending, Stopping,
               Beyond
      <4> QED BY <1>12, <1>t, <2>1, <4>2, <4>3, <4>4, Moves, ParkKeeps
    <3> QED BY <3>1, <3>2
  <2> QED BY <2>4, <2>5
<1>13. ASSUME NEW w \in Worker, EndWithdraw(w) PROVE Takes(a, c)' /\ Calls(a, c)'
  <2> DEFINE m == Idle
  <2>1. Goto(w, "idle", m)
    BY <1>13 DEF EndWithdraw, Goto, Done
  <2>2. mem[w] \in Memory /\ Fits(pc[w], mem[w]) /\ mem[w].alert \in Alert
    BY <1>13, <1>t DEF EndWithdraw, Workers, Fits
  <2>4. CASE a # mem[w].alert
    <3>1. Booked(a, c) /\ Noted(a, c)
      BY <1>13, <1>t, <2>2, <2>4 DEF EndWithdraw, Booked, Noted, TypeOK, rows, providers, history
    <3> QED BY <1>t, <2>1, <2>4, <3>1, Aside DEF Beyond
  <2>5. CASE a = mem[w].alert
    <3>2. Booked(a, c) /\ Noted(a, c)
      BY <1>13, <1>t, <2>2, <2>5 DEF EndWithdraw, Booked, Noted, TypeOK, rows, providers, history
    <3>3. /\ ~Dealing(w, a) /\ Withdrawing(w, a) /\ ~Owing(w, a, c) /\ ~Parking(w, a, c)
      BY <1>13, <1>t, <2>2, <2>5
         DEF EndWithdraw, Fits, Dealing, Calling, Owing, Withdrawing, Parking, Sending, Stopping,
             Beyond
    <3>4. /\ ~Dealing(w, a)' /\ ~Withdrawing(w, a)' /\ ~Owing(w, a, c)' /\ ~Parking(w, a, c)'
      BY <1>13, <1>t, <2>2, <2>5, <2>1, Moves
         DEF EndWithdraw, Fits, Dealing, Calling, Owing, Withdrawing, Parking, Sending, Stopping,
             Beyond
    <3> QED BY <1>13, <1>t, <2>1, <3>2, <3>3, <3>4, Moves, EndKeeps
  <2> QED BY <2>4, <2>5
<1>14. ASSUME NEW w \in Worker, NEW d \in Channel, PassDelivered(w, d)
       PROVE Takes(a, c)' /\ Calls(a, c)'
  <2> DEFINE m == [mem[w] EXCEPT !.todo = @ \ {d}, !.ok = TRUE]
  <2>1. Goto(w, "walk", m)
    BY <1>14 DEF PassDelivered, Passed, Goto
  <2>2. mem[w] \in Memory /\ Fits(pc[w], mem[w]) /\ mem[w].alert \in Alert
    BY <1>14, <1>t DEF PassDelivered, Workers, Fits, Comes
  <2>3. m.alert = mem[w].alert /\ m.todo = mem[w].todo \ {d}
    BY <2>2 DEF Memory
  <2> HIDE DEF m
  <2>4. CASE a # mem[w].alert
    <3>1. Booked(a, c) /\ Noted(a, c)
      BY <1>14, <1>t, <2>2, <2>4 DEF PassDelivered, Booked, Noted, TypeOK, rows, providers, history
    <3> QED BY <1>t, <2>1, <2>3, <2>4, <3>1, Aside DEF Beyond
  <2>5. CASE a = mem[w].alert
    <3>1. CASE c # d
      <4>1. Booked(a, c) /\ Noted(a, c)
        BY <1>14, <1>t, <2>2, <2>5, <3>1
           DEF PassDelivered, Booked, Noted, TypeOK, rows, providers, history
      <4>2. Still(w, a, c)
        BY <1>14, <1>t, <2>1, <2>2, <2>3, <2>5, <3>1, Moves
           DEF PassDelivered, Comes, Passed, Still, Fits, Dealing, Calling, Owing, Withdrawing,
               Parking, Sending, Stopping, Beyond
      <4>3. Steady(a, c)
        BY <1>t, <2>1, <4>1, <4>2, Moves DEF Steady
      <4> QED BY <1>t, <4>3, SteadyKeeps
    <3>2. CASE c = d
      <4>2. Booked(a, c) /\ Noted(a, c)
        BY <1>14, <1>t, <2>2, <2>3, <2>5, <3>2
           DEF PassDelivered, Booked, Noted, TypeOK, rows, providers, history
      <4>3. /\ Calling(w, a, c) /\ ~Withdrawing(w, a) /\ ~Owing(w, a, c) /\ ~Parking(w, a, c)
        BY <1>14, <1>t, <2>2, <2>3, <2>5, <3>2
           DEF PassDelivered, Comes, Fits, Dealing, Calling, Owing, Withdrawing, Parking, Sending,
               Stopping, Beyond
      <4>4. /\ Dealing(w, a)' /\ ~Calling(w, a, c)' /\ ~Withdrawing(w, a)' /\ ~Owing(w, a, c)'
            /\ ~Parking(w, a, c)'
        BY <1>14, <1>t, <2>2, <2>3, <2>5, <3>2, <2>1, Moves
           DEF PassDelivered, Comes, Passed, Fits, Dealing, Calling, Owing, Withdrawing, Parking,
               Sending, Stopping, Beyond
      <4> QED BY <1>14, <1>t, <2>1, <4>2, <4>3, <4>4, Moves, PassKeeps
    <3> QED BY <3>1, <3>2
  <2> QED BY <2>4, <2>5
<1>15. ASSUME NEW w \in Worker, NEW d \in Channel, PassSpent(w, d)
       PROVE Takes(a, c)' /\ Calls(a, c)'
  <2> DEFINE m == [mem[w] EXCEPT !.todo = @ \ {d}, !.fail = TRUE]
  <2>1. Goto(w, "walk", m)
    BY <1>15 DEF PassSpent, Goto
  <2>2. mem[w] \in Memory /\ Fits(pc[w], mem[w]) /\ mem[w].alert \in Alert
    BY <1>15, <1>t DEF PassSpent, Workers, Fits, Comes
  <2>3. m.alert = mem[w].alert /\ m.todo = mem[w].todo \ {d}
    BY <2>2 DEF Memory
  <2> HIDE DEF m
  <2>4. CASE a # mem[w].alert
    <3>1. Booked(a, c) /\ Noted(a, c)
      BY <1>15, <1>t, <2>2, <2>4 DEF PassSpent, Booked, Noted, TypeOK, rows, providers, history
    <3> QED BY <1>t, <2>1, <2>3, <2>4, <3>1, Aside DEF Beyond
  <2>5. CASE a = mem[w].alert
    <3>1. CASE c # d
      <4>1. Booked(a, c) /\ Noted(a, c)
        BY <1>15, <1>t, <2>2, <2>5, <3>1
           DEF PassSpent, Booked, Noted, TypeOK, rows, providers, history
      <4>2. Still(w, a, c)
        BY <1>15, <1>t, <2>1, <2>2, <2>3, <2>5, <3>1, Moves
           DEF PassSpent, Comes, Still, Fits, Dealing, Calling, Owing, Withdrawing, Parking,
               Sending, Stopping, Beyond
      <4>3. Steady(a, c)
        BY <1>t, <2>1, <4>1, <4>2, Moves DEF Steady
      <4> QED BY <1>t, <4>3, SteadyKeeps
    <3>2. CASE c = d
      <4>2. Booked(a, c) /\ Noted(a, c)
        BY <1>15, <1>t, <2>2, <2>3, <2>5, <3>2
           DEF PassSpent, Booked, Noted, TypeOK, rows, providers, history
      <4>3. /\ Calling(w, a, c) /\ ~Withdrawing(w, a) /\ ~Owing(w, a, c) /\ ~Parking(w, a, c)
        BY <1>15, <1>t, <2>2, <2>3, <2>5, <3>2
           DEF PassSpent, Comes, Fits, Dealing, Calling, Owing, Withdrawing, Parking, Sending,
               Stopping, Beyond
      <4>4. /\ Dealing(w, a)' /\ ~Calling(w, a, c)' /\ ~Withdrawing(w, a)' /\ ~Owing(w, a, c)'
            /\ ~Parking(w, a, c)'
        BY <1>15, <1>t, <2>2, <2>3, <2>5, <3>2, <2>1, Moves
           DEF PassSpent, Comes, Fits, Dealing, Calling, Owing, Withdrawing, Parking, Sending,
               Stopping, Beyond
      <4> QED BY <1>15, <1>t, <2>1, <4>2, <4>3, <4>4, Moves, PassKeeps
    <3> QED BY <3>1, <3>2
  <2> QED BY <2>4, <2>5
<1>16. ASSUME NEW w \in Worker, NEW d \in Channel, NEW r \in Outcome, Send(w, d, r)
       PROVE Takes(a, c)' /\ Calls(a, c)'
  <2> DEFINE m == [mem[w] EXCEPT !.todo = @ \ {d}, !.leg = d, !.result = r]
  <2>1. Goto(w, "record", m)
    BY <1>16 DEF Send, Goto
  <2>2. mem[w] \in Memory /\ Fits(pc[w], mem[w]) /\ mem[w].alert \in Alert
    BY <1>16, <1>t DEF Send, Workers, Fits, Comes
  <2>3. m.alert = mem[w].alert /\ m.todo = mem[w].todo \ {d} /\ m.leg = d /\ m.result = r
    BY <2>2 DEF Memory
  <2> HIDE DEF m
  <2>4. CASE a # mem[w].alert
    <3>1. Booked(a, c) /\ Noted(a, c)
      BY <1>16, <1>t, <2>2, <2>4 DEF Send, Booked, Noted, TypeOK, rows, providers, history
    <3> QED BY <1>t, <2>1, <2>3, <2>4, <3>1, Aside DEF Beyond
  <2>5. CASE a = mem[w].alert
    <3>1. CASE c # d
      <4>1. Booked(a, c) /\ Noted(a, c)
        BY <1>16, <1>t, <2>2, <2>5, <3>1 DEF Send, Booked, Noted, TypeOK, rows, providers, history
      <4>2. Still(w, a, c)
        BY <1>16, <1>t, <2>1, <2>2, <2>3, <2>5, <3>1, Moves
           DEF Send, Comes, Still, Fits, Dealing, Calling, Owing, Withdrawing, Parking, Sending,
               Stopping, Beyond
      <4>3. Steady(a, c)
        BY <1>t, <2>1, <4>1, <4>2, Moves DEF Steady
      <4> QED BY <1>t, <4>3, SteadyKeeps
    <3>2. CASE c = d
      <4>1. mem'[w].result = r
        BY <1>t, <2>1, <2>3, Moves
      <4>2. /\ Noted(a, c) /\ crashed'[a] = crashed[a] /\ overlaps'[a] = overlaps[a]
            /\ calls'[a][c] = calls[a][c] + 1 /\ leg[a][c] # "delivered" /\ attempts[a][c] < MaxAttempts
            /\ landed'[a][c] = landed[a][c] + (IF mem'[w].result = "delivered" THEN 1 ELSE 0)
        BY <1>16, <1>t, <2>2, <2>3, <2>5, <3>2, <4>1, AlertAssumption
           DEF Send, Booked, Noted, TypeOK, rows, providers, history, Delivered, Spent, Comes
      <4>3. /\ Calling(w, a, c) /\ ~Withdrawing(w, a) /\ ~Owing(w, a, c) /\ ~Parking(w, a, c)
        BY <1>16, <1>t, <2>2, <2>3, <2>5, <3>2
           DEF Send, Comes, Fits, Dealing, Calling, Owing, Withdrawing, Parking, Sending, Stopping,
               Beyond
      <4>4. /\ Dealing(w, a)' /\ ~Calling(w, a, c)' /\ ~Withdrawing(w, a)' /\ Owing(w, a, c)'
            /\ ~Parking(w, a, c)' /\ pc'[w] = "record"
        BY <1>16, <1>t, <2>2, <2>3, <2>5, <3>2, <2>1, Moves
           DEF Send, Comes, Fits, Dealing, Calling, Owing, Withdrawing, Parking, Sending, Stopping,
               Beyond
      <4> QED BY <1>16, <1>t, <2>1, <4>2, <4>3, <4>4, Moves, SendKeeps
    <3> QED BY <3>1, <3>2
  <2> QED BY <2>4, <2>5
<1>17. ASSUME NEW w \in Worker, FetchLeg(w) PROVE Takes(a, c)' /\ Calls(a, c)'
  <2> DEFINE m == [mem[w] EXCEPT !.seen = attempts[mem[w].alert][mem[w].leg]]
  <2>1. Goto(w, "save", m)
    BY <1>17 DEF FetchLeg, Goto
  <2>2. mem[w] \in Memory /\ Fits(pc[w], mem[w]) /\ mem[w].alert \in Alert
    BY <1>17, <1>t DEF FetchLeg, Workers, Fits
  <2>3. /\ m.alert = mem[w].alert /\ m.todo = mem[w].todo /\ m.leg = mem[w].leg
        /\ m.result = mem[w].result /\ m.seen = attempts[mem[w].alert][mem[w].leg]
    BY <2>2 DEF Memory
  <2> HIDE DEF m
  <2>4. CASE a # mem[w].alert
    <3>1. Booked(a, c) /\ Noted(a, c)
      BY <1>17, <1>t, <2>2, <2>4 DEF FetchLeg, Booked, Noted, TypeOK, rows, providers, history, Fits
    <3> QED BY <1>t, <2>1, <2>3, <2>4, <3>1, Aside DEF Beyond
  <2>5. CASE a = mem[w].alert
    <3>1. CASE c # mem[w].leg
      <4>1. Booked(a, c) /\ Noted(a, c)
        BY <1>17, <1>t, <2>2, <2>5, <3>1
           DEF FetchLeg, Booked, Noted, TypeOK, rows, providers, history, Fits
      <4>2. Still(w, a, c)
        BY <1>17, <1>t, <2>1, <2>2, <2>3, <2>5, <3>1, Moves
           DEF FetchLeg, Still, Fits, Dealing, Calling, Owing, Withdrawing, Parking, Sending,
               Stopping, Beyond
      <4>3. Steady(a, c)
        BY <1>t, <2>1, <4>1, <4>2, Moves DEF Steady
      <4> QED BY <1>t, <4>3, SteadyKeeps
    <3>2. CASE c = mem[w].leg
      <4>2. Booked(a, c) /\ Noted(a, c) /\ m.seen = attempts[a][c] /\ m.result = mem[w].result
        BY <1>17, <1>t, <2>2, <2>3, <2>5, <3>2
           DEF FetchLeg, Booked, Noted, TypeOK, rows, providers, history, Fits
      <4>3. /\ Dealing(w, a) /\ ~Withdrawing(w, a) /\ Owing(w, a, c) /\ ~Parking(w, a, c)
        BY <1>17, <1>t, <2>2, <2>3, <2>5, <3>2
           DEF FetchLeg, Fits, Dealing, Calling, Owing, Withdrawing, Parking, Sending, Stopping,
               Beyond
      <4>4. /\ Dealing(w, a)' /\ ~Withdrawing(w, a)' /\ Owing(w, a, c)' /\ ~Parking(w, a, c)'
            /\ (Calling(w, a, c)' <=> Calling(w, a, c))
        BY <1>17, <1>t, <2>2, <2>3, <2>5, <3>2, <2>1, Moves
           DEF FetchLeg, Fits, Dealing, Calling, Owing, Withdrawing, Parking, Sending, Stopping,
               Beyond
      <4> QED BY <1>17, <1>t, <2>1, <4>2, <4>3, <4>4, Moves, FetchKeeps DEF FetchLeg
    <3> QED BY <3>1, <3>2
  <2> QED BY <2>4, <2>5
<1>18. ASSUME NEW w \in Worker, SaveLeg(w) PROVE Takes(a, c)' /\ Calls(a, c)'
  <2> DEFINE m == [mem[w] EXCEPT !.leg = None, !.result = None, !.seen = 0,
                          !.ok = @ \/ mem[w].result = "delivered", !.fail = @ \/ mem[w].result = "failed"]
  <2>1. Goto(w, "walk", m)
    BY <1>18 DEF SaveLeg, Goto
  <2>2. mem[w] \in Memory /\ Fits(pc[w], mem[w]) /\ mem[w].alert \in Alert
    BY <1>18, <1>t DEF SaveLeg, Workers, Fits
  <2>3. m.alert = mem[w].alert /\ m.todo = mem[w].todo
    BY <2>2 DEF Memory
  <2> HIDE DEF m
  <2>4. CASE a # mem[w].alert
    <3>1. Booked(a, c) /\ Noted(a, c)
      BY <1>18, <1>t, <2>2, <2>4 DEF SaveLeg, Booked, Noted, TypeOK, rows, providers, history, Fits
    <3> QED BY <1>t, <2>1, <2>3, <2>4, <3>1, Aside DEF Beyond
  <2>5. CASE a = mem[w].alert
    <3>1. CASE c # mem[w].leg
      <4>1. Booked(a, c) /\ Noted(a, c)
        BY <1>18, <1>t, <2>2, <2>5, <3>1
           DEF SaveLeg, Booked, Noted, TypeOK, rows, providers, history, Fits
      <4>2. Still(w, a, c)
        BY <1>18, <1>t, <2>1, <2>2, <2>3, <2>5, <3>1, Moves
           DEF SaveLeg, Still, Fits, Dealing, Calling, Owing, Withdrawing, Parking, Sending,
               Stopping, Beyond
      <4>3. Steady(a, c)
        BY <1>t, <2>1, <4>1, <4>2, Moves DEF Steady
      <4> QED BY <1>t, <4>3, SteadyKeeps
    <3>2. CASE c = mem[w].leg
      <4>2. Booked(a, c) /\ leg'[a][c] = mem[w].result /\ attempts'[a][c] = mem[w].seen + 1
        BY <1>18, <1>t, <2>2, <2>3, <2>5, <3>2
           DEF SaveLeg, Booked, Noted, TypeOK, rows, providers, history, Fits
      <4>3. /\ Dealing(w, a) /\ ~Calling(w, a, c) /\ ~Withdrawing(w, a) /\ Owing(w, a, c)
            /\ ~Parking(w, a, c)
        BY <1>18, <1>t, <2>2, <2>3, <2>5, <3>2
           DEF SaveLeg, Fits, Dealing, Calling, Owing, Withdrawing, Parking, Sending, Stopping,
               Beyond
      <4>4. /\ Dealing(w, a)' /\ ~Calling(w, a, c)' /\ ~Withdrawing(w, a)' /\ ~Owing(w, a, c)'
            /\ ~Parking(w, a, c)'
        BY <1>18, <1>t, <2>2, <2>3, <2>5, <3>2, <2>1, Moves
           DEF SaveLeg, Fits, Dealing, Calling, Owing, Withdrawing, Parking, Sending, Stopping,
               Beyond
      <4> QED BY <1>18, <1>t, <2>1, <4>2, <4>3, <4>4, Moves, SaveKeeps DEF SaveLeg
    <3> QED BY <3>1, <3>2
  <2> QED BY <2>4, <2>5
<1>19. ASSUME NEW w \in Worker, Finish(w) PROVE Takes(a, c)' /\ Calls(a, c)'
  <2> DEFINE m == Idle
  <2>1. Goto(w, "idle", m)
    BY <1>19 DEF Finish, Goto, Done
  <2>2. mem[w] \in Memory /\ Fits(pc[w], mem[w]) /\ mem[w].alert \in Alert
    BY <1>19, <1>t DEF Finish, Workers, Fits
  <2>4. CASE a # mem[w].alert
    <3>1. Booked(a, c) /\ Noted(a, c)
      BY <1>19, <1>t, <2>2, <2>4 DEF Finish, Booked, Noted, TypeOK, rows, providers, history
    <3> QED BY <1>t, <2>1, <2>4, <3>1, Aside DEF Beyond
  <2>5. CASE a = mem[w].alert
    <3>2. Booked(a, c) /\ Noted(a, c)
      BY <1>19, <1>t, <2>2, <2>5 DEF Finish, Booked, Noted, TypeOK, rows, providers, history
    <3>3. /\ Dealing(w, a) /\ ~Calling(w, a, c) /\ ~Withdrawing(w, a) /\ ~Owing(w, a, c)
          /\ ~Parking(w, a, c)
      BY <1>19, <1>t, <2>2, <2>5
         DEF Finish, Fits, Dealing, Calling, Owing, Withdrawing, Parking, Sending, Stopping, Beyond
    <3>4. /\ ~Dealing(w, a)' /\ ~Withdrawing(w, a)' /\ ~Owing(w, a, c)' /\ ~Parking(w, a, c)'
      BY <1>19, <1>t, <2>2, <2>5, <2>1, Moves
         DEF Finish, Fits, Dealing, Calling, Owing, Withdrawing, Parking, Sending, Stopping, Beyond
    <3> QED BY <1>19, <1>t, <2>1, <3>2, <3>3, <3>4, Moves, EndKeeps
  <2> QED BY <2>4, <2>5
<1>20. ASSUME NEW w \in Worker, Crash(w) PROVE Takes(a, c)' /\ Calls(a, c)'
  <2> DEFINE m == Idle
  <2>1. Goto(w, "idle", m)
    BY <1>20 DEF Crash, Goto, Done
  <2>2. mem[w] \in Memory /\ Fits(pc[w], mem[w]) /\ mem[w].alert \in Alert
    BY <1>20, <1>t DEF Crash, Workers, Fits
  <2>4. CASE a # mem[w].alert
    <3>1. Booked(a, c) /\ Noted(a, c)
      BY <1>20, <1>t, <2>2, <2>4 DEF Crash, Booked, Noted, TypeOK, rows, providers, history
    <3> QED BY <1>t, <2>1, <2>4, <3>1, Aside DEF Beyond
  <2>5. CASE a = mem[w].alert
    <3>2. /\ landed'[a][c] = landed[a][c] /\ calls'[a][c] = calls[a][c] /\ Noted(a, c)
          /\ crashed'[a] = crashed[a] + 1 /\ overlaps'[a] = overlaps[a]
      BY <1>20, <1>t, <2>2, <2>5 DEF Crash, Booked, Noted, TypeOK, rows, providers, history
    <3>4. /\ ~Dealing(w, a)' /\ ~Withdrawing(w, a)' /\ ~Owing(w, a, c)' /\ ~Parking(w, a, c)'
      BY <1>20, <1>t, <2>2, <2>5, <2>1, Moves
         DEF Crash, Fits, Dealing, Calling, Owing, Withdrawing, Parking, Sending, Stopping, Beyond
    <3> QED BY <1>20, <1>t, <2>1, <3>2, <3>4, Moves, DeathKeeps
  <2> QED BY <2>4, <2>5
<1>21. ASSUME NEW o \in Officer, NEW b \in Alert, NEW act \in Acts, Request(o, act, b)
       PROVE Takes(a, c)' /\ Calls(a, c)'
  BY <1>21, <1>t, AtRestKeeps DEF Request, Booked, Noted, rows, providers, history
<1>22. ASSUME NEW o \in Officer, RetryLegs(o) PROVE Takes(a, c)' /\ Calls(a, c)'
  <2>1. Booked(a, c) /\ Noted(a, c)
    BY <1>22, <1>t DEF RetryLegs, Turned, TypeOK, Workers, Booked, Noted, providers, history
  <2> QED BY <1>22, <1>t, <2>1, AtRestKeeps DEF RetryLegs
<1>23. ASSUME NEW o \in Officer, SaveQueued(o) PROVE Takes(a, c)' /\ Calls(a, c)'
  BY <1>23, <1>t, AtRestKeeps DEF SaveQueued, Booked, Noted, rows, providers, history
<1>24. ASSUME NEW o \in Officer, EnqueueAlert(o) PROVE Takes(a, c)' /\ Calls(a, c)'
  BY <1>24, <1>t, AtRestKeeps DEF EnqueueAlert, Booked, Noted, rows, providers, history
<1>25. ASSUME NEW o \in Officer, SaveCancelled(o) PROVE Takes(a, c)' /\ Calls(a, c)'
  BY <1>25, <1>t, AtRestKeeps DEF SaveCancelled, Booked, Noted, rows, providers, history
<1>26. ASSUME NEW o \in Officer, SkipPending(o) PROVE Takes(a, c)' /\ Calls(a, c)'
  <2>1. Booked(a, c) /\ Noted(a, c)
    BY <1>26, <1>t DEF SkipPending, Turned, TypeOK, Workers, Booked, Noted, providers, history
  <2> QED BY <1>26, <1>t, <2>1, AtRestKeeps DEF SkipPending
<1>27. ASSUME NEW o \in Officer, Abandon(o) PROVE Takes(a, c)' /\ Calls(a, c)'
  BY <1>27, <1>t, AtRestKeeps DEF Abandon, Booked, Noted, rows, providers, history
<1>28. ASSUME NEW b \in Alert, PassExpiry(b) \/ RetractEvent(b) PROVE Takes(a, c)' /\ Calls(a, c)'
  BY <1>28, <1>t, AtRestKeeps DEF PassExpiry, RetractEvent, Booked, Noted, rows, providers, history
<1> QED
  BY <1>1, <1>2, <1>3, <1>4, <1>5, <1>6, <1>7, <1>8, <1>9, <1>10, <1>11, <1>12, <1>13, <1>14, <1>15,
     <1>16, <1>17, <1>18, <1>19, <1>20, <1>21, <1>22, <1>23, <1>24, <1>25, <1>26, <1>27, <1>28
  DEF Next, Step, Answer

-----------------------------------------------------------------------------
(* What a dispatch knows while none has begun beside it                    *)

\* A step that changes no leg's kind and, if the status, to one that tells nothing.
Kindly(a) ==
    /\ status'[a] = status[a] \/ status'[a] \notin {"sent", "partial", "failed"}
    /\ \A c \in Channel :
          /\ leg'[a][c] = "delivered" <=> leg[a][c] = "delivered"
          /\ leg[a][c] \in {"delivered", "skipped"} => leg'[a][c] \in {"delivered", "skipped"}

LEMMA KindlyTells ==
    ASSUME NEW a \in Alert, Tells(a), Kindly(a)
    PROVE  Tells(a)'
BY DEF Tells, Kindly

\* Whoever goes on with the alert knows what it knew.
LEMMA SoleRests ==
    ASSUME Workers, NEW a \in Alert, Sole(a), Kindly(a), overlaps'[a] = overlaps[a],
           \A x \in Worker : pc'[x] \in Beyond /\ mem'[x].alert = a => pc'[x] = pc[x] /\ mem'[x] = mem[x]
    PROVE  Sole(a)'
<1> SUFFICES ASSUME overlaps[a] = 0
             PROVE  (\A x, y \in UnderWay(a)' : x = y) /\ (\A w \in UnderWay(a)' : Knows(w, a)') /\ Tells(a)'
  BY DEF Sole
<1>1. /\ \A x \in UnderWay(a)' : x \in UnderWay(a) /\ x \in Worker /\ pc'[x] = pc[x] /\ mem'[x] = mem[x]
  BY DEF UnderWay
<1>2. ASSUME NEW w \in UnderWay(a)' PROVE Knows(w, a)'
  <2>1. Judged(w)' = Judged(w) /\ Knows(w, a) /\ pc'[w] = pc[w] /\ mem'[w] = mem[w]
    BY <1>1, <1>2 DEF Sole, Judged
  <2>2. Judged(w) \subseteq Channel /\ mem[w].todo \subseteq Channel
    BY <1>1, <1>2 DEF Judged, Workers, Memory
  <2> QED BY <2>1, <2>2 DEF Knows, Kindly
<1> QED BY <1>1, <1>2, KindlyTells DEF Sole

\* The worker whose step it is was the only one at it, and is.
LEMMA SoleGoes ==
    ASSUME TypeOK, Workers, NEW w \in Worker, NEW step, NEW m, Goto(w, step, m), NEW a \in Alert,
           overlaps'[a] = 0 => /\ \A x \in UnderWay(a) : x = w
                               /\ step \in Beyond /\ m.alert = a => Knows(w, a)'
                               /\ Tells(a)'
    PROVE  Sole(a)'
<1>1. \A x \in UnderWay(a)' : x = w \/ x \in UnderWay(a)
  BY Moves DEF UnderWay
<1>2. w \in UnderWay(a)' => step \in Beyond /\ m.alert = a
  BY Moves DEF UnderWay
<1> QED BY <1>1, <1>2 DEF Sole

\* A worker not at the alert, before the step or after it.
LEMMA SoleAside ==
    ASSUME TypeOK, Workers, NEW w \in Worker, NEW step, NEW m, Goto(w, step, m), NEW a \in Alert,
           Sole(a), Kindly(a), overlaps'[a] = overlaps[a], step \notin Beyond \/ m.alert # a
    PROVE  Sole(a)'
BY Moves, SoleRests

\* What the worker under way knows, when nobody else is.
LEMMA SoleKnows ==
    ASSUME NEW w \in Worker, NEW a \in Alert, Sole(a), overlaps[a] = 0, pc[w] \in Beyond, mem[w].alert = a
    PROVE  (\A x \in UnderWay(a) : x = w) /\ Knows(w, a) /\ Tells(a)
BY DEF Sole, UnderWay

LEMMA SoleKept ==
    ASSUME Inv, [Next]_vars, NEW a \in Alert
    PROVE  Sole(a)'
<1>t. TypeOK /\ Workers /\ Sole(a) /\ overlaps[a] \in Nat
  BY DEF Inv, TypeOK
<1>1. CASE UNCHANGED vars
  BY <1>1, <1>t, SoleRests DEF vars, Kindly
<1>2. ASSUME NEW w \in Worker, NEW b \in Alert, TakeJob(w, b) PROVE Sole(a)'
  <2>1. \E m : Goto(w, "load", m)
    BY <1>2 DEF TakeJob, Start, Goto
  <2> QED BY <1>2, <1>t, <2>1, SoleAside DEF TakeJob, Kindly, rows, history, Beyond
<1>3. ASSUME NEW w \in Worker, NEW b \in Alert, DispatchDue(w, b) PROVE Sole(a)'
  <2>1. Kindly(a) /\ overlaps'[a] = overlaps[a]
    BY <1>3, <1>t DEF DispatchDue, SetStatus, TypeOK, Kindly, rows, history
  <2>2. CASE late[b]
    BY <1>3, <1>t, <2>1, <2>2, SoleRests DEF DispatchDue
  <2>3. CASE ~late[b]
    <3>1. \E m : Goto(w, "load", m)
      BY <1>3, <2>3 DEF DispatchDue, Start, Goto
    <3> QED BY <1>t, <2>1, <3>1, SoleAside DEF Beyond
  <2> QED BY <2>2, <2>3
<1>4. ASSUME NEW w \in Worker, NEW b \in Alert, RetrySweep(w, b) PROVE Sole(a)'
  <2>1. \E m : Goto(w, "load", m)
    BY <1>4 DEF RetrySweep, Start, Goto
  <2>2. Kindly(a) /\ overlaps'[a] = overlaps[a]
    BY <1>4, <1>t DEF RetrySweep, SetStatus, TypeOK, Kindly, rows, history
  <2> QED BY <1>t, <2>1, <2>2, SoleAside DEF Beyond
<1>5. ASSUME NEW w \in Worker, Load(w) PROVE Sole(a)'
  <2>1. Kindly(a) /\ overlaps'[a] = overlaps[a]
    BY <1>5 DEF Load, Kindly, rows, history
  <2>2. CASE Done(w)
    <3>1. Goto(w, "idle", Idle)
      BY <2>2 DEF Done, Goto
    <3> QED BY <1>t, <2>1, <3>1, SoleAside DEF Beyond
  <2>3. CASE Goto(w, "begin", [mem[w] EXCEPT !.late = late[mem[w].alert]])
    BY <1>t, <2>1, <2>3, SoleAside DEF Beyond
  <2> QED BY <1>5, <2>2, <2>3 DEF Load
<1>6. ASSUME NEW w \in Worker, Expire(w) PROVE Sole(a)'
  <2>1. Goto(w, "idle", Idle)
    BY <1>6 DEF Expire, Done, Goto
  <2>2. Kindly(a) /\ overlaps'[a] = overlaps[a]
    BY <1>6, <1>t DEF Expire, SetStatus, TypeOK, Kindly, rows, history
  <2> QED BY <1>t, <2>1, <2>2, SoleAside DEF Beyond
<1>7. ASSUME NEW w \in Worker, BeginSending(w) PROVE Sole(a)'
  <2> DEFINE m == [mem[w] EXCEPT !.todo = Channel]
  <2>1. Goto(w, "walk", m)
    BY <1>7 DEF BeginSending, Goto
  <2>2. mem[w] \in Memory /\ Fits(pc[w], mem[w]) /\ mem[w].alert \in Alert
    BY <1>7, <1>t DEF BeginSending, Workers, Fits
  <2>3. m.alert = mem[w].alert /\ m.todo = Channel /\ m.ok = mem[w].ok /\ m.fail = mem[w].fail
    BY <2>2 DEF Memory
  <2> HIDE DEF m
  <2>4. CASE a # mem[w].alert
    <3>1. Kindly(a) /\ overlaps'[a] = overlaps[a]
      BY <1>7, <1>t, <2>2, <2>4
         DEF BeginSending, Kindly, TypeOK, rows, history, SetStatus, CountOverlap
    <3> QED BY <1>t, <2>1, <2>3, <2>4, <3>1, SoleAside DEF Beyond
  <2>5. CASE a = mem[w].alert
    <3> SUFFICES ASSUME overlaps'[a] = 0
                 PROVE  /\ \A x \in UnderWay(a) : x = w
                        /\ "walk" \in Beyond /\ m.alert = a => Knows(w, a)'
                        /\ Tells(a)'
      BY <1>t, <2>1, SoleGoes
    <3>1. overlaps[a] = 0 /\ UnderWay(a) = {} /\ Tells(a)
      BY <1>7, <1>t, <2>2, <2>5 DEF BeginSending, CountOverlap, TypeOK, Sole
    <3>3. pc'[w] = "walk" /\ mem'[w] = m
      BY <1>t, <2>1, Moves
    <3>4. Judged(w)' = {}
      BY <1>7, <2>2, <2>3, <3>3 DEF BeginSending, Judged, Memory, Fits
    <3>5. status'[a] = "sending" /\ ~mem[w].ok /\ ~mem[w].fail
      BY <1>7, <1>t, <2>2, <2>5 DEF BeginSending, SetStatus, TypeOK, Fits
    <3>6. Knows(w, a)'
      BY <2>3, <3>3, <3>4, <3>5 DEF Knows
    <3>7. Tells(a)'
      BY <3>5 DEF Tells
    <3> QED BY <3>6, <3>7, <3>1
  <2> QED BY <2>4, <2>5
<1>8. ASSUME NEW w \in Worker, BeginWithdraw(w) PROVE Sole(a)'
  <2> DEFINE m == [mem[w] EXCEPT !.ok = \E c \in Channel : leg[mem[w].alert][c] = "delivered"]
  <2>1. Goto(w, "withdraw", m)
    BY <1>8 DEF BeginWithdraw, Goto
  <2>2. mem[w] \in Memory /\ Fits(pc[w], mem[w]) /\ mem[w].alert \in Alert
    BY <1>8, <1>t DEF BeginWithdraw, Workers, Fits
  <2>3. m.alert = mem[w].alert /\ m.ok = \E c \in Channel : leg[mem[w].alert][c] = "delivered"
    BY <2>2 DEF Memory
  <2> HIDE DEF m
  <2>4. CASE a # mem[w].alert
    <3>1. Kindly(a) /\ overlaps'[a] = overlaps[a]
      BY <1>8, <1>t, <2>2, <2>4 DEF BeginWithdraw, Kindly, TypeOK, rows, history, CountOverlap
    <3> QED BY <1>t, <2>1, <2>3, <2>4, <3>1, SoleAside DEF Beyond
  <2>5. CASE a = mem[w].alert
    <3> SUFFICES ASSUME overlaps'[a] = 0
                 PROVE  /\ \A x \in UnderWay(a) : x = w
                        /\ "withdraw" \in Beyond /\ m.alert = a => Knows(w, a)'
                        /\ Tells(a)'
      BY <1>t, <2>1, SoleGoes
    <3>1. overlaps[a] = 0 /\ UnderWay(a) = {} /\ Tells(a)
      BY <1>8, <1>t, <2>2, <2>5 DEF BeginWithdraw, CountOverlap, TypeOK, Sole
    <3>3. pc'[w] = "withdraw" /\ mem'[w] = m
      BY <1>t, <2>1, Moves
    <3>4. leg' = leg /\ status' = status
      BY <1>8 DEF BeginWithdraw, rows
    <3>5. Knows(w, a)'
      BY <2>3, <2>5, <3>3, <3>4 DEF Knows, Sending
    <3>6. Tells(a)'
      BY <3>1, <3>4 DEF Tells
    <3> QED BY <3>5, <3>6, <3>1
  <2> QED BY <2>4, <2>5
<1>9. ASSUME NEW w \in Worker, SaveWithdrawn(w) PROVE Sole(a)'
  <2> DEFINE m == mem[w]
  <2>1. Goto(w, "skip", m)
    BY <1>9 DEF SaveWithdrawn, Goto
  <2>2. mem[w] \in Memory /\ Fits(pc[w], mem[w]) /\ mem[w].alert \in Alert
    BY <1>9, <1>t DEF SaveWithdrawn, Workers, Fits
  <2>3. m.alert = mem[w].alert
    OBVIOUS
  <2>4. CASE a # mem[w].alert
    <3>1. Kindly(a) /\ overlaps'[a] = overlaps[a]
      BY <1>9, <1>t, <2>2, <2>4 DEF SaveWithdrawn, Kindly, TypeOK, rows, history, SetStatus
    <3> QED BY <1>t, <2>1, <2>3, <2>4, <3>1, SoleAside DEF Beyond
  <2>5. CASE a = mem[w].alert
    <3> SUFFICES ASSUME overlaps'[a] = 0
                 PROVE  /\ \A x \in UnderWay(a) : x = w
                        /\ "skip" \in Beyond /\ m.alert = a => Knows(w, a)'
                        /\ Tells(a)'
      BY <1>t, <2>1, SoleGoes
    <3>1. overlaps[a] = 0
      BY <1>9, <1>t, <2>2, <2>5 DEF SaveWithdrawn, history
    <3>2. (\A x \in UnderWay(a) : x = w) /\ Knows(w, a) /\ Tells(a)
      BY <1>9, <1>t, <2>2, <2>5, <3>1, SoleKnows DEF SaveWithdrawn, Beyond
    <3>3. pc'[w] = "skip" /\ mem'[w] = m
      BY <1>t, <2>1, Moves
    <3>4. /\ leg' = leg /\ pc[w] = "withdraw"
          /\ status'[a] = IF mem[w].ok THEN "partial" ELSE "cancelled"
      BY <1>9, <1>t, <2>2, <2>5 DEF SaveWithdrawn, SetStatus, rows, TypeOK
    <3>5. Knows(w, a)'
      BY <3>3 DEF Knows, Sending
    <3>6. Tells(a)'
      <4>1. CASE mem[w].ok
        BY <3>2, <3>4, <4>1 DEF Tells, Knows
      <4>2. CASE ~mem[w].ok
        BY <3>4, <4>2 DEF Tells
      <4> QED BY <4>1, <4>2
    <3> QED BY <3>5, <3>6, <3>2
  <2> QED BY <2>4, <2>5
<1>10. ASSUME NEW w \in Worker, SkipLegs(w) PROVE Sole(a)'
  <2> DEFINE m == mem[w]
  <2>1. Goto(w, "list", m)
    BY <1>10 DEF SkipLegs, Goto
  <2>2. mem[w] \in Memory /\ Fits(pc[w], mem[w]) /\ mem[w].alert \in Alert
    BY <1>10, <1>t DEF SkipLegs, Workers, Fits
  <2>3. m.alert = mem[w].alert
    OBVIOUS
  <2>4. CASE a # mem[w].alert
    <3>1. Kindly(a) /\ overlaps'[a] = overlaps[a]
      BY <1>10, <1>t, <2>2, <2>4 DEF SkipLegs, Kindly, TypeOK, rows, history, Turned
    <3> QED BY <1>t, <2>1, <2>3, <2>4, <3>1, SoleAside DEF Beyond
  <2>5. CASE a = mem[w].alert
    <3> SUFFICES ASSUME overlaps'[a] = 0
                 PROVE  /\ \A x \in UnderWay(a) : x = w
                        /\ "list" \in Beyond /\ m.alert = a => Knows(w, a)'
                        /\ Tells(a)'
      BY <1>t, <2>1, SoleGoes
    <3>1. overlaps[a] = 0
      BY <1>10, <1>t, <2>2, <2>5 DEF SkipLegs, history
    <3>2. (\A x \in UnderWay(a) : x = w) /\ Knows(w, a) /\ Tells(a)
      BY <1>10, <1>t, <2>2, <2>5, <3>1, SoleKnows DEF SkipLegs, Beyond
    <3>3. pc'[w] = "list" /\ mem'[w] = m
      BY <1>t, <2>1, Moves
    <3>4. Kindly(a)
      BY <1>10, <1>t, <2>2, <2>5 DEF SkipLegs, Turned, Kindly, TypeOK
    <3>5. Knows(w, a)'
      BY <3>3 DEF Knows, Sending
    <3>6. Tells(a)'
      BY <3>2, <3>4, KindlyTells
    <3> QED BY <3>5, <3>6, <3>2
  <2> QED BY <2>4, <2>5
<1>11. ASSUME NEW w \in Worker, ListFailed(w) PROVE Sole(a)'
  <2> DEFINE m == [mem[w] EXCEPT !.todo = {c \in Channel : leg[mem[w].alert][c] = "failed"}]
  <2>1. Goto(w, "park", m)
    BY <1>11 DEF ListFailed, Goto
  <2>2. mem[w] \in Memory /\ Fits(pc[w], mem[w]) /\ mem[w].alert \in Alert
    BY <1>11, <1>t DEF ListFailed, Workers, Fits
  <2>3. m.alert = mem[w].alert /\ m.todo = {c \in Channel : leg[mem[w].alert][c] = "failed"}
    BY <2>2 DEF Memory
  <2> HIDE DEF m
  <2>4. CASE a # mem[w].alert
    <3>1. Kindly(a) /\ overlaps'[a] = overlaps[a]
      BY <1>11, <1>t, <2>2, <2>4 DEF ListFailed, Kindly, TypeOK, rows, history
    <3> QED BY <1>t, <2>1, <2>3, <2>4, <3>1, SoleAside DEF Beyond
  <2>5. CASE a = mem[w].alert
    <3> SUFFICES ASSUME overlaps'[a] = 0
                 PROVE  /\ \A x \in UnderWay(a) : x = w
                        /\ "park" \in Beyond /\ m.alert = a => Knows(w, a)'
                        /\ Tells(a)'
      BY <1>t, <2>1, SoleGoes
    <3>1. overlaps[a] = 0
      BY <1>11, <1>t, <2>2, <2>5 DEF ListFailed, history
    <3>2. (\A x \in UnderWay(a) : x = w) /\ Knows(w, a) /\ Tells(a)
      BY <1>11, <1>t, <2>2, <2>5, <3>1, SoleKnows DEF ListFailed, Beyond
    <3>3. pc'[w] = "park" /\ mem'[w] = m
      BY <1>t, <2>1, Moves
    <3>4. leg' = leg /\ status' = status
      BY <1>11 DEF ListFailed, rows
    <3>5. Knows(w, a)'
      BY <2>3, <2>5, <3>3, <3>4 DEF Knows, Sending
    <3>6. Tells(a)'
      BY <3>2, <3>4 DEF Tells
    <3> QED BY <3>5, <3>6, <3>2
  <2> QED BY <2>4, <2>5
<1>12. ASSUME NEW w \in Worker, NEW d \in Channel, ParkLeg(w, d) PROVE Sole(a)'
  <2> DEFINE m == [mem[w] EXCEPT !.todo = @ \ {d}]
  <2>1. Goto(w, "park", m)
    BY <1>12 DEF ParkLeg, Goto
  <2>2. mem[w] \in Memory /\ Fits(pc[w], mem[w]) /\ mem[w].alert \in Alert
    BY <1>12, <1>t DEF ParkLeg, Workers, Fits
  <2>3. m.alert = mem[w].alert /\ m.todo = mem[w].todo \ {d}
    BY <2>2 DEF Memory
  <2> HIDE DEF m
  <2>4. CASE a # mem[w].alert
    <3>1. Kindly(a) /\ overlaps'[a] = overlaps[a]
      BY <1>12, <1>t, <2>2, <2>4 DEF ParkLeg, Kindly, TypeOK, rows, history
    <3> QED BY <1>t, <2>1, <2>3, <2>4, <3>1, SoleAside DEF Beyond
  <2>5. CASE a = mem[w].alert
    <3> SUFFICES ASSUME overlaps'[a] = 0
                 PROVE  /\ \A x \in UnderWay(a) : x = w
                        /\ "park" \in Beyond /\ m.alert = a => Knows(w, a)'
                        /\ Tells(a)'
      BY <1>t, <2>1, SoleGoes
    <3>1. overlaps[a] = 0
      BY <1>12, <1>t, <2>2, <2>5 DEF ParkLeg, history
    <3>2. (\A x \in UnderWay(a) : x = w) /\ Knows(w, a) /\ Tells(a)
      BY <1>12, <1>t, <2>2, <2>5, <3>1, SoleKnows DEF ParkLeg, Beyond
    <3>3. pc'[w] = "park" /\ mem'[w] = m
      BY <1>t, <2>1, Moves
    <3>4. /\ leg'[a][d] = "skipped" /\ status' = status
          /\ \A c \in Channel \ {d} : leg'[a][c] = leg[a][c]
      BY <1>12, <1>t, <2>2, <2>5 DEF ParkLeg, TypeOK
    <3>5. leg[a][d] # "delivered" /\ mem[w].todo \subseteq Channel /\ pc[w] = "park"
      BY <1>12, <2>2, <3>2 DEF ParkLeg, Knows, Memory
    <3>6. Knows(w, a)'
      BY <2>3, <3>2, <3>3, <3>4, <3>5 DEF Knows, Sending
    <3>7. Tells(a)'
      BY <3>2, <3>4, <3>5 DEF Tells
    <3> QED BY <3>6, <3>7, <3>2
  <2> QED BY <2>4, <2>5
<1>13. ASSUME NEW w \in Worker, NEW d \in Channel, PassDelivered(w, d) PROVE Sole(a)'
  <2> DEFINE m == [mem[w] EXCEPT !.todo = @ \ {d}, !.ok = TRUE]
  <2>1. Goto(w, "walk", m)
    BY <1>13 DEF PassDelivered, Passed, Goto
  <2>2. mem[w] \in Memory /\ Fits(pc[w], mem[w]) /\ mem[w].alert \in Alert
    BY <1>13, <1>t DEF PassDelivered, Workers, Fits, Comes
  <2>3. m.alert = mem[w].alert /\ m.todo = mem[w].todo \ {d} /\ m.ok = TRUE /\ m.fail = mem[w].fail
    BY <2>2 DEF Memory
  <2> HIDE DEF m
  <2>4. CASE a # mem[w].alert
    <3>1. Kindly(a) /\ overlaps'[a] = overlaps[a]
      BY <1>13, <1>t, <2>2, <2>4 DEF PassDelivered, Kindly, TypeOK, rows, history
    <3> QED BY <1>t, <2>1, <2>3, <2>4, <3>1, SoleAside DEF Beyond
  <2>5. CASE a = mem[w].alert
    <3> SUFFICES ASSUME overlaps'[a] = 0
                 PROVE  /\ \A x \in UnderWay(a) : x = w
                        /\ "walk" \in Beyond /\ m.alert = a => Knows(w, a)'
                        /\ Tells(a)'
      BY <1>t, <2>1, SoleGoes
    <3>1. overlaps[a] = 0
      BY <1>13, <1>t, <2>2, <2>5 DEF PassDelivered, history
    <3>2. (\A x \in UnderWay(a) : x = w) /\ Knows(w, a) /\ Tells(a)
      BY <1>13, <1>t, <2>2, <2>5, <3>1, SoleKnows DEF PassDelivered, Beyond, Comes
    <3>3. pc'[w] = "walk" /\ mem'[w] = m
      BY <1>t, <2>1, Moves
    <3>4. Judged(w)' = Judged(w) \cup {d}
      BY <1>13, <2>2, <2>3, <3>3 DEF PassDelivered, Judged, Memory, Comes
    <3>5. leg' = leg /\ status' = status /\ pc[w] \in Sending /\ leg[a][d] = "delivered"
      BY <1>13, <2>5 DEF PassDelivered, rows, Sending, Comes, Delivered
    <3>6. Knows(w, a)'
      BY <2>3, <3>2, <3>3, <3>4, <3>5 DEF Knows, Sending
    <3>7. Tells(a)'
      BY <3>2, <3>5 DEF Tells
    <3> QED BY <3>6, <3>7, <3>2
  <2> QED BY <2>4, <2>5
<1>14. ASSUME NEW w \in Worker, NEW d \in Channel, PassSpent(w, d) PROVE Sole(a)'
  <2> DEFINE m == [mem[w] EXCEPT !.todo = @ \ {d}, !.fail = TRUE]
  <2>1. Goto(w, "walk", m)
    BY <1>14 DEF PassSpent, Goto
  <2>2. mem[w] \in Memory /\ Fits(pc[w], mem[w]) /\ mem[w].alert \in Alert
    BY <1>14, <1>t DEF PassSpent, Workers, Fits, Comes
  <2>3. m.alert = mem[w].alert /\ m.todo = mem[w].todo \ {d} /\ m.ok = mem[w].ok /\ m.fail = TRUE
    BY <2>2 DEF Memory
  <2> HIDE DEF m
  <2>4. CASE a # mem[w].alert
    <3>1. Kindly(a) /\ overlaps'[a] = overlaps[a]
      BY <1>14, <1>t, <2>2, <2>4 DEF PassSpent, Kindly, TypeOK, rows, history
    <3> QED BY <1>t, <2>1, <2>3, <2>4, <3>1, SoleAside DEF Beyond
  <2>5. CASE a = mem[w].alert
    <3> SUFFICES ASSUME overlaps'[a] = 0
                 PROVE  /\ \A x \in UnderWay(a) : x = w
                        /\ "walk" \in Beyond /\ m.alert = a => Knows(w, a)'
                        /\ Tells(a)'
      BY <1>t, <2>1, SoleGoes
    <3>1. overlaps[a] = 0
      BY <1>14, <1>t, <2>2, <2>5 DEF PassSpent, history
    <3>2. (\A x \in UnderWay(a) : x = w) /\ Knows(w, a) /\ Tells(a)
      BY <1>14, <1>t, <2>2, <2>5, <3>1, SoleKnows DEF PassSpent, Beyond, Comes
    <3>3. pc'[w] = "walk" /\ mem'[w] = m
      BY <1>t, <2>1, Moves
    <3>4. Judged(w)' = Judged(w) \cup {d}
      BY <1>14, <2>2, <2>3, <3>3 DEF PassSpent, Judged, Memory, Comes
    <3>5. leg' = leg /\ status' = status /\ pc[w] \in Sending /\ leg[a][d] # "delivered"
      BY <1>14, <2>5 DEF PassSpent, rows, Sending, Comes, Delivered
    <3>6. Knows(w, a)'
      BY <2>3, <3>2, <3>3, <3>4, <3>5 DEF Knows, Sending
    <3>7. Tells(a)'
      BY <3>2, <3>5 DEF Tells
    <3> QED BY <3>6, <3>7, <3>2
  <2> QED BY <2>4, <2>5
<1>15. ASSUME NEW w \in Worker, NEW d \in Channel, NEW r \in Outcome, Send(w, d, r) PROVE Sole(a)'
  <2> DEFINE m == [mem[w] EXCEPT !.todo = @ \ {d}, !.leg = d, !.result = r]
  <2>1. Goto(w, "record", m)
    BY <1>15 DEF Send, Goto
  <2>2. mem[w] \in Memory /\ Fits(pc[w], mem[w]) /\ mem[w].alert \in Alert
    BY <1>15, <1>t DEF Send, Workers, Fits, Comes
  <2>3. /\ m.alert = mem[w].alert /\ m.todo = mem[w].todo \ {d} /\ m.leg = d /\ m.ok = mem[w].ok
        /\ m.fail = mem[w].fail
    BY <2>2 DEF Memory
  <2> HIDE DEF m
  <2>4. CASE a # mem[w].alert
    <3>1. Kindly(a) /\ overlaps'[a] = overlaps[a]
      BY <1>15, <1>t, <2>2, <2>4 DEF Send, Kindly, TypeOK, rows, history
    <3> QED BY <1>t, <2>1, <2>3, <2>4, <3>1, SoleAside DEF Beyond
  <2>5. CASE a = mem[w].alert
    <3> SUFFICES ASSUME overlaps'[a] = 0
                 PROVE  /\ \A x \in UnderWay(a) : x = w
                        /\ "record" \in Beyond /\ m.alert = a => Knows(w, a)'
                        /\ Tells(a)'
      BY <1>t, <2>1, SoleGoes
    <3>1. overlaps[a] = 0
      BY <1>15, <1>t, <2>2, <2>5 DEF Send, history
    <3>2. (\A x \in UnderWay(a) : x = w) /\ Knows(w, a) /\ Tells(a)
      BY <1>15, <1>t, <2>2, <2>5, <3>1, SoleKnows DEF Send, Beyond, Comes
    <3>3. pc'[w] = "record" /\ mem'[w] = m
      BY <1>t, <2>1, Moves
    <3>4. Judged(w)' = Judged(w)
      BY <1>15, <2>2, <2>3, <3>3 DEF Send, Judged, Memory, Comes, Fits
    <3>5. leg' = leg /\ status' = status /\ pc[w] \in Sending
      BY <1>15, <2>5 DEF Send, rows, Sending, Comes
    <3>6. Knows(w, a)'
      BY <2>3, <3>2, <3>3, <3>4, <3>5 DEF Knows, Sending
    <3>7. Tells(a)'
      BY <3>2, <3>5 DEF Tells
    <3> QED BY <3>6, <3>7, <3>2
  <2> QED BY <2>4, <2>5
<1>16. ASSUME NEW w \in Worker, FetchLeg(w) PROVE Sole(a)'
  <2> DEFINE m == [mem[w] EXCEPT !.seen = attempts[mem[w].alert][mem[w].leg]]
  <2>1. Goto(w, "save", m)
    BY <1>16 DEF FetchLeg, Goto
  <2>2. mem[w] \in Memory /\ Fits(pc[w], mem[w]) /\ mem[w].alert \in Alert
    BY <1>16, <1>t DEF FetchLeg, Workers, Fits
  <2>3. /\ m.alert = mem[w].alert /\ m.todo = mem[w].todo /\ m.leg = mem[w].leg /\ m.ok = mem[w].ok
        /\ m.fail = mem[w].fail
    BY <2>2 DEF Memory
  <2> HIDE DEF m
  <2>4. CASE a # mem[w].alert
    <3>1. Kindly(a) /\ overlaps'[a] = overlaps[a]
      BY <1>16, <1>t, <2>2, <2>4 DEF FetchLeg, Kindly, TypeOK, rows, history
    <3> QED BY <1>t, <2>1, <2>3, <2>4, <3>1, SoleAside DEF Beyond
  <2>5. CASE a = mem[w].alert
    <3> SUFFICES ASSUME overlaps'[a] = 0
                 PROVE  /\ \A x \in UnderWay(a) : x = w
                        /\ "save" \in Beyond /\ m.alert = a => Knows(w, a)'
                        /\ Tells(a)'
      BY <1>t, <2>1, SoleGoes
    <3>1. overlaps[a] = 0
      BY <1>16, <1>t, <2>2, <2>5 DEF FetchLeg, history
    <3>2. (\A x \in UnderWay(a) : x = w) /\ Knows(w, a) /\ Tells(a)
      BY <1>16, <1>t, <2>2, <2>5, <3>1, SoleKnows DEF FetchLeg, Beyond
    <3>3. pc'[w] = "save" /\ mem'[w] = m
      BY <1>t, <2>1, Moves
    <3>4. Judged(w)' = Judged(w)
      BY <1>16, <2>2, <2>3, <3>3 DEF FetchLeg, Judged, Memory, Fits
    <3>5. leg' = leg /\ status' = status /\ pc[w] \in Sending
      BY <1>16, <2>5 DEF FetchLeg, rows, Sending
    <3>6. Knows(w, a)'
      BY <2>3, <3>2, <3>3, <3>4, <3>5 DEF Knows, Sending
    <3>7. Tells(a)'
      BY <3>2, <3>5 DEF Tells
    <3> QED BY <3>6, <3>7, <3>2
  <2> QED BY <2>4, <2>5
<1>17. ASSUME NEW w \in Worker, SaveLeg(w) PROVE Sole(a)'
  <2> DEFINE m == [mem[w] EXCEPT !.leg = None, !.result = None, !.seen = 0,
                          !.ok = @ \/ mem[w].result = "delivered", !.fail = @ \/ mem[w].result = "failed"]
  <2>1. Goto(w, "walk", m)
    BY <1>17 DEF SaveLeg, Goto
  <2>2. mem[w] \in Memory /\ Fits(pc[w], mem[w]) /\ mem[w].alert \in Alert
    BY <1>17, <1>t DEF SaveLeg, Workers, Fits
  <2>3. /\ m.alert = mem[w].alert /\ m.todo = mem[w].todo
        /\ m.ok = (mem[w].ok \/ mem[w].result = "delivered")
        /\ m.fail = (mem[w].fail \/ mem[w].result = "failed")
    BY <2>2 DEF Memory
  <2> HIDE DEF m
  <2>4. CASE a # mem[w].alert
    <3>1. Kindly(a) /\ overlaps'[a] = overlaps[a]
      BY <1>17, <1>t, <2>2, <2>4 DEF SaveLeg, Kindly, TypeOK, rows, history, Fits
    <3> QED BY <1>t, <2>1, <2>3, <2>4, <3>1, SoleAside DEF Beyond
  <2>5. CASE a = mem[w].alert
    <3> SUFFICES ASSUME overlaps'[a] = 0
                 PROVE  /\ \A x \in UnderWay(a) : x = w
                        /\ "walk" \in Beyond /\ m.alert = a => Knows(w, a)'
                        /\ Tells(a)'
      BY <1>t, <2>1, SoleGoes
    <3>1. overlaps[a] = 0
      BY <1>17, <1>t, <2>2, <2>5 DEF SaveLeg, history
    <3>2. (\A x \in UnderWay(a) : x = w) /\ Knows(w, a) /\ Tells(a)
      BY <1>17, <1>t, <2>2, <2>5, <3>1, SoleKnows DEF SaveLeg, Beyond
    <3>3. pc'[w] = "walk" /\ mem'[w] = m
      BY <1>t, <2>1, Moves
    <3>4. /\ Judged(w)' = Judged(w) \cup {mem[w].leg} /\ mem[w].leg \in Channel
          /\ mem[w].result \in Outcome /\ pc[w] = "save"
      BY <1>17, <2>2, <2>3, <3>3 DEF SaveLeg, Judged, Fits
    <3>5. /\ leg'[a][mem[w].leg] = mem[w].result /\ status'[a] = status[a]
          /\ \A c \in Channel \ {mem[w].leg} : leg'[a][c] = leg[a][c]
      BY <1>17, <1>t, <2>2, <2>5, <3>4 DEF SaveLeg, TypeOK
    <3>6. mem[w].leg \notin Judged(w) /\ Judged(w) \subseteq Channel
      BY <3>4 DEF Judged
    <3>7. Knows(w, a)'
      BY <2>3, <3>2, <3>3, <3>4, <3>5, <3>6 DEF Knows, Sending, Outcome
    <3>8. Tells(a)'
      BY <3>2, <3>4, <3>5 DEF Knows, Sending, Tells
    <3> QED BY <3>7, <3>8, <3>2
  <2> QED BY <2>4, <2>5
<1>18. ASSUME NEW w \in Worker, Finish(w) PROVE Sole(a)'
  <2> DEFINE m == Idle
  <2>1. Goto(w, "idle", m)
    BY <1>18 DEF Finish, Goto, Done
  <2>2. mem[w] \in Memory /\ Fits(pc[w], mem[w]) /\ mem[w].alert \in Alert
    BY <1>18, <1>t DEF Finish, Workers, Fits
  <2>4. CASE a # mem[w].alert
    <3>1. Kindly(a) /\ overlaps'[a] = overlaps[a]
      BY <1>18, <1>t, <2>2, <2>4 DEF Finish, Kindly, TypeOK, rows, history, SetStatus
    <3> QED BY <1>t, <2>1, <2>4, <3>1, SoleAside DEF Beyond
  <2>5. CASE a = mem[w].alert
    <3> SUFFICES ASSUME overlaps'[a] = 0
                 PROVE  (\A x \in UnderWay(a) : x = w) /\ Tells(a)'
      BY <1>t, <2>1, SoleGoes DEF Beyond
    <3>1. overlaps[a] = 0
      BY <1>18, <1>t, <2>2, <2>5 DEF Finish, history
    <3>2. (\A x \in UnderWay(a) : x = w) /\ Knows(w, a) /\ Tells(a)
      BY <1>18, <1>t, <2>2, <2>5, <3>1, SoleKnows DEF Finish, Beyond
    <3>3. leg' = leg /\ status'[a] = Verdict(mem[w]) /\ Judged(w) = Channel /\ pc[w] \in Sending
      BY <1>18, <1>t, <2>2, <2>5 DEF Finish, SetStatus, rows, TypeOK, Judged, Sending
    <3>4. Tells(a)'
      BY <3>2, <3>3 DEF Tells, Knows, Verdict
    <3> QED BY <3>2, <3>4
  <2> QED BY <2>4, <2>5
<1>19. ASSUME NEW w \in Worker, EndWithdraw(w) PROVE Sole(a)'
  <2>1. Goto(w, "idle", Idle)
    BY <1>19 DEF EndWithdraw, Done, Goto
  <2>2. Kindly(a) /\ overlaps'[a] = overlaps[a]
    BY <1>19 DEF EndWithdraw, Kindly, rows, history
  <2> QED BY <1>t, <2>1, <2>2, SoleAside DEF Beyond
<1>20. ASSUME NEW w \in Worker, Crash(w) PROVE Sole(a)'
  <2>1. Goto(w, "idle", Idle)
    BY <1>20 DEF Crash, Done, Goto
  <2>2. Kindly(a) /\ overlaps'[a] = overlaps[a]
    BY <1>20 DEF Crash, Kindly, rows, history
  <2> QED BY <1>t, <2>1, <2>2, SoleAside DEF Beyond
<1>21. ASSUME NEW o \in Officer, NEW b \in Alert, NEW act \in Acts, Request(o, act, b)
       PROVE Sole(a)'
  <2>1. Kindly(a) /\ overlaps'[a] = overlaps[a]
    BY <1>21, <1>t DEF Request, Kindly, Workers, TypeOK, rows, history
  <2> QED BY <1>21, <1>t, <2>1, SoleRests DEF Request
<1>22. ASSUME NEW o \in Officer, RetryLegs(o) PROVE Sole(a)'
  <2>1. Kindly(a) /\ overlaps'[a] = overlaps[a]
    BY <1>22, <1>t DEF RetryLegs, Turned, Kindly, Workers, TypeOK, rows, history
  <2> QED BY <1>22, <1>t, <2>1, SoleRests DEF RetryLegs
<1>23. ASSUME NEW o \in Officer, SaveQueued(o) PROVE Sole(a)'
  <2>1. Kindly(a) /\ overlaps'[a] = overlaps[a]
    BY <1>23, <1>t DEF SaveQueued, SetStatus, Kindly, Workers, TypeOK, rows, history
  <2> QED BY <1>23, <1>t, <2>1, SoleRests DEF SaveQueued
<1>24. ASSUME NEW o \in Officer, EnqueueAlert(o) PROVE Sole(a)'
  <2>1. Kindly(a) /\ overlaps'[a] = overlaps[a]
    BY <1>24, <1>t DEF EnqueueAlert, Kindly, Workers, TypeOK, rows, history
  <2> QED BY <1>24, <1>t, <2>1, SoleRests DEF EnqueueAlert
<1>25. ASSUME NEW o \in Officer, SaveCancelled(o) PROVE Sole(a)'
  <2>1. Kindly(a) /\ overlaps'[a] = overlaps[a]
    BY <1>25, <1>t DEF SaveCancelled, SetStatus, Kindly, Workers, TypeOK, rows, history
  <2> QED BY <1>25, <1>t, <2>1, SoleRests DEF SaveCancelled
<1>26. ASSUME NEW o \in Officer, SkipPending(o) PROVE Sole(a)'
  <2>1. Kindly(a) /\ overlaps'[a] = overlaps[a]
    BY <1>26, <1>t DEF SkipPending, Turned, Kindly, Workers, TypeOK, rows, history
  <2> QED BY <1>26, <1>t, <2>1, SoleRests DEF SkipPending
<1>27. ASSUME NEW o \in Officer, Abandon(o) PROVE Sole(a)'
  <2>1. Kindly(a) /\ overlaps'[a] = overlaps[a]
    BY <1>27, <1>t DEF Abandon, Kindly, Workers, TypeOK, rows, history
  <2> QED BY <1>27, <1>t, <2>1, SoleRests DEF Abandon
<1>28. ASSUME NEW b \in Alert, PassExpiry(b) \/ RetractEvent(b) PROVE Sole(a)'
  <2>1. Kindly(a) /\ overlaps'[a] = overlaps[a]
    BY <1>28, <1>t DEF PassExpiry, RetractEvent, Kindly, Workers, TypeOK, rows, history
  <2> QED BY <1>28, <1>t, <2>1, SoleRests DEF PassExpiry, RetractEvent
<1> QED
  BY <1>1, <1>2, <1>3, <1>4, <1>5, <1>6, <1>7, <1>8, <1>9, <1>10, <1>11, <1>12, <1>13, <1>14, <1>15,
     <1>16, <1>17, <1>18, <1>19, <1>20, <1>21, <1>22, <1>23, <1>24, <1>25, <1>26, <1>27, <1>28
  DEF Next, Step, Answer

-----------------------------------------------------------------------------
(* The theorems                                                            *)

LEMMA InitInv == Init => Inv
<1> SUFFICES ASSUME Init PROVE Inv
  OBVIOUS
<1>1. TypeOK
  <2>1. /\ attempts \in [Alert -> [Channel -> Nat]] /\ calls \in [Alert -> [Channel -> Nat]]
        /\ landed \in [Alert -> [Channel -> Nat]]
    BY DEF Init
  <2>2. leg \in [Alert -> [Channel -> {"none", "pending"} \cup Outcome]]
    BY DEF Init
  <2>3. /\ jobs \in [Alert -> Nat] /\ crashed \in [Alert -> Nat] /\ overlaps \in [Alert -> Nat]
        /\ asked \in [Alert -> Nat]
    BY DEF Init
  <2>4. /\ status \in [Alert -> {"draft", "scheduled"} \cup Deliverable \cup Terminal]
        /\ pc \in [Worker -> {"idle", "load", "begin"} \cup Beyond]
    BY DEF Init, Deliverable
  <2> QED BY <2>1, <2>2, <2>3, <2>4 DEF TypeOK
<1>2. Workers
  BY IdleMemory DEF Init, Workers, Desk, AtRest
<1>3. ASSUME NEW a \in Alert, NEW c \in Channel PROVE Takes(a, c) /\ Calls(a, c)
  <2>1. \A w \in Worker : pc[w] = "idle"
    BY DEF Init
  <2>2. /\ \A w \in Worker : ~Calling(w, a, c) /\ ~Owing(w, a, c) /\ ~Parking(w, a, c) /\ ~Withdrawing(w, a)
    BY <2>1 DEF Calling, Dealing, Owing, Parking, Withdrawing, Sending, Stopping
  <2>3. Due(a, c) = 0
    BY <2>2, DueCounts
  <2> QED BY <2>2, <2>3, AlertAssumption DEF Init, Takes, Calls, Spare
<1>4. ASSUME NEW a \in Alert PROVE Sole(a)
  BY DEF Init, Sole, UnderWay, Beyond, Tells
<1> QED BY <1>1, <1>2, <1>3, <1>4 DEF Inv

LEMMA InvKept == Inv /\ [Next]_vars => Inv'
<1> SUFFICES ASSUME Inv, [Next]_vars PROVE Inv'
  OBVIOUS
<1>1. TypeOK' /\ Workers'
  BY TypesKept DEF Inv
<1> QED BY <1>1, AccountsKept, SoleKept DEF Inv

\* The accounts of every leg hold in every state, with any number of dispatchers at
\* work on an alert.
THEOREM AlertAccountsHold == Spec => []Inv
BY InitInv, InvKept, PTL DEF Spec

\* A provider takes a leg once, and once more at most for each death of a worker and
\* for each dispatch that began while another was under way.
THEOREM AlertsDeliveredOnce == Spec => []DeliveredOnce
<1>1. Inv => DeliveredOnce
  BY DEF Inv, Takes, Spare, DeliveredOnce, TypeOK
<1> QED BY <1>1, AlertAccountsHold, PTL

\* A provider is called no more often than a leg has attempts, but for a call more
\* for each death and each dispatch that began beside another.
THEOREM AlertAttemptsCapped == Spec => []AttemptsCapped
<1>1. Inv => AttemptsCapped
  BY AlertAssumption DEF Inv, Calls, Spare, AttemptsCapped, TypeOK
<1> QED BY <1>1, AlertAccountsHold, PTL

\* The status left when nobody works on an alert tells what went out, as long as no
\* dispatch of it began beside another.
THEOREM AlertStatusTells == Spec => []StatusTells
<1>1. Inv => StatusTells
  BY DEF Inv, Sole, Tells, StatusTells
<1> QED BY <1>1, AlertAccountsHold, PTL
=============================================================================
