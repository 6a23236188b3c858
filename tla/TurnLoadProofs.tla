--------------------------- MODULE TurnLoadProofs ---------------------------
(***************************************************************************)
(* Proofs about TurnLoad for every schedule, deadline and wire: the map of *)
(* waiters holds who waits, and the report of a run is true.               *)
(***************************************************************************)
EXTENDS TurnLoad, FiniteSetTheorems, TLAPS

\* What the map says of a turn depends on where its task is: nothing before
\* it fires, exactly one of map and completion while it can be woken.
MapInv ==
  /\ task \in [Turns -> States]
  /\ \A i \in Turns : task[i] = "asleep" => i \notin woken
  /\ WaitersAreWaiting

\* A load begins with an empty map and every task asleep.
LEMMA MapInit == Init => MapInv
BY DEF Init, MapInv, WaitersAreWaiting, States

\* One task's step touches its own entry only.
LEMMA TaskKeepsMap ==
  ASSUME MapInv, NEW i \in Turns, Task(i)
  PROVE  MapInv'
<1> USE DEF MapInv, WaitersAreWaiting, At, States
<1>1. CASE Fire(i)
  BY <1>1 DEF Fire
<1>2. CASE SendTurn(i)
  BY <1>2 DEF SendTurn, routeVars
<1>3. CASE SendFails(i)
  BY <1>3 DEF SendFails, Return
<1>4. CASE Complete(i)
  BY <1>4 DEF Complete, Return
<1>5. CASE DeadlinePasses(i)
  BY <1>5 DEF DeadlinePasses, routeVars
<1>6. CASE GiveUp(i)
  BY <1>6 DEF GiveUp, Return
<1>7. CASE RecordTurn(i)
  BY <1>7 DEF RecordTurn, routeVars
<1> QED
  BY <1>1, <1>2, <1>3, <1>4, <1>5, <1>6, <1>7 DEF Task

\* The router takes a waiter out and wakes it, if its deadline has not passed.
LEMMA RouteKeepsMap ==
  ASSUME MapInv, Route
  PROVE  MapInv'
<1> DEFINE m == Head(toHost)
<1>1. UNCHANGED task
  BY DEF Route, clientVars
<1>2. CASE Completes(m)
  <2>1. /\ waiters' = waiters \ {m.turn}
        /\ woken' = IF task[m.turn] = "late" THEN woken
                    ELSE woken \cup {m.turn}
    BY <1>2 DEF Route
  <2>2. m.turn \in waiters
    BY <1>2 DEF Completes
  <2> QED
    BY <1>1, <2>1, <2>2 DEF MapInv, WaitersAreWaiting
<1>3. CASE ~Completes(m)
  <2>1. UNCHANGED <<waiters, woken>>
    BY <1>3 DEF Route
  <2> QED
    BY <1>1, <2>1 DEF MapInv, WaitersAreWaiting
<1> QED
  BY <1>2, <1>3

\* Neither the end of the router nor the guest, the freeze, the link and the
\* clock touch the map.
LEMMA OthersKeepMap ==
  ASSUME MapInv,
         \/ RouterEnds \/ GuestTurn \/ Pause \/ Resume \/ Hangup \/ Tick
         \/ UNCHANGED vars
  PROVE  MapInv'
<1>1. UNCHANGED <<task, waiters, woken>>
  BY DEF RouterEnds, GuestTurn, GuestStarts, GuestEnds, Pause, Resume,
         Hangup, Tick, vars, clientVars, routeVars
<1> QED
  BY <1>1 DEF MapInv, WaitersAreWaiting

\* guestload.rs:61-63, 95-108: whichever of completion, deadline, failed send
\* and closing link comes first, the map holds those who wait and no other.
THEOREM WaitersWait == Spec => []WaitersAreWaiting
<1>1. MapInv /\ [Next]_vars => MapInv'
  BY TaskKeepsMap, RouteKeepsMap, OthersKeepMap DEF Next
<1>2. MapInv => WaitersAreWaiting
  BY DEF MapInv
<1> QED
  BY MapInit, <1>1, <1>2, PTL DEF Spec

-----------------------------------------------------------------------------
(* What was done.  A command, a turn under way and a turn done are of      *)
(* turns that have fired; a completion is of a turn that was done.         *)

Signalled == [sig : {"TurnStarted", "TurnEnded"}, turn : Turns]

Awake(i) == i \in Turns /\ task[i] # "asleep"

DoneInv ==
  /\ toGuest \in Seq(Turns) /\ toHost \in Seq(Signalled)
  /\ verdict \in [Turns -> Verdicts]
  /\ \A k \in 1..Len(toGuest) : Awake(toGuest[k])
  /\ serving # 0 => Awake(serving)
  /\ \A i \in ran : Awake(i)
  /\ \A k \in 1..Len(toHost) :
       toHost[k].sig = "TurnEnded" => toHost[k].turn \in ran
  /\ woken \subseteq ran
  /\ \A i \in Turns : verdict[i] = "ok" => i \in ran

\* Nothing is sent and nothing is booked.
LEMMA DoneInit == Init => DoneInv
BY DEF Init, DoneInv, Verdicts

\* A task that moves on stays awake, and so do the others.
LEMMA StaysAwake ==
  ASSUME MapInv, NEW i \in Turns, NEW from, NEW to \in States \ {"asleep"},
         At(i, from, to)
  PROVE  \A j : Awake(j) => Awake(j)'
BY DEF MapInv, At, Awake

\* A turn is booked by what its task was told.
LEMMA TaskKeepsDone ==
  ASSUME MapInv, DoneInv, NEW i \in Turns, Task(i)
  PROVE  DoneInv'
<1>1. (\A j : Awake(j) => Awake(j)') /\ Awake(i)'
  <2>1. PICK from \in States, to \in States \ {"asleep"} : At(i, from, to)
    BY DEF Task, Fire, SendTurn, SendFails, Complete, DeadlinePasses, GiveUp,
           RecordTurn, Return, States
  <2> QED
    BY <2>1, StaysAwake DEF At, Awake, MapInv
<1>2. UNCHANGED <<toHost, serving, ran>>
  BY DEF Task, Fire, SendTurn, SendFails, Complete, DeadlinePasses, GiveUp,
         RecordTurn, Return, wireVars, guestVars
<1>3. woken' = woken
  BY DEF Task, Fire, SendTurn, SendFails, Complete, DeadlinePasses, GiveUp,
         RecordTurn, Return, routeVars
<1>4. /\ toGuest' \in Seq(Turns)
      /\ (\A k \in 1..Len(toGuest) : Awake(toGuest[k]))'
  <2>1. toGuest' = toGuest \/ toGuest' = Append(toGuest, i)
    BY DEF Task, Fire, SendTurn, SendFails, Complete, DeadlinePasses, GiveUp,
           RecordTurn, Return, Wire, wireVars
  <2>2. CASE toGuest' = toGuest
    BY <1>1, <2>2 DEF DoneInv, Awake
  <2>3. CASE toGuest' = Append(toGuest, i)
    <3>1. /\ toGuest' \in Seq(Turns)
          /\ \A k \in 1..Len(toGuest') :
               toGuest'[k] = i \/ \E l \in 1..Len(toGuest) :
                                    toGuest'[k] = toGuest[l]
      BY <2>3 DEF DoneInv
    <3> QED
      BY <1>1, <3>1 DEF DoneInv, Awake
  <2> QED
    BY <2>1, <2>2, <2>3
<1>5. /\ verdict' \in [Turns -> Verdicts]
      /\ \A j \in Turns : verdict'[j] = "ok" => j \in ran
  <2>1. CASE UNCHANGED verdict
    BY <2>1 DEF DoneInv
  <2>2. CASE Complete(i)
    BY <2>2 DEF DoneInv, Complete, Return, Verdicts
  <2>3. CASE SendFails(i) \/ GiveUp(i)
    BY <2>3 DEF DoneInv, SendFails, GiveUp, Return, Verdicts
  <2> QED
    BY <2>1, <2>2, <2>3 DEF Task, Fire, SendTurn, DeadlinePasses, RecordTurn
<1> QED
  BY <1>1, <1>2, <1>3, <1>4, <1>5 DEF DoneInv

\* A completion that is routed was sent by the guest.
LEMMA RouteKeepsDone ==
  ASSUME MapInv, DoneInv, Route
  PROVE  DoneInv'
<1> DEFINE m == Head(toHost)
<1>1. /\ UNCHANGED <<task, toGuest, serving, ran, verdict>>
      /\ toHost # <<>> /\ toHost' = Tail(toHost)
  BY DEF Route, clientVars, guestVars
<1>2. woken' \subseteq ran
  <2>1. CASE Completes(m)
    BY <1>1, <2>1 DEF Route, Completes, DoneInv
  <2>2. CASE ~Completes(m)
    BY <2>2 DEF Route, DoneInv
  <2> QED
    BY <2>1, <2>2
<1>3. /\ Tail(toHost) \in Seq(Signalled)
      /\ \A k \in 1..Len(Tail(toHost)) :
           Tail(toHost)[k].sig = "TurnEnded" => Tail(toHost)[k].turn \in ran
  BY <1>1 DEF DoneInv
<1> QED
  BY <1>1, <1>2, <1>3 DEF DoneInv, Awake

\* The guest completes what it was sent; the rest books nothing.
LEMMA OthersKeepDone ==
  ASSUME MapInv, DoneInv,
         \/ RouterEnds \/ GuestTurn \/ Pause \/ Resume \/ Hangup \/ Tick
         \/ UNCHANGED vars
  PROVE  DoneInv'
<1>1. UNCHANGED <<task, woken, verdict>>
  BY DEF RouterEnds, GuestTurn, GuestStarts, GuestEnds, Pause, Resume,
         Hangup, Tick, vars, clientVars, routeVars
<1>2. CASE GuestStarts
  <2>1. /\ toGuest # <<>> /\ serving' = Head(toGuest)
        /\ toGuest' = Tail(toGuest) /\ ran' = ran
        /\ toHost' = Append(toHost,
                       [sig |-> "TurnStarted", turn |-> Head(toGuest)])
    BY <1>2 DEF GuestStarts, Say
  <2>2. Head(toGuest) = toGuest[1] /\ 1 \in 1..Len(toGuest)
    BY <2>1 DEF DoneInv
  <2>3. Awake(serving') /\ [sig |-> "TurnStarted", turn |-> Head(toGuest)]
                              \in Signalled
    BY <2>1, <2>2 DEF DoneInv, Signalled, Awake
  <2>4. /\ Tail(toGuest) \in Seq(Turns)
        /\ \A k \in 1..Len(Tail(toGuest)) : Awake(Tail(toGuest)[k])
    BY <2>1 DEF DoneInv
  <2>5. /\ toHost' \in Seq(Signalled)
        /\ \A k \in 1..Len(toHost') :
             toHost'[k].sig = "TurnEnded" => toHost'[k].turn \in ran
    BY <2>1, <2>3 DEF DoneInv
  <2> QED
    BY <1>1, <2>1, <2>3, <2>4, <2>5 DEF DoneInv, Awake
<1>3. CASE GuestEnds
  <2>1. /\ serving # 0 /\ serving' = 0 /\ ran' = ran \cup {serving}
        /\ toGuest' = toGuest
        /\ toHost' = Append(toHost,
                            [sig |-> "TurnEnded", turn |-> serving])
    BY <1>3 DEF GuestEnds, Say
  <2>2. Awake(serving) /\ [sig |-> "TurnEnded", turn |-> serving]
                              \in Signalled
    BY <2>1 DEF DoneInv, Signalled, Awake
  <2>3. /\ toHost' \in Seq(Signalled)
        /\ \A k \in 1..Len(toHost') :
             toHost'[k].sig = "TurnEnded" => toHost'[k].turn \in ran'
    BY <2>1, <2>2 DEF DoneInv
  <2> QED
    BY <1>1, <2>1, <2>2, <2>3 DEF DoneInv, Awake
<1>4. CASE \/ RouterEnds \/ Pause \/ Resume \/ Hangup \/ Tick
           \/ UNCHANGED vars
  <2>1. /\ UNCHANGED <<toHost, serving, ran>>
        /\ toGuest' = toGuest \/ toGuest' = <<>>
    BY <1>4 DEF RouterEnds, Pause, Resume, Hangup, Tick, vars, wireVars,
                guestVars
  <2>2. CASE toGuest' = toGuest
    BY <1>1, <2>1, <2>2 DEF DoneInv, Awake
  <2>3. CASE toGuest' = <<>>
    <3>1. toGuest' \in Seq(Turns) /\ Len(toGuest') = 0
      BY <2>3
    <3> QED
      BY <1>1, <2>1, <3>1 DEF DoneInv, Awake
  <2> QED
    BY <2>1, <2>2, <2>3
<1> QED
  BY <1>2, <1>3, <1>4 DEF GuestTurn

-----------------------------------------------------------------------------
(* What the clock has reached.  A task is never ahead of it, and a turn    *)
(* that was given up had waited for a whole deadline.                      *)

TimeInv ==
  /\ now \in Nat /\ now <= Horizon
  /\ since \in [Turns -> Nat] /\ latency \in [Turns -> Int]
  /\ \A i \in Turns :
       /\ task[i] # "asleep" => Times[i] <= now
       /\ task[i] = "waiting" => Times[i] <= since[i]
       /\ task[i] \in {"asleep", "sending", "waiting", "late"} =>
            verdict[i] = "none"
       /\ task[i] = "late" \/ (task[i] = "returned" /\ verdict[i] = "dropped")
            => Times[i] + Deadline <= now
       /\ task[i] = "recorded" /\ verdict[i] = "dropped" =>
            Deadline <= latency[i]

\* What the constants say of the schedule.
LEMMA Scheduled ==
  /\ Duration \in Nat /\ Deadline \in Nat /\ Horizon \in Nat
  /\ Duration + Deadline <= Horizon
  /\ Turns = 1..Len(Times) /\ Len(Times) \in Nat
  /\ \A i \in Turns : Times[i] \in Nat /\ Times[i] < Duration
BY TurnLoadAssumption DEF Schedules, Turns

\* Nothing has been sent at time 0.
LEMMA TimeInit == Init => TimeInv
BY Scheduled DEF Init, TimeInv, None

\* A task notes when it sent, and drops its turn after the deadline.
LEMMA TaskKeepsTime ==
  ASSUME MapInv, DoneInv, TimeInv, NEW i \in Turns, Task(i)
  PROVE  TimeInv'
<1> USE Scheduled DEF MapInv, DoneInv, TimeInv, At, States, Verdicts
<1>1. CASE Fire(i)
  BY <1>1 DEF Fire
<1>2. CASE SendTurn(i)
  BY <1>2 DEF SendTurn
<1>3. CASE SendFails(i)
  BY <1>3 DEF SendFails, Return
<1>4. CASE Complete(i)
  BY <1>4 DEF Complete, Return
<1>5. CASE DeadlinePasses(i)
  <2>1. /\ task[i] = "waiting" /\ task' = [task EXCEPT ![i] = "late"]
        /\ UNCHANGED <<now, since, latency, verdict>>
        /\ now >= since[i] + Deadline \/ now = Horizon
    BY <1>5 DEF DeadlinePasses, Expired
  <2>2. Times[i] + Deadline <= now /\ Times[i] <= now
    BY <2>1
  <2> QED
    BY <2>1, <2>2
<1>6. CASE GiveUp(i)
  <2>1. /\ task[i] = "late" /\ task' = [task EXCEPT ![i] = "returned"]
        /\ verdict' = [verdict EXCEPT ![i] = "dropped"]
        /\ UNCHANGED <<now, since, latency>>
    BY <1>6 DEF GiveUp, Return
  <2>2. /\ task'[i] = "returned" /\ verdict'[i] = "dropped"
        /\ Times[i] + Deadline <= now /\ Times[i] <= now
    BY <2>1
  <2>3. \A j \in Turns \ {i} : task'[j] = task[j] /\ verdict'[j] = verdict[j]
    BY <2>1
  <2> QED
    BY <2>1, <2>2, <2>3
<1>7. CASE RecordTurn(i)
  BY <1>7 DEF RecordTurn
<1> QED
  BY <1>1, <1>2, <1>3, <1>4, <1>5, <1>6, <1>7 DEF Task

\* The clock waits for the deadlines that are due.
LEMMA OthersKeepTime ==
  ASSUME TimeInv,
         \/ Route \/ RouterEnds \/ GuestTurn \/ Pause \/ Resume \/ Hangup
         \/ Tick \/ UNCHANGED vars
  PROVE  TimeInv'
<1>1. UNCHANGED clientVars
  BY DEF Route, RouterEnds, GuestTurn, GuestStarts, GuestEnds, Pause, Resume,
         Hangup, Tick, vars
<1>2. now' \in Nat /\ now <= now' /\ now' <= Horizon
  BY Scheduled DEF TimeInv, Route, RouterEnds, GuestTurn, GuestStarts,
         GuestEnds, Pause, Resume, Hangup, Tick, vars
<1> QED
  BY <1>1, <1>2, Scheduled DEF TimeInv, clientVars

-----------------------------------------------------------------------------
(* The freeze.  While it lasts nothing is done, so what was done by then   *)
(* is of turns that fired before it began.                                 *)

FreezeInv ==
  /\ vm \in {"running", "paused", "resumed"}
  /\ frozen \in Nat \X Nat /\ frozen[2] <= now
  /\ vm # "resumed" => frozen[1] = frozen[2]
  /\ vm = "paused" => \A i \in ran : Times[i] <= frozen[1]
  /\ \A i \in Turns :
       task[i] = "recorded" /\ verdict[i] = "ok"
         /\ frozen[1] < Times[i] /\ Times[i] <= frozen[2]
       => frozen[2] - Times[i] <= latency[i]

\* The VM runs.
LEMMA FreezeInit == Init => FreezeInv
BY DEF Init, FreezeInv, States

\* A task moves neither the VM nor the clock.
LEMMA TaskKeepsFreeze ==
  ASSUME MapInv, DoneInv, TimeInv, FreezeInv, NEW i \in Turns, Task(i)
  PROVE  FreezeInv'
<1>1. UNCHANGED <<vm, frozen, ran, now>>
  BY DEF Task, Fire, SendTurn, SendFails, Complete, DeadlinePasses, GiveUp,
         RecordTurn, Return, vmVars, guestVars
<1>2. \A j \in Turns \ {i} : /\ task'[j] = task[j] /\ verdict'[j] = verdict[j]
                             /\ latency'[j] = latency[j]
  BY DEF MapInv, DoneInv, TimeInv, Task, Fire, SendTurn, SendFails, Complete,
         DeadlinePasses, GiveUp, RecordTurn, Return, At
<1>3. task'[i] = "recorded" => latency'[i] = now - Times[i]
  BY DEF MapInv, TimeInv, Task, Fire, SendTurn, SendFails, Complete,
         DeadlinePasses, GiveUp, RecordTurn, Return, At
<1>4. frozen[1] \in Nat /\ frozen[2] \in Nat /\ frozen[2] <= now
  BY DEF FreezeInv
<1>5. ASSUME NEW j \in Turns, task'[j] = "recorded", verdict'[j] = "ok",
             frozen[1] < Times[j], Times[j] <= frozen[2]
      PROVE  frozen[2] - Times[j] <= latency'[j]
  <2>1. CASE j = i
    BY <1>3, <1>4, <1>5, <2>1, Scheduled DEF TimeInv
  <2>2. CASE j # i
    BY <1>2, <1>5, <2>2 DEF FreezeInv
  <2> QED
    BY <2>1, <2>2
<1> QED
  BY <1>1, <1>5 DEF FreezeInv

\* A guest that is paused completes nothing.
LEMMA OthersKeepFreeze ==
  ASSUME DoneInv, TimeInv, FreezeInv,
         \/ Route \/ RouterEnds \/ GuestTurn \/ Pause \/ Resume \/ Hangup
         \/ Tick \/ UNCHANGED vars
  PROVE  FreezeInv'
<1> USE Scheduled
<1>1. UNCHANGED <<task, verdict, latency>>
  BY DEF Route, RouterEnds, GuestTurn, GuestStarts, GuestEnds, Pause, Resume,
         Hangup, Tick, vars, clientVars
<1>2. CASE Pause
  <2>1. /\ vm' = "paused" /\ frozen' = <<now, now>>
        /\ now' = now /\ ran' = ran
    BY <1>2 DEF Pause, guestVars
  <2>2. \A i \in ran : Times[i] <= now
    BY DEF DoneInv, TimeInv, Awake
  <2> QED
    BY <1>1, <2>1, <2>2 DEF FreezeInv, TimeInv
<1>3. CASE Resume
  <2>1. /\ vm = "paused" /\ vm' = "resumed"
        /\ frozen' = <<frozen[1], now>> /\ now' = now /\ ran' = ran
    BY <1>3 DEF Resume, guestVars
  <2>2. \A i \in Turns : verdict[i] = "ok" => Times[i] <= frozen[1]
    BY <2>1 DEF DoneInv, FreezeInv
  <2> QED
    BY <1>1, <2>1, <2>2 DEF FreezeInv, TimeInv
<1>4. CASE Route \/ RouterEnds \/ GuestTurn \/ Hangup \/ Tick
           \/ UNCHANGED vars
  <2>1. UNCHANGED <<vm, frozen>> /\ now' \in Nat /\ now <= now'
    BY <1>4 DEF TimeInv, Route, RouterEnds, GuestTurn, GuestStarts,
           GuestEnds, Hangup, Tick, vars, vmVars
  <2>2. vm = "paused" => ran' = ran
    BY <1>4 DEF Route, RouterEnds, GuestTurn, GuestStarts, GuestEnds,
           Hangup, Tick, vars, guestVars, Answers
  <2> QED
    BY <1>1, <2>1, <2>2 DEF FreezeInv, TimeInv
<1> QED
  BY <1>2, <1>3, <1>4

-----------------------------------------------------------------------------
(* The counter.                                                            *)

Given == {i \in Turns : verdict[i] = "dropped"}

CountInv == dropped = Cardinality(Given)

\* No turn is dropped.
LEMMA CountInit == Init => CountInv
<1> SUFFICES ASSUME Init PROVE CountInv
  OBVIOUS
<1>1. Given = {}
  BY DEF Init, Given
<1> QED
  BY <1>1, FS_EmptySet DEF Init, CountInv

\* A turn is counted once, when it is booked.
LEMMA TaskKeepsCount ==
  ASSUME DoneInv, TimeInv, CountInv, NEW i \in Turns, Task(i)
  PROVE  CountInv'
<1>1. CASE UNCHANGED <<verdict, dropped>>
  BY <1>1 DEF CountInv, Given
<1>2. CASE Complete(i) \/ SendFails(i)
  <2>1. dropped' = dropped /\ verdict[i] = "none"
    BY <1>2 DEF Complete, SendFails, Return, At, TimeInv
  <2>2. \E v \in {"ok", "unsent"} : verdict' = [verdict EXCEPT ![i] = v]
    BY <1>2 DEF Complete, SendFails, Return
  <2>3. Given' = Given
    BY <2>1, <2>2 DEF Given, DoneInv
  <2> QED
    BY <2>1, <2>3 DEF CountInv
<1>3. CASE GiveUp(i)
  <2>1. /\ dropped' = dropped + 1 /\ verdict[i] = "none"
        /\ verdict' = [verdict EXCEPT ![i] = "dropped"]
    BY <1>3 DEF GiveUp, Return, At, TimeInv
  <2>2. Given' = Given \cup {i} /\ i \notin Given
    BY <2>1 DEF Given, DoneInv
  <2>3. IsFiniteSet(Given)
    <3>1. IsFiniteSet(Turns)
      BY Scheduled, FS_Interval
    <3> QED
      BY <3>1, FS_Subset DEF Given
  <2> QED
    BY <2>1, <2>2, <2>3, FS_AddElement DEF CountInv
<1> QED
  BY <1>1, <1>2, <1>3
  DEF Task, Fire, SendTurn, DeadlinePasses, RecordTurn

-----------------------------------------------------------------------------
LoadInv == MapInv /\ DoneInv /\ TimeInv /\ FreezeInv /\ CountInv

\* The five hold at the start.
LEMMA LoadInit == Init => LoadInv
BY MapInit, DoneInit, TimeInit, FreezeInit, CountInit DEF LoadInv

\* Every step of the load keeps all five.
LEMMA LoadStep ==
  ASSUME LoadInv, [Next]_vars
  PROVE  LoadInv'
<1> USE DEF LoadInv
<1>1. CASE \E i \in Turns : Task(i)
  BY <1>1, TaskKeepsMap, TaskKeepsDone, TaskKeepsTime, TaskKeepsFreeze,
     TaskKeepsCount
<1>2. CASE \/ Route \/ RouterEnds \/ GuestTurn \/ Pause \/ Resume
           \/ Hangup \/ Tick \/ UNCHANGED vars
  <2>1. UNCHANGED <<verdict, dropped>>
    BY <1>2 DEF Route, RouterEnds, GuestTurn, GuestStarts, GuestEnds,
           Pause, Resume, Hangup, Tick, vars, clientVars
  <2>2. CountInv'
    BY <2>1 DEF CountInv, Given
  <2> QED
    BY <1>2, <2>2, RouteKeepsMap, OthersKeepMap, RouteKeepsDone,
       OthersKeepDone, OthersKeepTime, OthersKeepFreeze
<1> QED
  BY <1>1, <1>2 DEF Next

\* The report of a run is true for every schedule, deadline and freeze: what is
\* booked as done was done, what is counted as dropped shows a whole deadline
\* in the latencies, and a turn of the freeze what was left of it (run_load,
\* VsockTurnDriver, LatencyRecorder).
THEOREM ReportsAreTrue == Spec => []ReportIsTrue
<1>1. Init => LoadInv
  BY LoadInit
<1>2. LoadInv /\ [Next]_vars => LoadInv'
  BY LoadStep
<1>3. LoadInv => ReportIsTrue
  <2> SUFFICES ASSUME LoadInv, Summed, NEW i \in Turns
               PROVE  /\ dropped = Cardinality(Given)
                      /\ verdict[i] = "ok" => i \in ran
                      /\ verdict[i] = "dropped" => latency[i] >= Deadline
                      /\ verdict[i] = "ok"
                           /\ Times[i] \in frozen[1] + 1..frozen[2] =>
                           latency[i] >= frozen[2] - Times[i]
    BY DEF ReportIsTrue, Given, LoadInv, CountInv
  <2>1. task[i] = "recorded" /\ latency[i] \in Int
    BY DEF Summed, LoadInv, TimeInv
  <2>2. frozen[1] \in Nat /\ frozen[2] \in Nat /\ Times[i] \in Nat
    BY Scheduled DEF LoadInv, FreezeInv
  <2> QED
    BY <2>1, <2>2, Scheduled
    DEF LoadInv, DoneInv, TimeInv, FreezeInv, CountInv
<1> QED
  BY <1>1, <1>2, <1>3, PTL DEF Spec

-----------------------------------------------------------------------------
(* Types.  What the map, the clock and the counter leave open is the range *)
(* of the readings, and that nobody but scheduled turns is told of.        *)

RangeInv ==
  /\ since \in [Turns -> 0..Horizon] /\ latency \in [Turns -> 0..None]
  /\ frozen \in (0..Horizon) \X (0..Horizon)
  /\ waiters \subseteq Turns /\ woken \subseteq Turns
  /\ router \in {"reading", "ended"} /\ link \in {"open", "closed"}
  /\ serving \in Turns \cup {0} /\ ran \subseteq Turns

\* Every clock and number is in its range.
LEMMA RangeInit == Init => RangeInv
BY Scheduled DEF Init, RangeInv, None

\* A latency is not below zero: no turn is recorded before it was meant to be
\* sent (recorder.rs, loadgen.rs).
LEMMA TaskKeepsRange ==
  ASSUME MapInv, TimeInv, RangeInv, NEW i \in Turns, Task(i)
  PROVE  RangeInv'
<1> USE Scheduled DEF RangeInv, None
<1>1. UNCHANGED <<frozen, router, link, serving, ran>> /\ woken' = woken
  BY DEF Task, Fire, SendTurn, SendFails, Complete, DeadlinePasses, GiveUp,
         RecordTurn, Return, vmVars, wireVars, guestVars, routeVars
<1>2. waiters' \subseteq Turns
  BY DEF Task, Fire, SendTurn, SendFails, Complete, DeadlinePasses, GiveUp,
         RecordTurn, Return, routeVars
<1>3. since' \in [Turns -> 0..Horizon]
  <2>1. now \in 0..Horizon
    BY DEF TimeInv
  <2> QED
    BY <2>1 DEF Task, Fire, SendTurn, SendFails, Complete, DeadlinePasses,
           GiveUp, RecordTurn, Return
<1>4. latency' \in [Turns -> 0..None]
  <2>1. CASE RecordTurn(i)
    <3>1. /\ task[i] = "returned"
          /\ latency' = [latency EXCEPT ![i] = now - Times[i]]
      BY <2>1 DEF RecordTurn, At
    <3>2. /\ now \in Nat /\ now <= Horizon /\ Times[i] <= now
          /\ Times[i] \in Nat /\ Horizon \in Nat
      BY <3>1 DEF TimeInv
    <3>3. now - Times[i] \in 0..None
      BY <3>2
    <3> QED
      BY <3>1, <3>3
  <2>2. CASE ~RecordTurn(i)
    BY <2>2 DEF Task, Fire, SendTurn, SendFails, Complete, DeadlinePasses,
           GiveUp, Return
  <2> QED
    BY <2>1, <2>2
<1> QED
  BY <1>1, <1>2, <1>3, <1>4

\* The clock and the ends of the freeze stay within the horizon.
LEMMA OthersKeepRange ==
  ASSUME DoneInv, TimeInv, RangeInv,
         \/ Route \/ RouterEnds \/ GuestTurn \/ Pause \/ Resume \/ Hangup
         \/ Tick \/ UNCHANGED vars
  PROVE  RangeInv'
<1> USE DEF RangeInv
<1>1. UNCHANGED <<since, latency>>
  BY DEF Route, RouterEnds, GuestTurn, GuestStarts, GuestEnds, Pause, Resume,
         Hangup, Tick, vars, clientVars
<1>2. frozen' \in (0..Horizon) \X (0..Horizon)
  BY DEF TimeInv, Route, RouterEnds, GuestTurn, GuestStarts, GuestEnds, Pause,
         Resume, Hangup, Tick, vars, vmVars
<1>3. waiters' \subseteq Turns /\ woken' \subseteq Turns
  <2>1. CASE Route
    <3> DEFINE m == Head(toHost)
    <3>1. Completes(m) => m.turn \in waiters
      BY DEF Completes
    <3>2. waiters' \subseteq waiters /\ woken' \subseteq woken \cup waiters
      BY <2>1, <3>1 DEF Route
    <3> QED
      BY <3>2
  <2>2. CASE ~Route
    BY <2>2 DEF RouterEnds, GuestTurn, GuestStarts, GuestEnds, Pause,
           Resume, Hangup, Tick, vars, routeVars
  <2> QED
    BY <2>1, <2>2
<1>4. router' \in {"reading", "ended"} /\ link' \in {"open", "closed"}
  BY DEF Route, RouterEnds, GuestTurn, GuestStarts, GuestEnds, Pause, Resume,
         Hangup, Tick, vars, routeVars, wireVars
<1>5. serving' \in Turns \cup {0} /\ ran' \subseteq Turns
  <2>1. CASE GuestTurn
    BY <2>1 DEF GuestTurn, GuestStarts, GuestEnds, DoneInv
  <2>2. CASE ~GuestTurn
    BY <2>2 DEF Route, RouterEnds, Pause, Resume, Hangup, Tick, vars,
           guestVars
  <2> QED
    BY <2>1, <2>2
<1> QED
  BY <1>1, <1>2, <1>3, <1>4, <1>5

\* Every schedule, deadline and freeze leaves the run well typed: no more turns
\* are dropped than were scheduled, and no latency is negative or longer than
\* the run.
THEOREM LoadIsTyped == Spec => []TypeOK
<1>1. Init => LoadInv /\ RangeInv
  BY LoadInit, RangeInit
<1>2. LoadInv /\ RangeInv /\ [Next]_vars => LoadInv' /\ RangeInv'
  <2> SUFFICES ASSUME LoadInv, RangeInv, [Next]_vars PROVE RangeInv'
    BY LoadStep
  <2> QED
    BY TaskKeepsRange, OthersKeepRange DEF LoadInv, Next
<1>3. LoadInv /\ RangeInv => TypeOK
  <2> SUFFICES ASSUME LoadInv, RangeInv PROVE TypeOK
    OBVIOUS
  <2>1. dropped \in 0..Cardinality(Turns)
    <3>1. IsFiniteSet(Turns)
      BY Scheduled, FS_Interval
    <3>2. Given \subseteq Turns
      BY DEF Given
    <3>3. /\ Cardinality(Given) \in Nat /\ Cardinality(Turns) \in Nat
          /\ Cardinality(Given) <= Cardinality(Turns)
      BY <3>1, <3>2, FS_Subset, FS_CardinalityType
    <3> QED
      BY <3>3 DEF LoadInv, CountInv
  <2>2. now \in 0..Horizon
    BY Scheduled DEF LoadInv, TimeInv
  <2>3. /\ toGuest \in Seq(Turns) /\ toHost \in Seq(Signalled)
        /\ verdict \in [Turns -> Verdicts] /\ task \in [Turns -> States]
        /\ vm \in {"running", "paused", "resumed"}
    BY DEF LoadInv, MapInv, DoneInv, FreezeInv
  <2> QED
    BY <2>1, <2>2, <2>3 DEF RangeInv, TypeOK, Signalled
<1> QED
  BY <1>1, <1>2, <1>3, PTL DEF Spec

=============================================================================
