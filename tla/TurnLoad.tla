------------------------------ MODULE TurnLoad ------------------------------
(***************************************************************************)
(* The open-loop load and the freeze it measures: run_load and the latency *)
(* recorder (crates/harness/src/loadgen.rs, recorder.rs), the vsock turn   *)
(* driver (crates/hostd/src/guestload.rs), the guest that serves it, and   *)
(* the pause and resume of bin/loadtest.rs.  One task per scheduled turn;  *)
(* many wait on one link, and one router wakes them.                       *)
(*                                                                         *)
(* Time is a clock of a few ticks.  A timer fires at its tick or later.    *)
(*                                                                         *)
(* External: vsock across a pause.  What is on the wire then may be lost   *)
(* at the resume, and so may all that is written later (guestload.rs).     *)
(***************************************************************************)
EXTENDS Integers, Sequences, FiniteSets

CONSTANTS
  Times,     \* the schedule: when each turn is meant to be sent, in ticks
  Duration,  \* how long turns are scheduled, in ticks
  Deadline,  \* how long a turn waits for its completion, in ticks
  Freezes,   \* the run pauses the guest (freeze_ms is not 0)
  Horizon,   \* last tick of the clock (bound)
  WireCap    \* commands the socket takes before a send must wait (bound)

\* Schedule::generate: ascending times before the end, evenly spaced or as a
\* Poisson process has them, and none for a rate that is not positive.
Schedules ==
  {s \in Seq(Nat) : \A i \in 1..Len(s) :
     s[i] < Duration /\ \A k \in 1..i : s[k] <= s[i]}

ASSUME TurnLoadAssumption ==
  /\ Duration \in Nat /\ Deadline \in Nat
  /\ Times \in Schedules
  /\ Freezes \in BOOLEAN
  /\ Horizon \in Nat /\ Duration + Deadline <= Horizon
  /\ WireCap \in Nat \ {0}

Turns == DOMAIN Times
None == Horizon + 1

VARIABLES
  now,       \* Instant::now() - start
  task,      \* where each turn's task is
  since,     \* when the turn began to wait
  latency,   \* what the recorder holds of the turn, or None
  verdict,   \* how run_turn ended
  waiters,   \* the turns whose oneshot sender is in the map
  woken,     \* the turns whose oneshot holds the completion
  dropped,   \* the driver's counter
  router,    \* the completion router reads, or has ended
  link,      \* the connection
  vm,        \* the guest's VM, and what the run has done to it
  frozen,    \* history: first and last tick of the freeze
  toGuest,   \* RunTurn commands under way
  toHost,    \* turn signals under way
  serving,   \* the turn the guest has started, or 0
  ran        \* history: the turns the guest completed

clientVars == <<task, since, latency, verdict, dropped>>
routeVars == <<waiters, woken, router>>
vmVars == <<vm, frozen>>
wireVars == <<toGuest, toHost, link>>
guestVars == <<serving, ran>>
vars == <<now, clientVars, routeVars, vmVars, wireVars, guestVars>>

States == {"asleep", "sending", "waiting", "late", "returned", "recorded"}
Verdicts == {"none", "ok", "dropped", "unsent"}

-----------------------------------------------------------------------------
(* A turn's task.                                                          *)

At(i, from, to) == task[i] = from /\ task' = [task EXCEPT ![i] = to]

\* sleep_until the intended time; the waiter is there before the command.
Fire(i) ==
  /\ now >= Times[i]
  /\ At(i, "asleep", "sending")
  /\ waiters' = waiters \cup {i}
  /\ UNCHANGED <<now, since, latency, verdict, dropped, woken, router, vmVars,
                 wireVars, guestVars>>

\* The command may get lost once the guest has been paused.
Wire(i) ==
  \/ Len(toGuest) < WireCap /\ toGuest' = Append(toGuest, i)
  \/ vm = "resumed" /\ UNCHANGED toGuest

\* No deadline is on the send itself.
SendTurn(i) ==
  /\ At(i, "sending", "waiting")
  /\ link = "open" /\ Wire(i)
  /\ since' = [since EXCEPT ![i] = now]
  /\ UNCHANGED <<now, latency, verdict, dropped, routeVars, vmVars, toHost,
                 link, guestVars>>

Return(i, from, v) ==
  /\ At(i, from, "returned")
  /\ verdict' = [verdict EXCEPT ![i] = v]
  /\ UNCHANGED <<now, since, latency, woken, router, vmVars, wireVars,
                 guestVars>>

\* The send fails: the waiter goes, and nothing is counted as dropped.
SendFails(i) ==
  /\ link = "closed"
  /\ Return(i, "sending", "unsent")
  /\ waiters' = waiters \ {i}
  /\ UNCHANGED dropped

\* timeout polls the completion before its timer.
Complete(i) ==
  /\ i \in woken
  /\ Return(i, "waiting", "ok")
  /\ UNCHANGED <<waiters, dropped>>

\* Bound: at the clock's last tick every timer has run out.
Expired(i) == now >= since[i] + Deadline \/ now = Horizon

\* Mutant: the turn waits without a deadline as long as the link is up.
DeadlineOnClose(i) ==
  /\ i \notin woken /\ Expired(i) /\ link = "closed"
  /\ At(i, "waiting", "late")
  /\ UNCHANGED <<now, since, latency, verdict, dropped, routeVars, vmVars,
                 wireVars, guestVars>>

\* The deadline passes.  From here on a completion comes too late, though the
\* router may still find the waiter.
DeadlinePasses(i) ==
  /\ i \notin woken /\ Expired(i)
  /\ At(i, "waiting", "late")
  /\ UNCHANGED <<now, since, latency, verdict, dropped, routeVars, vmVars,
                 wireVars, guestVars>>

\* Mutant: the waiter of a turn given up stays in the map.
GiveUpOnly(i) ==
  /\ Return(i, "late", "dropped")
  /\ dropped' = dropped + 1
  /\ UNCHANGED waiters

GiveUp(i) ==
  /\ Return(i, "late", "dropped")
  /\ dropped' = dropped + 1
  /\ waiters' = waiters \ {i}

\* Mutant: the subtraction is the wrong way round.
RecordSwapped(i) ==
  /\ At(i, "returned", "recorded")
  /\ latency' = [latency EXCEPT ![i] = Times[i] - now]
  /\ UNCHANGED <<now, since, verdict, dropped, routeVars, vmVars, wireVars,
                 guestVars>>

\* Latency counts from the intended time, however run_turn ended.
RecordTurn(i) ==
  /\ At(i, "returned", "recorded")
  /\ latency' = [latency EXCEPT ![i] = now - Times[i]]
  /\ UNCHANGED <<now, since, verdict, dropped, routeVars, vmVars, wireVars,
                 guestVars>>

Task(i) ==
  \/ Fire(i) \/ SendTurn(i) \/ SendFails(i) \/ Complete(i)
  \/ DeadlinePasses(i) \/ GiveUp(i) \/ RecordTurn(i)

\* run_load joins every task, then sums up.
Summed == \A i \in Turns : task[i] = "recorded"

-----------------------------------------------------------------------------
(* The router.                                                             *)

\* Mutant: the busy signal is taken for the completion.
CompletesAny(m) == m.turn \in waiters

\* A TurnEnded whose turn has a waiter; TurnStarted is no completion.
Completes(m) == m.sig = "TurnEnded" /\ m.turn \in waiters

\* A completion nobody waits for any more is dropped.  The one of a turn that
\* is late goes to a receiver that is gone.
Route ==
  /\ router = "reading" /\ toHost # <<>>
  /\ LET m == Head(toHost) IN
       IF Completes(m)
       THEN /\ waiters' = waiters \ {m.turn}
            /\ woken' = IF task[m.turn] = "late" THEN woken
                        ELSE woken \cup {m.turn}
       ELSE UNCHANGED <<waiters, woken>>
  /\ toHost' = Tail(toHost)
  /\ UNCHANGED <<now, clientVars, router, vmVars, toGuest, link, guestVars>>

\* The router ends.  The waiters stay in the map, which the driver holds too:
\* nobody wakes them, and their deadlines do.
RouterEnds ==
  /\ router = "reading" /\ toHost = <<>> /\ link = "closed"
  /\ router' = "ended"
  /\ UNCHANGED <<now, clientVars, waiters, woken, vmVars, wireVars, guestVars>>

-----------------------------------------------------------------------------
(* The guest, the freeze and the link.                                     *)

Answers == link = "open" /\ vm # "paused"

Say(sig, i) == toHost' = Append(toHost, [sig |-> sig, turn |-> i])

\* Guest::run_turn: TurnStarted, then TurnEnded.  A pause may come between.
GuestStarts ==
  /\ Answers /\ serving = 0 /\ toGuest # <<>>
  /\ serving' = Head(toGuest) /\ toGuest' = Tail(toGuest)
  /\ Say("TurnStarted", Head(toGuest))
  /\ UNCHANGED <<now, clientVars, routeVars, vmVars, link, ran>>

GuestEnds ==
  /\ Answers /\ serving # 0
  /\ Say("TurnEnded", serving)
  /\ ran' = ran \cup {serving} /\ serving' = 0
  /\ UNCHANGED <<now, clientVars, routeVars, vmVars, toGuest, link>>

\* fc.pause at freeze_at.
Pause ==
  /\ Freezes /\ vm = "running" /\ now > 0
  /\ vm' = "paused" /\ frozen' = <<now, now>>
  /\ UNCHANGED <<now, clientVars, routeVars, wireVars, guestVars>>

\* fc.resume: what is on the wire is lost, or it is not.
Resume ==
  /\ vm = "paused"
  /\ vm' = "resumed" /\ frozen' = <<frozen[1], now>>
  /\ toGuest' \in {toGuest, <<>>}
  /\ UNCHANGED <<now, clientVars, routeVars, toHost, link, guestVars>>

\* The guest is gone, or hangs up.
Hangup ==
  /\ link = "open"
  /\ link' = "closed" /\ toGuest' = <<>>
  /\ UNCHANGED <<now, clientVars, routeVars, vmVars, toHost, guestVars>>

Tick ==
  /\ now < Horizon
  /\ now' = now + 1
  /\ UNCHANGED <<clientVars, routeVars, vmVars, wireVars, guestVars>>

-----------------------------------------------------------------------------
Init ==
  /\ now = 0
  /\ task = [i \in Turns |-> "asleep"] /\ since = [i \in Turns |-> 0]
  /\ latency = [i \in Turns |-> None] /\ verdict = [i \in Turns |-> "none"]
  /\ waiters = {} /\ woken = {} /\ dropped = 0 /\ router = "reading"
  /\ link = "open" /\ vm = "running" /\ frozen = <<0, 0>>
  /\ toGuest = <<>> /\ toHost = <<>> /\ serving = 0 /\ ran = {}

GuestTurn == GuestStarts \/ GuestEnds

Next ==
  \/ \E i \in Turns : Task(i)
  \/ Route \/ RouterEnds \/ GuestTurn \/ Pause \/ Resume \/ Hangup \/ Tick

Spec == Init /\ [][Next]_vars

\* The runtime polls what is ready, time goes on, the guest serves and the
\* freeze ends.  Nothing makes the link break or the pause come.
Fairness ==
  /\ \A i \in Turns : WF_vars(Task(i))
  /\ WF_vars(Route) /\ WF_vars(RouterEnds) /\ WF_vars(GuestTurn)
  /\ WF_vars(Resume) /\ WF_vars(Tick)

LiveSpec == Spec /\ Fairness

-----------------------------------------------------------------------------
(* Properties.                                                             *)

TypeOK ==
  /\ now \in 0..Horizon
  /\ task \in [Turns -> States] /\ since \in [Turns -> 0..Horizon]
  /\ latency \in [Turns -> 0..None] /\ verdict \in [Turns -> Verdicts]
  /\ waiters \subseteq Turns /\ woken \subseteq Turns
  /\ dropped \in 0..Cardinality(Turns) /\ router \in {"reading", "ended"}
  /\ link \in {"open", "closed"} /\ vm \in {"running", "paused", "resumed"}
  /\ frozen \in (0..Horizon) \X (0..Horizon)
  /\ toGuest \in Seq(Turns)
  /\ toHost \in Seq([sig : {"TurnStarted", "TurnEnded"}, turn : Turns])
  /\ serving \in Turns \cup {0} /\ ran \subseteq Turns

\* The map holds a sender for each turn that waits, and for no other: a turn
\* that is not in it has its completion, and a turn that returned has left it,
\* by whichever of the router, the deadline and the failed send came first
\* (guestload.rs:61-63, 95-108).
WaitersAreWaiting ==
  /\ \A i \in Turns : task[i] \in {"sending", "waiting"} =>
       (i \in waiters <=> i \notin woken)
  /\ waiters \subseteq
       {i \in Turns : task[i] \in {"sending", "waiting", "late"}}

\* The report of a run: a turn booked as done was done by the guest, a drop
\* shows as a whole deadline in the latencies, and a turn of the freeze that
\* came through shows all that was left of it (open loop: latency runs from
\* the intended time, loadgen.rs, recorder.rs:47-60).  A turn whose send failed
\* is neither: it is recorded like one that was served.
ReportIsTrue ==
  Summed =>
    /\ dropped = Cardinality({i \in Turns : verdict[i] = "dropped"})
    /\ \A i \in Turns :
         /\ verdict[i] = "ok" => i \in ran
         /\ verdict[i] = "dropped" => latency[i] >= Deadline
         /\ verdict[i] = "ok" /\ Times[i] \in frozen[1] + 1..frozen[2] =>
              latency[i] >= frozen[2] - Times[i]

\* run_load returns, whatever the link and the guest do: a lost turn is ended
\* by its deadline (guestload.rs:14-19).
LoadEnds == <>Summed

============================================================================
