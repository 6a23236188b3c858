------------------------------ MODULE Sessions ------------------------------
(***************************************************************************)
(* A wrapped workload and the hosts that drain it.  guestd                 *)
(* (crates/guestd/src/bin/guestd.rs, wrap.rs) runs a child whose stdout it *)
(* reads in a task of its own, keeps what it has read of the child's turns *)
(* in a TurnTracker, and answers drains from that tracker in two           *)
(* independent accept loops, vsock and TCP, each serving one connection at *)
(* a time.  hostd (guestlink.rs, migrate_running in migrate.rs,            *)
(* registry.rs) opens one connection for the boot secrets and one for each *)
(* move, drops it as soon as it has its answer, and then pauses the VM.    *)
(*                                                                         *)
(* Wrap mode is passive: nothing stops the child between the answer and    *)
(* the pause.  The lines carry, as history, what the child had done when   *)
(* it printed them.                                                        *)
(***************************************************************************)
EXTENDS Integers, Sequences

CONSTANTS
  NoTurn,    \* Option<TurnId>::None
  NoLink,    \* no connection
  MaxLinks,  \* bound: connections hosts open
  MaxTurns,  \* bound: turns the child begins
  PipeCap    \* bound: lines the child's stdout holds before it blocks

ASSUME NoTurnAssumption == NoTurn \notin Nat
ASSUME LinkAssumption == MaxLinks \in Nat \ {0} /\ NoLink \notin Nat
ASSUME CapAssumption == MaxTurns \in Nat /\ PipeCap \in Nat

VARIABLES
  vm,       \* how the VM was set up: transport of its moves, profile, key
  child,    \* the wrapped child: not started, alive, gone
  work,     \* the child's own turns: is one open, and how many were begun
  pipe,     \* lines of its stdout not yet read
  tracker,  \* TurnTracker: in_turn and last_id
  env,      \* which handshake's Secrets the child was started with
  first,    \* run_wrapped's first_connection
  session,  \* the connection each accept loop serves
  stage,    \* whether that connection is past its handshake
  backlog,  \* connections the TCP listener has not accepted yet
  open,     \* connections whose host end is open
  toGuest,  \* messages on each connection, oldest first
  toHost,
  pc,       \* where the host's spawn or move stands
  link,     \* its connection
  links,    \* connections opened so far
  task,     \* what the connection is for
  seen,     \* history: turns the tracker had counted when it said quiet
  power,    \* the VM: on, paused, off
  moved     \* the VM has been restored from a snapshot

childVars == <<child, work, pipe, tracker, env>>
guestVars == <<first, session, stage, backlog>>
wireVars  == <<open, toGuest, toHost>>
hostVars  == <<pc, link, links, task, seen, power, moved>>
vars == <<vm, childVars, guestVars, wireVars, hostVars>>

Transports == {"tcp", "vsock"}
Tasks == {"boot", "move"}
Links == 1..MaxLinks
LinkOrNone == Links \cup {NoLink}
Turns == [inTurn : BOOLEAN, lastId : Nat]
Signals == {"Start", "End"}
Lines == [sig : Signals, after : Turns]
HostToGuest ==
  [type : {"Secrets", "DrainRequest", "DrainCancel"}, from : Tasks]
GuestToHost == [type : {"Hello", "Resumed", "DrainAck"},
                inFlight : Nat \cup {NoTurn}, upTo : Nat]

\* Moves of a networked VM go over TCP.  Whether the guest waits for secrets
\* is baked into its image, whether the daemon has a key is the daemon's own
\* environment: nothing ties the two.
Setups == [via : Transports, awaitSecrets : BOOLEAN, key : BOOLEAN]

Up == power = "on"
MidTurn == child = "alive" /\ work.inTurn

Say(type) == [type |-> type, inFlight |-> NoTurn, upTo |-> 0]
Tell(type) == [type |-> type, from |-> task]

----------------------------------------------------------------------------
(* The child and its reader                                                *)

\* Mutant: every opening line counts, duplicates too.
ApplyCountsAll(t, sig) ==
  IF sig = "Start" THEN [inTurn |-> TRUE, lastId |-> t.lastId + 1]
                   ELSE [inTurn |-> FALSE, lastId |-> t.lastId]

\* Mutant: turns that are open are counted, not turns begun.
ApplyCountsOpen(t, sig) ==
  [inTurn |-> sig = "Start",
   lastId |-> IF sig = "Start" THEN t.lastId + 1 ELSE t.lastId - 1]

\* Mutant: a closing line is not recognised.
ApplyNeverCloses(t, sig) ==
  [inTurn |-> TRUE,
   lastId |-> IF sig = "Start" /\ ~t.inTurn THEN t.lastId + 1 ELSE t.lastId]

\* TurnTracker::apply: a duplicate opening and a stray closing change
\* nothing.
Apply(t, sig) ==
  [inTurn |-> sig = "Start",
   lastId |-> IF sig = "Start" /\ ~t.inTurn THEN t.lastId + 1 ELSE t.lastId]

\* TurnTracker::in_flight, the DrainAck's payload.
InFlight(t) == IF t.inTurn THEN t.lastId ELSE NoTurn

\* The child opens a turn, closes it, or repeats itself, and prints a line.
\* What it has done is its own account, not the tracker's.
ChildPrints(sig) ==
  /\ Up /\ child = "alive" /\ Len(pipe) < PipeCap
  /\ work' = [inTurn |-> sig = "Start",
              lastId |-> IF sig = "Start" /\ ~work.inTurn
                           THEN work.lastId + 1 ELSE work.lastId]
  /\ work'.lastId <= MaxTurns
  /\ pipe' = Append(pipe, [sig |-> sig, after |-> work'])
  /\ UNCHANGED <<vm, child, tracker, env, guestVars, wireVars, hostVars>>

ChildExits ==
  /\ Up /\ child = "alive"
  /\ child' = "gone"
  /\ UNCHANGED <<vm, work, pipe, tracker, env, guestVars, wireVars, hostVars>>

\* spawn_reader: one line of stdout.
ReadLine ==
  /\ Up /\ pipe # <<>>
  /\ tracker' = Apply(tracker, Head(pipe).sig)
  /\ pipe' = Tail(pipe)
  /\ UNCHANGED <<vm, child, work, env, guestVars, wireVars, hostVars>>

----------------------------------------------------------------------------
(* guestd's accept loops                                                   *)

\* A loop takes connection k and greets it.
Serve(t, k) ==
  /\ session' = [session EXCEPT ![t] = k]
  /\ stage' = [stage EXCEPT ![t] = "handshake"]
  /\ toHost' = [toHost EXCEPT ![k] = <<Say("Hello")>>]

\* serve_tcp_drain accepts the connection that has waited longest.
AcceptTcp ==
  /\ Up /\ session["tcp"] = NoLink /\ backlog # <<>>
  /\ Serve("tcp", Head(backlog))
  /\ backlog' = Tail(backlog)
  /\ UNCHANGED <<vm, childVars, first, open, toGuest, hostVars>>

\* The next message on the connection that loop t serves.
Heard(t, type) ==
  /\ Up /\ session[t] # NoLink
  /\ toGuest[session[t]] # <<>>
  /\ Head(toGuest[session[t]]).type = type
  /\ toGuest' = [toGuest EXCEPT ![session[t]] = Tail(@)]

\* Mutant: any handshake starts a child that waits.
StartsChildAnywhere(t) == child = "waiting"

\* The first vsock handshake starts a child that waits for its secrets.
StartsChild(t) == child = "waiting" /\ t = "vsock" /\ first

\* handshake's end.  Every vsock handshake but the first announces a resume,
\* moved or not.
Handshaken(t) ==
  LET k == session[t] IN
  /\ stage[t] = "handshake"
  /\ Heard(t, "Secrets")
  /\ stage' = [stage EXCEPT ![t] = "serving"]
  /\ first' = (first /\ t = "tcp")
  /\ \/ /\ StartsChild(t)
        /\ child' = "alive" /\ env' = Head(toGuest[k]).from
     \/ ~StartsChild(t) /\ UNCHANGED <<child, env>>
  /\ \/ /\ t = "vsock" /\ ~first
        /\ toHost' = [toHost EXCEPT ![k] = Append(@, Say("Resumed"))]
     \/ (t = "tcp" \/ first) /\ UNCHANGED toHost
  /\ UNCHANGED <<vm, work, pipe, tracker, session, backlog, open, hostVars>>

\* serve_wrap_messages: a drain is answered from the tracker.
AnswerDrain(t) ==
  /\ stage[t] = "serving"
  /\ Heard(t, "DrainRequest")
  /\ toHost' = [toHost EXCEPT ![session[t]] =
                  Append(@, [type |-> "DrainAck",
                             inFlight |-> InFlight(tracker),
                             upTo |-> tracker.lastId])]
  /\ UNCHANGED <<vm, childVars, guestVars, open, hostVars>>

\* serve_wrap_messages: a cancelled drain means nothing to a passive guest.
IgnoreCancel(t) ==
  /\ stage[t] = "serving"
  /\ Heard(t, "DrainCancel")
  /\ UNCHANGED <<vm, childVars, guestVars, open, toHost, hostVars>>

\* The host's end is closed: the loop reads to the end, or a send fails first,
\* and it accepts again.
SessionEnds(t) ==
  /\ Up /\ session[t] # NoLink /\ session[t] \notin open
  /\ stage[t] = "serving" \/ toGuest[session[t]] = <<>>
  /\ session' = [session EXCEPT ![t] = NoLink]
  /\ UNCHANGED <<vm, childVars, first, stage, backlog, wireVars, hostVars>>

----------------------------------------------------------------------------
(* hostd                                                                   *)

\* migrate_running dials the guest.
StartMove ==
  /\ pc = "idle" /\ Up /\ links < MaxLinks
  /\ pc' = "dialing" /\ task' = "move"
  /\ UNCHANGED <<vm, childVars, guestVars, wireVars, link, links, seen, power,
                 moved>>

\* The TCP listener queues a connection whatever its loop is doing.  A vsock
\* connection is accepted by the loop or not at all, and never again after a
\* restore.
Connect ==
  LET k == links + 1 IN
  /\ pc = "dialing"
  /\ \/ /\ task = "move" /\ vm.via = "tcp"
        /\ backlog' = Append(backlog, k)
        /\ UNCHANGED <<session, stage, toHost>>
     \/ /\ task = "boot" \/ vm.via = "vsock"
        /\ ~moved /\ session["vsock"] = NoLink
        /\ Serve("vsock", k)
        /\ UNCHANGED backlog
  /\ open' = open \cup {k} /\ link' = k /\ links' = k
  /\ pc' = "greeting"
  /\ UNCHANGED <<vm, childVars, first, toGuest, task, seen, power, moved>>

\* The guest could not be reached: a spawn fails, a move stands down.
GiveUpDialing ==
  /\ pc = "dialing"
  /\ pc' = "idle"
  /\ power' = IF task = "boot" THEN "off" ELSE power
  /\ UNCHANGED <<vm, childVars, guestVars, wireVars, link, links, task, seen,
                 moved>>

\* The next message from the guest on the host's connection.
Reply(type) ==
  /\ toHost[link] # <<>>
  /\ Head(toHost[link]).type = type
  /\ toHost' = [toHost EXCEPT ![link] = Tail(@)]

Post(msgs) == toGuest' = [toGuest EXCEPT ![link] = @ \o msgs]

\* Mutant: a busy guest's connection is kept.
HangUpNever == UNCHANGED open
HangUp == open' = open \ {link}

\* handshake: Hello is answered with the secrets, the boot secrets or none.
\* It has no deadline.  Then the move's drain is requested.
Greeted ==
  /\ pc = "greeting"
  /\ Reply("Hello")
  /\ \/ /\ task = "boot" /\ Post(<<Tell("Secrets")>>)
        /\ HangUp /\ pc' = "idle"
     \/ /\ task = "move" /\ Post(<<Tell("Secrets"), Tell("DrainRequest")>>)
        /\ pc' = "draining" /\ UNCHANGED open
  /\ UNCHANGED <<vm, childVars, guestVars, link, links, task, seen, power,
                 moved>>

\* GuestLink::drain skips what is not a DrainAck.
SkipReply ==
  /\ pc = "draining"
  /\ Reply("Resumed")
  /\ UNCHANGED <<vm, childVars, guestVars, open, toGuest, hostVars>>

\* Mutant: any answer will do.
AnyAck(m) == TRUE

\* The guest is quiescent when its ack names no turn.
QuietAck(m) == m.inFlight = NoTurn

\* drain, drain_to_quiescence, migrate_running: a turn in flight wins.
StandDown ==
  /\ pc = "draining"
  /\ Reply("DrainAck") /\ ~QuietAck(Head(toHost[link]))
  /\ Post(<<Tell("DrainCancel")>>)
  /\ HangUp /\ pc' = "idle"
  /\ UNCHANGED <<vm, childVars, guestVars, link, links, task, seen, power,
                 moved>>

\* No DrainAck in time: the VM is kept.
DrainTimesOut ==
  /\ pc = "draining"
  /\ HangUp /\ pc' = "idle"
  /\ UNCHANGED <<vm, childVars, guestVars, toGuest, toHost, link, links, task,
                 seen, power, moved>>

GuestQuiet ==
  /\ pc = "draining"
  /\ Reply("DrainAck") /\ QuietAck(Head(toHost[link]))
  /\ seen' = Head(toHost[link]).upTo
  /\ HangUp /\ pc' = "quiet"
  /\ UNCHANGED <<vm, childVars, guestVars, toGuest, link, links, task, power,
                 moved>>

Pause ==
  /\ pc = "quiet"
  /\ power' = "paused" /\ pc' = "frozen"
  /\ UNCHANGED <<vm, childVars, guestVars, wireVars, link, links, task, seen,
                 moved>>

\* The snapshot arrives and the guest goes on where it was.  Its vsock
\* connection is reset, with what it had not read perhaps.
Restored ==
  /\ pc = "frozen"
  /\ power' = "on" /\ moved' = TRUE /\ pc' = "idle"
  /\ \/ UNCHANGED toGuest
     \/ /\ session["vsock"] # NoLink
        /\ toGuest' = [toGuest EXCEPT ![session["vsock"]] = <<>>]
  /\ UNCHANGED <<vm, childVars, guestVars, open, toHost, link, links, task,
                 seen>>

\* Any failure from the metadata on ends the VM (module Migration).
Lost ==
  /\ pc \in {"quiet", "frozen"}
  /\ power' = "off" /\ pc' = "idle"
  /\ UNCHANGED <<vm, childVars, guestVars, wireVars, link, links, task, seen,
                 moved>>

----------------------------------------------------------------------------
Nothing == [inTurn |-> FALSE, lastId |-> 0]

\* A booted VM, its daemon about to deliver the secrets if it has any.
Init ==
  /\ vm \in Setups
  /\ child = IF vm.awaitSecrets THEN "waiting" ELSE "alive"
  /\ work = Nothing /\ pipe = <<>> /\ tracker = Nothing /\ env = "none"
  /\ first = TRUE
  /\ session = [t \in Transports |-> NoLink]
  /\ stage = [t \in Transports |-> "handshake"] /\ backlog = <<>>
  /\ open = {} /\ toGuest = [k \in Links |-> <<>>]
  /\ toHost = [k \in Links |-> <<>>]
  /\ pc = IF vm.key THEN "dialing" ELSE "idle"
  /\ task = "boot" /\ link = NoLink /\ links = 0
  /\ seen = 0 /\ power = "on" /\ moved = FALSE

ChildStep == (\E sig \in Signals : ChildPrints(sig)) \/ ChildExits
GuestStep(t) ==
  Handshaken(t) \/ AnswerDrain(t) \/ IgnoreCancel(t) \/ SessionEnds(t)
HostStep ==
  \/ Connect \/ GiveUpDialing \/ Greeted \/ SkipReply \/ StandDown
  \/ DrainTimesOut \/ GuestQuiet \/ Pause \/ Restored \/ Lost

Next ==
  \/ ChildStep \/ ReadLine \/ AcceptTcp \/ StartMove \/ HostStep
  \/ \E t \in Transports : GuestStep(t)

Spec == Init /\ [][Next]_vars

\* guestd's tasks are polled while the VM runs, and hostd's handler is.  The
\* child owes nobody a turn, and nobody has to ask for a move.
Fairness ==
  /\ WF_vars(ReadLine) /\ WF_vars(AcceptTcp) /\ WF_vars(HostStep)
  /\ \A t \in Transports : WF_vars(GuestStep(t))

FairSpec == Spec /\ Fairness

----------------------------------------------------------------------------
(* Properties                                                              *)

\* Every variable stays in its type.
TypeOK ==
  /\ vm \in Setups
  /\ child \in {"waiting", "alive", "gone"} /\ env \in Tasks \cup {"none"}
  /\ work \in Turns /\ tracker \in Turns /\ pipe \in Seq(Lines)
  /\ first \in BOOLEAN
  /\ session \in [Transports -> LinkOrNone]
  /\ stage \in [Transports -> {"handshake", "serving"}]
  /\ backlog \in Seq(Links) /\ open \subseteq Links
  /\ toGuest \in [Links -> Seq(HostToGuest)]
  /\ toHost \in [Links -> Seq(GuestToHost)]
  /\ pc \in {"idle", "dialing", "greeting", "draining", "quiet", "frozen"}
  /\ link \in LinkOrNone /\ links \in 0..MaxLinks
  /\ task \in Tasks /\ seen \in Nat
  /\ power \in {"on", "paused", "off"} /\ moved \in BOOLEAN

\* What the tracker says after each unread line, and before the first.
After == [i \in 0..Len(pipe) |-> IF i = 0 THEN tracker ELSE pipe[i].after]

\* The tracker follows the child through every duplicate, stray and exit and
\* across restores: each unread line takes it to what the child had done when
\* it printed the line, and the last one to what the child has done by now.
\* So an id in a DrainAck always names the turn of that number.
TrackerFollowsChild ==
  /\ \A i \in 1..Len(pipe) : After[i] = Apply(After[i - 1], pipe[i].sig)
  /\ After[Len(pipe)] = work

\* The race rule as far as a passive guest can keep it: a turn whose opening
\* guestd had read when it answered the drain is never frozen.  What a pause
\* can cut is only a turn that the tracker had not counted by then.
SeenTurnWins == (power = "paused" /\ work.inTurn) => work.lastId > seen

\* A child that waits for its secrets is started with those of the daemon that
\* has a key, never with the empty set that a move's handshake delivers.  A
\* daemon without a key makes no boot handshake (boot_secrets), so there the
\* first move over vsock does start the child, with no secrets at all.
ChildHasItsSecrets == (vm.awaitSecrets /\ vm.key) => env # "move"

\* A move ends in a stand-down, a restored VM or a lost one: each session
\* frees its loop for the next, so the handshake, which has no deadline, is
\* answered however the attempts before it ended.
MoveEnds == (pc # "idle") ~> (pc = "idle")

\* A child that stays between turns comes to look quiet, so that a move gets
\* its chance, unless the VM is lost first.
RestingChildLooksQuiet ==
  <>[](~work.inTurn) => <>[](power = "off" \/ ~tracker.inTurn)

\* wrap.rs: a migration is never allowed to snapshot mid-turn.
NeverFrozenMidTurn == power = "paused" => ~MidTurn

============================================================================
