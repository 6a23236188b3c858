------------------------------- MODULE Guest -------------------------------
(***************************************************************************)
(* guestd's supervisor, `Guest` (crates/guestd/src/guest.rs), together     *)
(* with the two ends it talks to: the workload inside the VM that starts,  *)
(* ends and replays turns, and hostd, which drives it over one control     *)
(* channel and folds what it hears into the app layer of the quiescence    *)
(* detector (crates/hostd/src/{drain,quiesce}.rs).                         *)
(*                                                                         *)
(* Every method of Guest takes `&mut self`, so one call is one step here.  *)
(* A call that sends may find the channel broken: the assignments made     *)
(* before the failing `send(..).await?` stand, those after it do not       *)
(* happen, and the messages already written are on the wire.               *)
(***************************************************************************)
EXTENDS Integers, Sequences

CONSTANTS
  NoTurn,        \* Option<TurnId>::None
  MaxTurns,      \* bound: units of work accepted before the workload stops
  MaxHostTurns,  \* bound: RunTurn messages hostd issues
  MaxDrains,     \* bound: drain attempts on this channel
  LinkCap,       \* bound: messages in flight in one direction
  Breaks         \* TRUE: the channel may break

ASSUME NoTurnAssumption == NoTurn \notin Nat
ASSUME BoundsAssumption ==
  /\ MaxTurns \in Nat /\ MaxHostTurns \in Nat /\ MaxDrains \in Nat
  /\ LinkCap \in Nat
ASSUME BreaksAssumption == Breaks \in BOOLEAN

VARIABLES
  nextTurn,   \* Guest.next_turn
  inFlight,   \* Guest.in_flight
  gated,      \* Guest.gated
  queued,     \* Guest.queued
  wraps,      \* it supervises a child that begins turns of its own
  up,         \* the channel still carries messages
  toGuest,    \* host-to-guest messages, oldest first
  toHost,     \* guest-to-host messages, oldest first
  view,       \* hostd's AppLayer for the current drain attempt
  draining,   \* hostd has a drain attempt open
  drains,     \* drain attempts so far
  issued,     \* RunTurn messages so far; also the next host turn id
  accepted,   \* history: turns the guest took on (started or queued)
  done        \* history: turns that ended

guestVars == <<nextTurn, inFlight, gated, queued>>
hostVars  == <<view, draining, drains, issued>>
history   == <<accepted, done>>
vars == <<wraps, guestVars, up, toGuest, toHost, hostVars, history>>

TurnIdOrNone == Nat \cup {NoTurn}

\* The messages that bear on turns; the others are one value each.
Started(t) == [type |-> "TurnStarted", turn |-> t]
Ended(t)   == [type |-> "TurnEnded",   turn |-> t]
DrainAck(t)== [type |-> "DrainAck",    turn |-> t]
Resumed    == [type |-> "Resumed",     turn |-> NoTurn]
Pong       == [type |-> "Pong",        turn |-> NoTurn]

GuestToHost ==
  [type : {"TurnStarted", "TurnEnded"}, turn : Nat]
    \cup [type : {"DrainAck"}, turn : TurnIdOrNone]
    \cup [type : {"Resumed", "Pong"}, turn : {NoTurn}]
HostToGuest ==
  [type : {"RunTurn"}, turn : Nat]
    \cup [type : {"DrainRequest", "DrainCancel", "Ping"}, turn : {NoTurn}]

\* AppLayer::new and AppLayer::is_quiet.
FreshView == [gated |-> FALSE, inFlight |-> NoTurn]
Quiet(v) == v.gated /\ v.inFlight = NoTurn

----------------------------------------------------------------------------
(* Sending                                                                 *)

\* The guest's channel accepts n more messages (a full channel makes the
\* sender wait, so the step is not taken).
Room(n) == Len(toHost) + n <= LinkCap

\* One send that succeeds.
SendOk(m) == up /\ toHost' = Append(toHost, m) /\ UNCHANGED up

\* One send that fails: on a channel already broken, or breaking now.
SendErr == (up => Breaks) /\ up' = FALSE /\ UNCHANGED toHost

\* One send, whichever way it goes.
Send(m) == SendOk(m) \/ SendErr

----------------------------------------------------------------------------
(* Guest                                                                   *)

Idle == inFlight = NoTurn

\* begin_turn: the id is taken and the turn is in flight before the message
\* is sent, so they stay so when the send fails.
BeginTurn ==
  /\ Room(1)
  /\ nextTurn' = nextTurn + 1
  /\ inFlight' = nextTurn
  /\ SendOk(Started(nextTurn)) \/ SendErr

\* start_turn: the workload tries to start a turn.  With one in flight the
\* call is refused and changes nothing.
StartTurn ==
  /\ accepted < MaxTurns
  /\ Idle
  /\ accepted' = accepted + 1
  /\ \/ /\ gated
        /\ queued' = queued + 1
        /\ UNCHANGED <<nextTurn, inFlight, up, toHost>>
     \/ /\ ~gated
        /\ BeginTurn
        /\ UNCHANGED queued
  /\ UNCHANGED <<wraps, gated, toGuest, hostVars, done>>

\* begin_observed_turn: a wrapped child has already begun, gate or no gate.
BeginObservedTurn ==
  /\ wraps
  /\ accepted < MaxTurns
  /\ Idle
  /\ BeginTurn
  /\ accepted' = accepted + 1
  /\ UNCHANGED <<wraps, gated, queued, toGuest, hostVars, done>>

\* Mutant: a turn is replayed from an empty backlog.
ReplayFromNothing ==
  /\ Idle /\ ~gated
  /\ queued' = queued - 1
  /\ BeginTurn
  /\ UNCHANGED <<wraps, gated, toGuest, hostVars, accepted, done>>

\* replay_next: one turn of the backlog, once the gate is open again.
ReplayNext ==
  /\ Idle /\ ~gated /\ queued > 0
  /\ queued' = queued - 1
  /\ BeginTurn
  /\ UNCHANGED <<wraps, gated, toGuest, hostVars, accepted, done>>

\* end_turn: the turn is cleared only when TurnEnded went out.
EndTurn ==
  /\ ~Idle
  /\ Room(1)
  /\ \/ SendOk(Ended(inFlight)) /\ inFlight' = NoTurn /\ done' = done + 1
     \/ SendErr /\ UNCHANGED <<inFlight, done>>
  /\ UNCHANGED <<wraps, nextTurn, gated, queued, toGuest, hostVars, accepted>>

\* resume: the supervisor wakes on the target and reopens the gate, but only
\* after Resumed went out.  hostd moved the VM, so its view was quiet; the
\* move ends the attempt.
Resume ==
  /\ gated /\ draining /\ Quiet(view)
  /\ Room(1)
  /\ \/ SendOk(Resumed) /\ gated' = FALSE /\ draining' = FALSE
     \/ SendErr /\ UNCHANGED <<gated, draining>>
  /\ UNCHANGED <<wraps, nextTurn, inFlight, queued, toGuest, view, drains,
                 issued, history>>

\* handle: the oldest message from hostd has been read.
Receive(type) ==
  /\ toGuest # <<>>
  /\ Head(toGuest).type = type
  /\ toGuest' = Tail(toGuest)

\* RunTurn goes to run_turn: refused with a turn in flight, queued behind the
\* gate, else both signals are sent under the host's id, TurnStarted first.
HandleRunTurn ==
  LET t == Head(toGuest).turn IN
  /\ Receive("RunTurn")
  /\ Room(2)
  /\ \/ /\ ~Idle
        /\ UNCHANGED <<inFlight, queued, up, toHost, history>>
     \/ /\ Idle /\ gated
        /\ queued' = queued + 1
        /\ accepted' = accepted + 1
        /\ UNCHANGED <<inFlight, up, toHost, done>>
     \/ /\ Idle /\ ~gated
        /\ accepted' = accepted + 1
        /\ UNCHANGED queued
        /\ \/ /\ up
              /\ toHost' = toHost \o <<Started(t), Ended(t)>>
              /\ done' = done + 1
              /\ UNCHANGED <<inFlight, up>>
           \/ /\ up /\ Breaks
              /\ toHost' = Append(toHost, Started(t))
              /\ inFlight' = t /\ up' = FALSE
              /\ UNCHANGED done
           \/ SendErr /\ inFlight' = t /\ UNCHANGED done
  /\ UNCHANGED <<wraps, nextTurn, gated, hostVars>>

\* Mutant: the ack says only that the gate is closed.
HandleDrainRequestBlindly ==
  /\ Receive("DrainRequest")
  /\ Room(1)
  /\ gated' = TRUE
  /\ Send(DrainAck(NoTurn))
  /\ UNCHANGED <<wraps, nextTurn, inFlight, queued, hostVars, history>>

HandleDrainRequest ==
  /\ Receive("DrainRequest")
  /\ Room(1)
  /\ gated' = TRUE
  /\ Send(DrainAck(inFlight))
  /\ UNCHANGED <<wraps, nextTurn, inFlight, queued, hostVars, history>>

\* Mutant: a cancelled drain throws the backlog away.
HandleDrainCancelForgets ==
  /\ Receive("DrainCancel")
  /\ gated' = FALSE /\ queued' = 0
  /\ UNCHANGED <<wraps, nextTurn, inFlight, up, toHost, hostVars, history>>

HandleDrainCancel ==
  /\ Receive("DrainCancel")
  /\ gated' = FALSE
  /\ UNCHANGED <<wraps, nextTurn, inFlight, queued, up, toHost, hostVars,
                 history>>

HandlePing ==
  /\ Receive("Ping")
  /\ Room(1)
  /\ Send(Pong)
  /\ UNCHANGED <<wraps, guestVars, hostVars, history>>

----------------------------------------------------------------------------
(* hostd                                                                   *)

Post(type, turn) ==
  /\ up
  /\ Len(toGuest) < LinkCap
  /\ toGuest' = Append(toGuest, [type |-> type, turn |-> turn])
  /\ UNCHANGED <<wraps, guestVars, up, toHost, history>>

\* A drain attempt: a coordinator that has heard nothing yet.
HostDrain ==
  /\ ~draining /\ drains < MaxDrains
  /\ Post("DrainRequest", NoTurn)
  /\ draining' = TRUE
  /\ drains' = drains + 1
  /\ view' = FreshView
  /\ UNCHANGED issued

\* drain_to_quiescence: the ack named a turn, so the gate is opened again.
HeardBusy == draining /\ view.gated /\ view.inFlight # NoTurn

HostCancel ==
  /\ HeardBusy
  /\ Post("DrainCancel", NoTurn)
  /\ draining' = FALSE
  /\ UNCHANGED <<view, drains, issued>>

\* hostd drops the link: it is done with it, or no ack came by the deadline
\* and drain returned an error.  The attempt ends without a cancel, and what
\* is still on its way from the guest is never read.
HostHangsUp ==
  /\ up /\ ~HeardBusy
  /\ up' = FALSE /\ draining' = FALSE
  /\ toHost' = <<>>
  /\ UNCHANGED <<wraps, guestVars, toGuest, view, drains, issued, history>>

\* The load generator numbers the turns it sends from zero.
HostRunTurn ==
  /\ issued < MaxHostTurns
  /\ Post("RunTurn", issued)
  /\ issued' = issued + 1
  /\ UNCHANGED <<view, draining, drains>>

HostPing ==
  /\ toGuest = <<>> /\ toHost = <<>>
  /\ Post("Ping", NoTurn)
  /\ UNCHANGED hostVars

\* Mutant: the turn an ack names is not folded into the view.
ObserveGateOnly(v, m) ==
  CASE m.type = "TurnStarted" -> [v EXCEPT !.inFlight = m.turn]
    [] m.type = "TurnEnded"   -> [v EXCEPT !.inFlight = NoTurn]
    [] m.type = "DrainAck"    -> [v EXCEPT !.gated = TRUE]
    [] OTHER                  -> v

\* observe_guest and AppLayer: how one message changes the folded view.
Observe(v, m) ==
  CASE m.type = "TurnStarted" -> [v EXCEPT !.inFlight = m.turn]
    [] m.type = "TurnEnded"   -> [v EXCEPT !.inFlight = NoTurn]
    [] m.type = "DrainAck"    -> [gated |-> TRUE, inFlight |-> m.turn]
    [] OTHER                  -> v

HostReceive ==
  /\ toHost # <<>>
  /\ view' = Observe(view, Head(toHost))
  /\ toHost' = Tail(toHost)
  /\ UNCHANGED <<wraps, guestVars, up, toGuest, draining, drains, issued,
                 history>>

----------------------------------------------------------------------------
(* guestd                                                                  *)

\* run_host_driven: the channel is gone, and the next one it accepts gets a
\* Guest of its own.  Gate, turn in flight and backlog go with the old one.
NewSession ==
  /\ ~up /\ ~wraps
  /\ UNCHANGED wraps
  /\ nextTurn' = 0 /\ inFlight' = NoTurn /\ gated' = FALSE /\ queued' = 0
  /\ up' = TRUE /\ toGuest' = <<>> /\ toHost' = <<>>
  /\ view' = FreshView /\ draining' = FALSE /\ drains' = 0 /\ issued' = 0
  /\ accepted' = 0 /\ done' = 0

----------------------------------------------------------------------------
Init ==
  /\ wraps \in BOOLEAN
  /\ nextTurn = 0 /\ inFlight = NoTurn /\ gated = FALSE /\ queued = 0
  /\ up = TRUE /\ toGuest = <<>> /\ toHost = <<>>
  /\ view = FreshView /\ draining = FALSE /\ drains = 0 /\ issued = 0
  /\ accepted = 0 /\ done = 0

Next ==
  \/ StartTurn \/ BeginObservedTurn \/ ReplayNext \/ EndTurn \/ Resume
  \/ HandleRunTurn \/ HandleDrainRequest \/ HandleDrainCancel \/ HandlePing
  \/ HostDrain \/ HostCancel \/ HostHangsUp
  \/ HostRunTurn \/ HostPing \/ HostReceive
  \/ NewSession

Spec == Init /\ [][Next]_vars

----------------------------------------------------------------------------
(* Properties                                                              *)

\* Every variable stays in its type.
TypeOK ==
  /\ wraps \in BOOLEAN
  /\ nextTurn \in Nat /\ inFlight \in TurnIdOrNone
  /\ gated \in BOOLEAN /\ queued \in Nat
  /\ up \in BOOLEAN
  /\ toGuest \in Seq(HostToGuest) /\ toHost \in Seq(GuestToHost)
  /\ view \in [gated : BOOLEAN, inFlight : TurnIdOrNone]
  /\ draining \in BOOLEAN /\ drains \in Nat /\ issued \in Nat
  /\ accepted \in Nat /\ done \in Nat

\* As long as a Guest lives, every turn it accepted has ended, waits in its
\* backlog, or is the one in flight, through gates, cancels, resumes and sends
\* that fail half way through a call.
ZeroDroppedTurns ==
  accepted = done + queued + (IF Idle THEN 0 ELSE 1)

\* A turn the workload or the host asks for never begins behind the gate: a
\* turn comes into flight while the gate is closed only if a wrapped child
\* reports it.
NoStartWhileGated ==
  [][(Idle /\ inFlight' # NoTurn /\ gated) => BeginObservedTurn]_vars

BearsOnTurns(m) == m.type \in {"TurnStarted", "TurnEnded", "DrainAck"}
InFlightAfter(m) == IF m.type = "TurnEnded" THEN NoTurn ELSE m.turn

\* No message from position i on bears on turns.
SilentFrom(i) == \A j \in i..Len(toHost) : ~BearsOnTurns(toHost[j])

\* What is still on the wire always leads hostd to the truth: the last
\* turn-bearing message in flight names exactly the turn in flight, and when
\* none is left the view an acked attempt has folded is the guest's own
\* state.  This is what makes a DrainAck comparable with turn signals.
ViewConverges ==
  up =>
    /\ \A i \in 1..Len(toHost) :
         (BearsOnTurns(toHost[i]) /\ SilentFrom(i + 1))
           => InFlightAfter(toHost[i]) = inFlight
    /\ (view.gated /\ SilentFrom(1)) => view.inFlight = inFlight

\* The race rule as the app layer sees it: while a drain attempt is open and
\* hostd's view of a host-driven guest is quiet, the guest really is gated with
\* nothing in flight, so a snapshot cuts no turn.  No ack of an earlier attempt
\* on the channel, and no cancel, can be mistaken.
QuietViewIsTrue ==
  (draining /\ ~wraps /\ Quiet(view)) => (gated /\ Idle)

\* What guest.rs and protocol.md promise, "a gated turn is deferred, never
\* lost": a turn leaves the backlog only to be replayed.
DeferredNeverLost == [][queued' < queued => ReplayNext]_vars

============================================================================
