------------------------------- MODULE Drive -------------------------------
(***************************************************************************)
(* The rebalancer's migration driver (crates/rebalancer/src/driver.rs)     *)
(* over the executor port (executor.rs, pseudo_executor.rs), whose drain   *)
(* is judged by hostd's coordinator (module Quiesce).  An effect that      *)
(* fails has been carried out or not; the driver cannot tell.              *)
(*                                                                         *)
(* External: the real executor.  Its effects are what executor.rs says of  *)
(* them: the drain asks the guest to close its gate and feeds what it      *)
(* hears to the coordinator until the verdict is quiescent or the deadline *)
(* has passed; the snapshot pauses the VM; the restore runs it on the      *)
(* target; the cutover releases the turns that waited; the cleanup ends    *)
(* the source.  The two directions of the control channel are FIFO.        *)
(***************************************************************************)
EXTENDS Quiesce

CONSTANT WireCap  \* signals of the guest under way (bound)

ASSUME WireAssumption == WireCap \in Nat \ {0}

VARIABLES
  phase,    \* the typestate the driver holds
  effect,   \* the executor call under way, or the next one
  outcome,  \* what drive returned
  coord,    \* the coordinator of the drain
  inbox,    \* DrainRequest and DrainCancel under way
  wire,     \* signals of the guest under way
  gate,     \* the guest holds new turns back
  turn,     \* a turn is in flight
  source,   \* the VM on the source host
  target,   \* the VM on the target host
  calm      \* history: cool samples since the last hot one, up to Samples

driveVars == <<phase, effect, outcome>>
judgeVars == <<coord, calm>>
linkVars == <<inbox, wire>>
vmState == <<source, target>>
guestState == <<gate, turn>>
vars == <<driveVars, judgeVars, linkVars, vmState, guestState>>

F == INSTANCE Fsm

Effects == {"request_drain", "draining", "cancel_drain", "snapshot",
            "transfer", "restore", "cutover", "cleanup", "none"}
Outcomes == {"none", "completed", "aborted", "error"}

-----------------------------------------------------------------------------
(* The guest (module Guest has it whole).                                  *)

Runs == "running" \in {source, target}

Signal(m) == Len(wire) < WireCap /\ wire' = Append(wire, m)

StartTurn ==
  /\ Runs /\ ~gate /\ ~turn
  /\ turn' = TRUE
  /\ Signal("TurnStarted")
  /\ UNCHANGED <<driveVars, judgeVars, inbox, vmState, gate>>

EndTurn ==
  /\ Runs /\ turn
  /\ turn' = FALSE
  /\ Signal("TurnEnded")
  /\ UNCHANGED <<driveVars, judgeVars, inbox, vmState, gate>>

TakeRequest ==
  /\ Runs /\ inbox # <<>> /\ Head(inbox) = "DrainRequest"
  /\ inbox' = Tail(inbox)
  /\ gate' = TRUE
  /\ Signal(IF turn THEN "AckBusy" ELSE "AckIdle")
  /\ UNCHANGED <<driveVars, judgeVars, vmState, turn>>

TakeCancel ==
  /\ Runs /\ inbox # <<>> /\ Head(inbox) = "DrainCancel"
  /\ inbox' = Tail(inbox)
  /\ gate' = FALSE
  /\ UNCHANGED <<driveVars, judgeVars, wire, vmState, turn>>

-----------------------------------------------------------------------------
(* The drain's evidence.                                                   *)

Judging == effect = "draining"

HearGuest ==
  /\ Judging /\ wire # <<>>
  /\ coord' = ObserveGuest(coord, Head(wire))
  /\ wire' = Tail(wire)
  /\ UNCHANGED <<driveVars, calm, inbox, vmState, guestState>>

TakeSample(cool, quiet) ==
  /\ Judging
  /\ coord' = ObserveInfra(coord, cool, quiet)
  /\ calm' = IF ~cool THEN 0 ELSE IF calm < Samples THEN calm + 1 ELSE calm
  /\ UNCHANGED <<driveVars, linkVars, vmState, guestState>>

SyncStorage(caught) ==
  /\ Judging
  /\ coord' = ObserveStorage(coord, caught)
  /\ UNCHANGED <<driveVars, calm, linkVars, vmState, guestState>>

-----------------------------------------------------------------------------
(* The other effects, as the executor port has them.                       *)

CancelDrain ==
  /\ inbox' = Append(inbox, "DrainCancel")
  /\ UNCHANGED <<wire, guestState, vmState>>

SnapshotVm == source' = "paused" /\ UNCHANGED <<target, linkVars, guestState>>

TransferVm ==
  target' = "received" /\ UNCHANGED <<source, linkVars, guestState>>

RestoreVm == target' = "running" /\ UNCHANGED <<source, linkVars, guestState>>

CutoverVm == gate' = FALSE /\ UNCHANGED <<turn, linkVars, vmState>>

\* Mutant: the cleanup goes to the wrong host.
CleanupTarget == target' = "gone" /\ UNCHANGED <<source, linkVars, guestState>>

CleanupVm == source' = "gone" /\ UNCHANGED <<target, linkVars, guestState>>

-----------------------------------------------------------------------------
(* drive.                                                                  *)

\* An effect returns Ok: the driver advances and calls the next one.
Done(e, Does, to, next) ==
  /\ effect = e /\ Does
  /\ phase' = to /\ effect' = next
  /\ outcome' = IF to = "aborted" THEN "aborted"
                ELSE IF to = "cleanup" THEN "completed"
                ELSE outcome
  /\ UNCHANGED judgeVars

\* Mutant: the error rolls the migration back, whatever its phase.
FailsAborting(e, Does) ==
  /\ effect = e
  /\ Does \/ UNCHANGED <<linkVars, vmState, guestState>>
  /\ effect' = "none" /\ outcome' = "error"
  /\ phase' = "aborted"
  /\ UNCHANGED judgeVars

\* An effect returns Err, carried out or not: ? ends drive.
Fails(e, Does) ==
  /\ effect = e
  /\ Does \/ UNCHANGED <<linkVars, vmState, guestState>>
  /\ effect' = "none" /\ outcome' = "error"
  /\ UNCHANGED <<phase, judgeVars>>

\* The typestate enters Draining before the request is sent.
RequestDrain ==
  /\ effect = "request_drain"
  /\ phase' = "draining" /\ effect' = "draining"
  /\ inbox' = Append(inbox, "DrainRequest")
  /\ coord' = FreshCoordinator /\ calm' = 0
  /\ UNCHANGED <<outcome, wire, vmState, guestState>>

DrainQuiescent ==
  /\ Judging /\ Verdict(coord) = "Quiescent"
  /\ phase' = "quiescent" /\ effect' = "snapshot"
  /\ UNCHANGED <<outcome, judgeVars, linkVars, vmState, guestState>>

\* The deadline passes on a turn, or on another layer that is not quiet.
DrainBusy ==
  /\ Judging /\ Verdict(coord) = "Busy"
  /\ effect' = "cancel_drain"
  /\ UNCHANGED <<phase, outcome, judgeVars, linkVars, vmState, guestState>>

\* request_drain fails before or after the request left: nothing opens the
\* gate again.
DrainFails ==
  /\ effect \in {"request_drain", "draining"}
  /\ phase' = "draining" /\ effect' = "none" /\ outcome' = "error"
  /\ UNCHANGED <<judgeVars, linkVars, vmState, guestState>>

\* Mutant: a busy guest is given up without a word to it.
BusyUntold ==
  Done("cancel_drain", UNCHANGED <<linkVars, vmState, guestState>>, "aborted",
       "none")

\* Race rule: un-gate and stand down.
Busy ==
  \/ Done("cancel_drain", CancelDrain, "aborted", "none")
  \/ Fails("cancel_drain", CancelDrain)

Committing ==
  \/ Done("snapshot", SnapshotVm, "snapshotting", "transfer")
  \/ Done("transfer", TransferVm, "transferring", "restore")
  \/ Done("restore", RestoreVm, "restoring", "cutover")
  \/ Done("cutover", CutoverVm, "cutover", "cleanup")
  \/ Done("cleanup", CleanupVm, "cleanup", "none")
  \/ Fails("snapshot", SnapshotVm)
  \/ Fails("transfer", TransferVm)
  \/ Fails("restore", RestoreVm)
  \/ Fails("cutover", CutoverVm)
  \/ Fails("cleanup", CleanupVm)

DriveStep ==
  RequestDrain \/ DrainQuiescent \/ DrainBusy \/ DrainFails \/ Busy
  \/ Committing

GuestStep == StartTurn \/ EndTurn \/ TakeRequest \/ TakeCancel

Evidence ==
  \/ HearGuest
  \/ \E cool, quiet \in BOOLEAN : TakeSample(cool, quiet)
  \/ \E caught \in BOOLEAN : SyncStorage(caught)

-----------------------------------------------------------------------------
DriveInit ==
  /\ phase = "intent" /\ effect = "request_drain" /\ outcome = "none"
  /\ coord = FreshCoordinator /\ calm = 0
  /\ inbox = <<>> /\ wire = <<>>
  /\ gate = FALSE /\ turn = FALSE
  /\ source = "running" /\ target = "none"

DriveNext == DriveStep \/ GuestStep \/ Evidence

DriveSpec == DriveInit /\ [][DriveNext]_vars

-----------------------------------------------------------------------------
(* Properties.                                                             *)

DriveTypes ==
  /\ phase \in F!Phases /\ effect \in Effects /\ outcome \in Outcomes
  /\ coord \in Coordinators /\ calm \in 0..Samples
  /\ inbox \in Seq({"DrainRequest", "DrainCancel"})
  /\ wire \in Seq(Signals)
  /\ gate \in BOOLEAN /\ turn \in BOOLEAN
  /\ source \in {"running", "paused", "gone"}
  /\ target \in {"none", "received", "running"}

\* A turn is never cut: while one is in flight its VM runs, on one host, even
\* though turns start and end at any moment of the drain and what the
\* coordinator knows of them is still on the wire (driver.rs:8-11, drain.rs).
TurnNeverCut ==
  /\ turn => Runs
  /\ ~(source = "running" /\ target = "running")

\* The verdict is earned: with it, the last Samples readings of this attempt
\* were all cool, and there were that many (InfraLayer's sliding window), and
\* while the drain waits the guest itself is gated between turns, though the
\* coordinator only knows what it has heard of it (AppLayer).
VerdictIsEarned ==
  Verdict(coord) = "Quiescent" =>
    /\ Samples > 0 /\ calm = Samples
    /\ effect = "draining" => gate /\ ~turn

\* The guest's gate is open, or will be when it has read what is under way.
Opens ==
  IF inbox = <<>> THEN ~gate ELSE inbox[Len(inbox)] = "DrainCancel"

\* What drive returns is so: Completed means moved, released and cleaned up,
\* Aborted means untouched and un-gated, also when the cancel overtakes the
\* ack.  Only an error leaves the guest gated or its VM paused (the ? after
\* request_drain and after each effect).
OutcomeIsTrue ==
  /\ outcome = "completed" =>
       source = "gone" /\ target = "running" /\ ~gate
  /\ outcome = "aborted" =>
       source = "running" /\ target = "none" /\ Opens

\* The driver keeps the order the typestate promises, and an error after the
\* snapshot does not roll back (driver.rs:12-15).
FollowsFsm == F!Spec

============================================================================
