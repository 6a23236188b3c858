---------------------------- MODULE DriveProofs ----------------------------
(***************************************************************************)
(* Proofs about Drive, for any number of samples and any wire: the driver  *)
(* keeps the typestate's order, and a turn is never cut.                   *)
(***************************************************************************)
EXTENDS Drive, SequenceTheorems, TLAPS

-----------------------------------------------------------------------------
(* Sequences, element by element.                                          *)

\* A sequence and one element more.
LEMMA Appended ==
  ASSUME NEW S, NEW w \in Seq(S), NEW m \in S
  PROVE  /\ Append(w, m) \in Seq(S)
         /\ Len(Append(w, m)) = Len(w) + 1 /\ Len(w) \in Nat
         /\ \A k \in 1..Len(w) : Append(w, m)[k] = w[k]
         /\ Append(w, m)[Len(w) + 1] = m
  BY AppendProperties

\* A sequence and one element less.
LEMMA Taken ==
  ASSUME NEW S, NEW w \in Seq(S), w # <<>>
  PROVE  /\ Head(w) \in S /\ Head(w) = w[1]
         /\ Tail(w) \in Seq(S)
         /\ Len(Tail(w)) = Len(w) - 1 /\ Len(w) \in Nat \ {0}
         /\ \A k \in 1..Len(w) - 1 : Tail(w)[k] = w[k + 1]
  BY HeadTailProperties, EmptySeq

-----------------------------------------------------------------------------
(* The order of the phases.                                                *)

\* What the driver holds while it makes each call.
HoldsPhase ==
  /\ effect \in Effects
  /\ effect = "request_drain" => phase = "intent"
  /\ effect \in {"draining", "cancel_drain"} => phase = "draining"
  /\ effect = "snapshot" => phase = "quiescent"
  /\ effect = "transfer" => phase = "snapshotting"
  /\ effect = "restore" => phase = "transferring"
  /\ effect = "cutover" => phase = "restoring"
  /\ effect = "cleanup" => phase = "cutover"

\* The driver begins where the typestate does.
LEMMA PhaseInit == DriveInit => HoldsPhase /\ F!Init
  BY DEF DriveInit, HoldsPhase, Effects, F!Init

\* Only the driver moves the driver.
LEMMA OtherStepsKeepPhase ==
  ASSUME GuestStep \/ Evidence \/ UNCHANGED vars
  PROVE  UNCHANGED driveVars
<1>1. CASE GuestStep
  BY <1>1 DEF GuestStep, StartTurn, EndTurn, TakeRequest, TakeCancel,
              driveVars
<1>2. CASE Evidence
  BY <1>2 DEF Evidence, HearGuest, TakeSample, SyncStorage, driveVars
<1>3. CASE UNCHANGED vars
  BY <1>3 DEF vars
<1>4. QED
  BY <1>1, <1>2, <1>3

\* One transition of the typestate, or none, for every step of the driver.
LEMMA PhaseStep ==
  ASSUME HoldsPhase, [DriveNext]_vars
  PROVE  HoldsPhase' /\ [F!Next]_phase
<1> USE DEF HoldsPhase, Effects
<1>1. CASE DriveStep
  <2> USE DEF F!Next, F!Advance
  <2>1. CASE RequestDrain
    BY <2>1 DEF RequestDrain, F!Drain
  <2>2. CASE DrainQuiescent
    BY <2>2 DEF DrainQuiescent, Judging, F!Quiescent
  <2>3. CASE DrainBusy
    BY <2>3 DEF DrainBusy, Judging
  <2>4. CASE DrainFails
    BY <2>4 DEF DrainFails, F!Drain
  <2>5. CASE Done("cancel_drain", CancelDrain, "aborted", "none")
    BY <2>5 DEF Done, F!Abort, F!Abortable
  <2>6. CASE Done("snapshot", SnapshotVm, "snapshotting", "transfer")
    BY <2>6 DEF Done, F!Snapshot
  <2>7. CASE Done("transfer", TransferVm, "transferring", "restore")
    BY <2>7 DEF Done, F!Transfer
  <2>8. CASE Done("restore", RestoreVm, "restoring", "cutover")
    BY <2>8 DEF Done, F!Restore
  <2>9. CASE Done("cutover", CutoverVm, "cutover", "cleanup")
    BY <2>9 DEF Done, F!Cutover
  <2>10. CASE Done("cleanup", CleanupVm, "cleanup", "none")
    BY <2>10 DEF Done, F!Cleanup
  <2>11. ASSUME effect' = "none", UNCHANGED phase
         PROVE  HoldsPhase' /\ [F!Next]_phase
    BY <2>11
  <2>12. QED
    BY <1>1, <2>1, <2>2, <2>3, <2>4, <2>5, <2>6, <2>7, <2>8, <2>9, <2>10,
       <2>11 DEF DriveStep, Busy, Committing, Fails
<1>2. CASE UNCHANGED driveVars
  BY <1>2 DEF driveVars
<1>3. QED
  BY <1>1, <1>2, OtherStepsKeepPhase DEF DriveNext

\* drive implements the typestate of proto/fsm.rs: every phase it enters is
\* the next one of the order, aborts included (driver.rs:52-92).
THEOREM DriveFollowsFsm == DriveSpec => FollowsFsm
<1>1. DriveInit => HoldsPhase /\ F!Init
  BY PhaseInit
<1>2. HoldsPhase /\ [DriveNext]_vars => HoldsPhase' /\ [F!Next]_phase
  BY PhaseStep
<1>3. QED
  BY <1>1, <1>2, PTL DEF DriveSpec, FollowsFsm, F!Spec

-----------------------------------------------------------------------------
(* What the coordinator knows of the turn.                                 *)

Positions == 1..Len(wire)

\* An ack is under way, or was heard.
Acked == coord.gated \/ \E k \in Positions : wire[k] \in Acks

\* The types the argument needs.
JudgeTypes ==
  /\ coord \in Coordinators
  /\ wire \in Seq(Signals)
  /\ gate \in BOOLEAN /\ turn \in BOOLEAN
  /\ source \in {"running", "paused", "gone"}
  /\ target \in {"none", "received", "running"}
  /\ outcome \in Outcomes

\* Until the drain is over, the last word the guest has sent, or the last one
\* heard, says whether a turn is in flight.
BeliefCatchesUp ==
  effect \in {"request_drain", "draining"} =>
    turn = IF wire = <<>> THEN coord.inFlight
           ELSE wire[Len(wire)] \in {"TurnStarted", "AckBusy"}

\* After the ack no turn starts.
AckIsLast ==
  effect \in {"request_drain", "draining"} =>
    /\ coord.gated => \A k \in Positions : wire[k] = "TurnEnded"
    /\ \A k \in Positions : wire[k] \in Acks =>
         \A j \in Positions : j > k => wire[j] = "TurnEnded"

\* The one request is asked for once, and answered with the gate closed.
AskedOnce ==
  /\ effect = "request_drain" =>
       coord = FreshCoordinator /\ ~Acked /\ inbox = <<>>
  /\ effect = "draining" =>
       /\ inbox \in {<<>>, <<"DrainRequest">>}
       /\ Acked => gate /\ inbox = <<>>

\* From the verdict to the cutover nothing can start a turn.
HeldQuiet ==
  effect \in {"snapshot", "transfer", "restore", "cutover"} =>
    gate /\ ~turn /\ inbox = <<>>

\* Where the VM is while the driver is at each call.
Placed ==
  /\ effect \in {"request_drain", "draining", "cancel_drain", "snapshot"} =>
       source = "running" /\ target = "none"
  /\ effect = "transfer" => source = "paused" /\ target = "none"
  /\ effect = "restore" => source = "paused" /\ target = "received"
  /\ effect \in {"cutover", "cleanup"} =>
       source = "paused" /\ target = "running"

DInv ==
  /\ HoldsPhase /\ JudgeTypes /\ BeliefCatchesUp /\ AckIsLast /\ AskedOnce
  /\ HeldQuiet /\ Placed /\ TurnNeverCut

\* A coordinator that has seen nothing.
LEMMA FreshTypes == FreshCoordinator \in Coordinators
<1>1. <<>> \in Seq(BOOLEAN)
  OBVIOUS
<1>2. QED
  BY <1>1 DEF FreshCoordinator, Coordinators

\* Nothing is asked and the wire is empty.
LEMMA DriveInitHolds == DriveInit => DInv
<1> SUFFICES ASSUME DriveInit PROVE DInv
  OBVIOUS
<1>1. HoldsPhase
  BY PhaseInit
<1>2. JudgeTypes
  <2>1. <<>> \in Seq(Signals)
    OBVIOUS
  <2>2. QED
    BY <2>1, FreshTypes DEF DriveInit, JudgeTypes, Outcomes
<1>3. Positions = {}
  BY DEF DriveInit, Positions
<1>4. BeliefCatchesUp /\ AckIsLast
  BY <1>3 DEF DriveInit, BeliefCatchesUp, AckIsLast, FreshCoordinator
<1>5. AskedOnce
  BY <1>3 DEF DriveInit, AskedOnce, Acked, FreshCoordinator
<1>6. HeldQuiet /\ Placed /\ TurnNeverCut
  BY DEF DriveInit, HeldQuiet, Placed, TurnNeverCut, Runs
<1>7. QED
  BY <1>1, <1>2, <1>4, <1>5, <1>6 DEF DInv

-----------------------------------------------------------------------------
(* The guest's steps.                                                      *)

\* The guest says m: what that does to the wire.
LEMMA Says ==
  ASSUME JudgeTypes, NEW m \in Signals, Signal(m), UNCHANGED coord
  PROVE  /\ wire' \in Seq(Signals) /\ wire' # <<>>
         /\ wire'[Len(wire')] = m
         /\ Len(wire') = Len(wire) + 1 /\ Len(wire) \in Nat
         /\ \A k \in Positions : wire'[k] = wire[k]
         /\ Acked' => Acked \/ m \in Acks
         /\ Acked \/ m \in Acks => Acked'
<1>1. /\ wire' \in Seq(Signals)
      /\ Len(wire') = Len(wire) + 1 /\ Len(wire) \in Nat
      /\ \A k \in 1..Len(wire) : wire'[k] = wire[k]
      /\ wire'[Len(wire) + 1] = m
  BY Appended DEF JudgeTypes, Signal
<1>2. wire' # <<>>
  BY <1>1
<1>3. QED
  BY <1>1, <1>2 DEF Acked, Positions

\* A turn that starts is one the drain has not asked to wait.
LEMMA StartTurnKeeps == ASSUME DInv, StartTurn PROVE DInv'
<1>1. /\ "TurnStarted" \in Signals /\ "TurnStarted" \notin Acks
      /\ UNCHANGED <<driveVars, coord, inbox, source, target, gate>>
      /\ Signal("TurnStarted") /\ turn' = TRUE /\ Runs /\ ~gate
  BY DEF StartTurn, Signals, Acks, judgeVars, vmState
<1>2. /\ wire' \in Seq(Signals) /\ wire' # <<>>
      /\ wire'[Len(wire')] = "TurnStarted"
      /\ Len(wire') = Len(wire) + 1 /\ Len(wire) \in Nat
      /\ \A k \in Positions : wire'[k] = wire[k]
      /\ Acked' => Acked
  BY <1>1, Says DEF DInv
<1>3. HoldsPhase' /\ JudgeTypes'
  BY <1>1, <1>2 DEF DInv, HoldsPhase, JudgeTypes, driveVars
<1>4. BeliefCatchesUp'
  BY <1>1, <1>2 DEF BeliefCatchesUp
<1>5. effect \in {"request_drain", "draining"} => ~Acked
  BY <1>1 DEF DInv, AskedOnce
<1>6. AckIsLast'
  BY <1>1, <1>2, <1>5 DEF AckIsLast, Acked, Positions, driveVars
<1>7. AskedOnce' /\ HeldQuiet' /\ Placed' /\ TurnNeverCut'
  BY <1>1, <1>2, <1>5 DEF DInv, AskedOnce, HeldQuiet, Placed, TurnNeverCut,
                          Runs, driveVars
<1>8. QED
  BY <1>3, <1>4, <1>6, <1>7 DEF DInv

\* The end of a turn follows any ack on the wire.
LEMMA EndTurnKeeps == ASSUME DInv, EndTurn PROVE DInv'
<1>1. /\ "TurnEnded" \in Signals /\ "TurnEnded" \notin Acks
      /\ UNCHANGED <<driveVars, coord, inbox, source, target, gate>>
      /\ Signal("TurnEnded") /\ turn' = FALSE
  BY DEF EndTurn, Signals, Acks, judgeVars, vmState
<1>2. /\ wire' \in Seq(Signals) /\ wire' # <<>>
      /\ wire'[Len(wire')] = "TurnEnded"
      /\ Len(wire') = Len(wire) + 1 /\ Len(wire) \in Nat
      /\ \A k \in Positions : wire'[k] = wire[k]
      /\ Acked' => Acked
  BY <1>1, Says DEF DInv
<1>3. HoldsPhase' /\ JudgeTypes'
  BY <1>1, <1>2 DEF DInv, HoldsPhase, JudgeTypes, driveVars
<1>4. BeliefCatchesUp'
  <2>1. (wire'[Len(wire')] \in {"TurnStarted", "AckBusy"}) = FALSE
    BY <1>2
  <2>2. turn' = IF wire' = <<>> THEN coord'.inFlight
                ELSE wire'[Len(wire')] \in {"TurnStarted", "AckBusy"}
    BY <1>1, <1>2, <2>1, Zenon
  <2>3. QED
    BY <2>2 DEF BeliefCatchesUp
<1>5. AckIsLast'
  BY <1>1, <1>2 DEF DInv, AckIsLast, Positions, driveVars
<1>6. AskedOnce' /\ HeldQuiet' /\ Placed' /\ TurnNeverCut'
  BY <1>1, <1>2 DEF DInv, AskedOnce, HeldQuiet, Placed, TurnNeverCut,
                    Runs, driveVars
<1>7. QED
  BY <1>3, <1>4, <1>5, <1>6 DEF DInv

\* The request is answered: the gate closes, and the ack is the last word that
\* can be anything but the end of a turn.
LEMMA TakeRequestKeeps == ASSUME DInv, TakeRequest PROVE DInv'
<1> DEFINE m == IF turn THEN "AckBusy" ELSE "AckIdle"
<1>1. /\ m \in Signals /\ m \in Acks
      /\ UNCHANGED <<driveVars, coord, turn, source, target>>
      /\ Signal(m) /\ gate' = TRUE /\ inbox' = Tail(inbox)
      /\ inbox # <<>> /\ Head(inbox) = "DrainRequest"
  BY DEF TakeRequest, Signals, Acks, judgeVars, vmState
<1> HIDE DEF m
<1>2. /\ wire' \in Seq(Signals) /\ wire' # <<>>
      /\ wire'[Len(wire')] = m
      /\ Len(wire') = Len(wire) + 1 /\ Len(wire) \in Nat
      /\ \A k \in Positions : wire'[k] = wire[k]
  BY <1>1, Says DEF DInv
<1>3. HoldsPhase' /\ JudgeTypes'
  BY <1>1, <1>2 DEF DInv, HoldsPhase, JudgeTypes, driveVars
<1>4. BeliefCatchesUp'
  BY <1>1, <1>2 DEF DInv, BeliefCatchesUp, m, JudgeTypes
<1>5. effect = "draining" => inbox = <<"DrainRequest">> /\ ~Acked
  BY <1>1 DEF DInv, AskedOnce
<1>6. effect # "request_drain"
  BY <1>1 DEF DInv, AskedOnce
<1>7. AckIsLast'
  BY <1>1, <1>2, <1>5, <1>6 DEF AckIsLast, Acked, Positions, driveVars
<1>8. inbox = <<"DrainRequest">> => Tail(inbox) = <<>>
  OBVIOUS
<1>9. AskedOnce'
  BY <1>1, <1>5, <1>6, <1>8 DEF AskedOnce, driveVars
<1>10. HeldQuiet' /\ Placed' /\ TurnNeverCut'
  BY <1>1 DEF DInv, HeldQuiet, Placed, TurnNeverCut, Runs, driveVars
<1>11. QED
  BY <1>3, <1>4, <1>7, <1>9, <1>10 DEF DInv

\* A cancel comes only when the drain is over.
LEMMA TakeCancelKeeps == ASSUME DInv, TakeCancel PROVE DInv'
<1>1. /\ UNCHANGED <<driveVars, coord, turn, source, target, wire>>
      /\ gate' = FALSE /\ inbox # <<>> /\ Head(inbox) = "DrainCancel"
  BY DEF TakeCancel, judgeVars, vmState
<1>2. /\ effect \notin {"request_drain", "draining", "snapshot", "transfer",
                        "restore", "cutover"}
  BY <1>1 DEF DInv, AskedOnce, HeldQuiet
<1>3. HoldsPhase' /\ JudgeTypes' /\ BeliefCatchesUp' /\ AckIsLast'
  BY <1>1, <1>2 DEF DInv, HoldsPhase, JudgeTypes, BeliefCatchesUp, AckIsLast,
                    driveVars
<1>4. AskedOnce' /\ HeldQuiet' /\ Placed' /\ TurnNeverCut'
  BY <1>1, <1>2 DEF DInv, AskedOnce, HeldQuiet, Placed, TurnNeverCut, Runs,
                    driveVars
<1>5. QED
  BY <1>3, <1>4 DEF DInv

-----------------------------------------------------------------------------
(* The coordinator's steps.                                                *)

\* What the coordinator hears it believes, and the rest of the wire stays.
LEMMA HearGuestKeeps == ASSUME DInv, HearGuest PROVE DInv'
<1> DEFINE m == Head(wire)
<1>1. /\ UNCHANGED <<driveVars, inbox, source, target, gate, turn>>
      /\ effect = "draining" /\ wire # <<>> /\ wire' = Tail(wire)
      /\ coord' = ObserveGuest(coord, m)
  BY DEF HearGuest, Judging, vmState, guestState
<1>2. /\ m \in Signals /\ m = wire[1]
      /\ wire' \in Seq(Signals)
      /\ Len(wire') = Len(wire) - 1 /\ Len(wire) \in Nat \ {0}
      /\ \A k \in 1..Len(wire) - 1 : wire'[k] = wire[k + 1]
  BY <1>1, Taken DEF DInv, JudgeTypes
<1> HIDE DEF m
<1>3. /\ coord' \in Coordinators
      /\ coord'.gated <=> coord.gated \/ m \in Acks
      /\ coord'.inFlight = (m \in {"TurnStarted", "AckBusy"})
  <2> USE DEF DInv, JudgeTypes, Coordinators, ObserveGuest, Acks
  <2>1. CASE m = "TurnStarted"
    BY <1>1, <2>1
  <2>2. CASE m = "TurnEnded"
    <3>1. coord' = [coord EXCEPT !.inFlight = FALSE]
      BY <1>1, <2>2
    <3>2. /\ coord' \in Coordinators
          /\ coord'.gated = coord.gated /\ coord'.inFlight = FALSE
      BY <3>1
    <3>3. (m \in {"TurnStarted", "AckBusy"}) = FALSE
      BY <2>2
    <3>4. QED
      BY <2>2, <3>2, <3>3
  <2>3. CASE m = "AckIdle"
    <3>1. coord' = [coord EXCEPT !.gated = TRUE, !.inFlight = FALSE]
      BY <1>1, <2>3
    <3>2. /\ coord' \in Coordinators
          /\ coord'.gated = TRUE /\ coord'.inFlight = FALSE
      BY <3>1
    <3>3. (m \in {"TurnStarted", "AckBusy"}) = FALSE
      BY <2>3
    <3>4. QED
      BY <2>3, <3>2, <3>3
  <2>4. CASE m = "AckBusy"
    <3>1. coord' = [coord EXCEPT !.gated = TRUE, !.inFlight = TRUE]
      BY <1>1, <2>4
    <3>2. /\ coord' \in Coordinators
          /\ coord'.gated = TRUE /\ coord'.inFlight = TRUE
      BY <3>1
    <3>3. (m \in {"TurnStarted", "AckBusy"}) = TRUE
      BY <2>4
    <3>4. QED
      BY <2>4, <3>2, <3>3
  <2>5. QED
    BY <1>2, <2>1, <2>2, <2>3, <2>4 DEF Signals
<1>4. HoldsPhase' /\ JudgeTypes'
  BY <1>1, <1>2, <1>3 DEF DInv, HoldsPhase, JudgeTypes, driveVars
<1>5. BeliefCatchesUp'
  <2>1. turn = (wire[Len(wire)] \in {"TurnStarted", "AckBusy"})
    BY <1>1 DEF DInv, BeliefCatchesUp
  <2>2. CASE wire' = <<>>
    <3>1. Len(wire) = 1
      BY <2>2, <1>2
    <3>2. wire[Len(wire)] = m
      BY <3>1, <1>2
    <3>3. QED
      BY <2>1, <2>2, <3>2, <1>1, <1>3 DEF BeliefCatchesUp
  <2>3. CASE wire' # <<>>
    <3>1. Len(wire') # 0
      BY <2>3, <1>2, EmptySeq
    <3>2. wire'[Len(wire')] = wire[Len(wire)]
      BY <3>1, <1>2
    <3>3. QED
      BY <2>1, <2>3, <3>2, <1>1 DEF BeliefCatchesUp
  <2>4. QED
    BY <2>2, <2>3
<1>6. AckIsLast'
  BY <1>1, <1>2, <1>3 DEF DInv, AckIsLast, Positions, driveVars
<1>7. Acked' => Acked
  BY <1>2, <1>3 DEF Acked, Positions
<1>8. AskedOnce'
  BY <1>1, <1>7 DEF DInv, AskedOnce, driveVars
<1>9. HeldQuiet' /\ Placed' /\ TurnNeverCut'
  BY <1>1 DEF DInv, HeldQuiet, Placed, TurnNeverCut, Runs, driveVars
<1>10. QED
  BY <1>4, <1>5, <1>6, <1>8, <1>9 DEF DInv

\* The other layers say nothing of the turn.
LEMMA OtherLayersKeep ==
  ASSUME DInv, effect = "draining",
         coord' \in Coordinators,
         coord'.gated = coord.gated, coord'.inFlight = coord.inFlight,
         UNCHANGED <<driveVars, linkVars, vmState, guestState>>
  PROVE  DInv'
<1> USE DEF driveVars, linkVars, vmState, guestState
<1>1. Acked' <=> Acked
  BY DEF Acked, Positions
<1>2. HoldsPhase' /\ JudgeTypes' /\ BeliefCatchesUp' /\ AckIsLast'
  BY DEF DInv, HoldsPhase, JudgeTypes, BeliefCatchesUp, AckIsLast, Positions
<1>3. AskedOnce' /\ HeldQuiet' /\ Placed' /\ TurnNeverCut'
  BY <1>1 DEF DInv, AskedOnce, HeldQuiet, Placed, TurnNeverCut, Runs
<1>4. QED
  BY <1>2, <1>3 DEF DInv

\* The window is a sequence of samples.
LEMMA WindowTypes ==
  ASSUME NEW c \in Coordinators, NEW cool \in BOOLEAN
  PROVE  /\ Slide(c.recent) \in Seq(BOOLEAN)
         /\ Append(Slide(c.recent), cool) \in Seq(BOOLEAN)
<1>1. c.recent \in Seq(BOOLEAN)
  BY DEF Coordinators
<1>2. Slide(c.recent) \in Seq(BOOLEAN)
  BY <1>1, Taken DEF Slide
<1>3. QED
  BY <1>2, Appended

\* Signals and samples, by the three layers.
LEMMA EvidenceKeeps == ASSUME DInv, Evidence PROVE DInv'
<1>1. CASE HearGuest
  BY <1>1, HearGuestKeeps
<1>2. ASSUME NEW cool \in BOOLEAN, NEW quiet \in BOOLEAN,
             TakeSample(cool, quiet)
      PROVE  DInv'
  <2>1. coord \in Coordinators
    BY DEF DInv, JudgeTypes
  <2>2. /\ coord' = ObserveInfra(coord, cool, quiet) /\ effect = "draining"
        /\ UNCHANGED <<driveVars, linkVars, vmState, guestState>>
    BY <1>2 DEF TakeSample, Judging
  <2>3. /\ coord' \in Coordinators /\ coord'.gated = coord.gated
        /\ coord'.inFlight = coord.inFlight
    BY <2>1, <2>2, WindowTypes DEF ObserveInfra, Coordinators
  <2>4. QED
    BY <2>2, <2>3, OtherLayersKeep
<1>3. ASSUME NEW caught \in BOOLEAN, SyncStorage(caught)
      PROVE  DInv'
  <2>1. coord \in Coordinators
    BY DEF DInv, JudgeTypes
  <2>2. /\ coord' = ObserveStorage(coord, caught) /\ effect = "draining"
        /\ UNCHANGED <<driveVars, linkVars, vmState, guestState>>
    BY <1>3 DEF SyncStorage, Judging
  <2>3. /\ coord' \in Coordinators /\ coord'.gated = coord.gated
        /\ coord'.inFlight = coord.inFlight
    BY <2>1, <2>2 DEF ObserveStorage, Coordinators
  <2>4. QED
    BY <2>2, <2>3, OtherLayersKeep
<1>4. QED
  BY <1>1, <1>2, <1>3 DEF Evidence

-----------------------------------------------------------------------------
(* The driver's steps.                                                     *)

\* A verdict of quiescence is true of the guest: what is still under way can
\* only be the end of a turn that is known to have ended.
LEMMA VerdictIsTrue ==
  ASSUME DInv, effect = "draining", Verdict(coord) = "Quiescent"
  PROVE  gate /\ ~turn /\ inbox = <<>>
<1>1. coord.gated /\ ~coord.inFlight
  BY DEF Verdict, AppQuiet
<1>2. gate /\ inbox = <<>>
  BY <1>1 DEF DInv, AskedOnce, Acked
<1>3. CASE wire = <<>>
  BY <1>1, <1>2, <1>3 DEF DInv, BeliefCatchesUp
<1>4. CASE wire # <<>>
  <2>1. Len(wire) \in Positions
    BY <1>4, Taken DEF DInv, JudgeTypes, Positions
  <2>2. wire[Len(wire)] = "TurnEnded"
    BY <1>1, <2>1 DEF DInv, AckIsLast
  <2>3. (wire[Len(wire)] \in {"TurnStarted", "AckBusy"}) = FALSE
    BY <2>2
  <2>4. turn = (wire[Len(wire)] \in {"TurnStarted", "AckBusy"})
    BY <1>4 DEF DInv, BeliefCatchesUp
  <2>5. ~turn
    BY <2>3, <2>4, Zenon
  <2>6. QED
    BY <1>2, <2>5
<1>5. QED
  BY <1>3, <1>4

\* An effect that fails ends the drive, carried out or not.
LEMMA EndedKeeps ==
  ASSUME DInv, effect' = "none", UNCHANGED <<coord, wire>>, HoldsPhase',
         gate' \in BOOLEAN, turn' \in BOOLEAN, outcome' \in Outcomes,
         source' \in {"running", "paused", "gone"},
         target' \in {"none", "received", "running"},
         TurnNeverCut'
  PROVE  DInv'
  BY DEF DInv, JudgeTypes, BeliefCatchesUp, AckIsLast, AskedOnce, HeldQuiet,
         Placed

\* The drain is asked for, and ends in a verdict or in an error.
LEMMA DrainStepsKeep ==
  ASSUME DInv, RequestDrain \/ DrainQuiescent \/ DrainBusy \/ DrainFails,
         HoldsPhase'
  PROVE  DInv'
<1> USE DEF driveVars, linkVars, vmState, guestState, judgeVars
<1>1. CASE RequestDrain
  <2>1. /\ effect = "request_drain" /\ effect' = "draining"
        /\ coord' = coord /\ inbox' = <<"DrainRequest">>
        /\ UNCHANGED <<outcome, wire, source, target, gate, turn>>
    BY <1>1 DEF RequestDrain, DInv, AskedOnce
  <2>2. Acked' <=> Acked
    BY <2>1 DEF Acked, Positions
  <2>3. JudgeTypes' /\ BeliefCatchesUp' /\ AckIsLast'
    BY <2>1 DEF DInv, JudgeTypes, BeliefCatchesUp, AckIsLast, Positions
  <2>4. AskedOnce' /\ HeldQuiet' /\ Placed' /\ TurnNeverCut'
    BY <2>1, <2>2 DEF DInv, AskedOnce, HeldQuiet, Placed, TurnNeverCut, Runs
  <2>5. QED
    BY <2>3, <2>4 DEF DInv
<1>2. CASE DrainQuiescent
  <2>1. /\ effect = "draining" /\ effect' = "snapshot"
        /\ Verdict(coord) = "Quiescent"
        /\ UNCHANGED <<outcome, coord, inbox, wire, source, target, gate,
                       turn>>
    BY <1>2 DEF DrainQuiescent, Judging
  <2>2. gate /\ ~turn /\ inbox = <<>>
    BY <2>1, VerdictIsTrue
  <2>3. JudgeTypes' /\ BeliefCatchesUp' /\ AckIsLast' /\ AskedOnce'
    BY <2>1 DEF DInv, JudgeTypes, BeliefCatchesUp, AckIsLast, AskedOnce
  <2>4. HeldQuiet' /\ Placed' /\ TurnNeverCut'
    BY <2>1, <2>2 DEF DInv, HeldQuiet, Placed, TurnNeverCut, Runs
  <2>5. QED
    BY <2>3, <2>4 DEF DInv
<1>3. CASE DrainBusy
  <2>1. /\ effect = "draining" /\ effect' = "cancel_drain"
        /\ UNCHANGED <<outcome, coord, inbox, wire, source, target, gate,
                       turn>>
    BY <1>3 DEF DrainBusy, Judging
  <2>2. JudgeTypes' /\ BeliefCatchesUp' /\ AckIsLast' /\ AskedOnce'
    BY <2>1 DEF DInv, JudgeTypes, BeliefCatchesUp, AckIsLast, AskedOnce
  <2>3. HeldQuiet' /\ Placed' /\ TurnNeverCut'
    BY <2>1 DEF DInv, HeldQuiet, Placed, TurnNeverCut, Runs
  <2>4. QED
    BY <2>2, <2>3 DEF DInv
<1>4. CASE DrainFails
  <2>1. /\ effect' = "none" /\ outcome' = "error"
        /\ UNCHANGED <<coord, inbox, wire, source, target, gate, turn>>
    BY <1>4 DEF DrainFails
  <2>2. TurnNeverCut' /\ outcome' \in Outcomes
    BY <2>1 DEF DInv, TurnNeverCut, Runs, Outcomes
  <2>3. QED
    BY <2>1, <2>2, EndedKeeps DEF DInv, JudgeTypes
<1>5. QED
  BY <1>1, <1>2, <1>3, <1>4

\* An abort takes the drain back.
LEMMA BusyKeeps == ASSUME DInv, Busy, HoldsPhase' PROVE DInv'
<1> USE DEF driveVars, linkVars, vmState, guestState, judgeVars
<1>1. /\ effect = "cancel_drain" /\ effect' = "none"
      /\ outcome' \in {"aborted", "error"}
      /\ UNCHANGED <<coord, wire, source, target, gate, turn>>
  BY DEF Busy, Done, Fails, CancelDrain
<1>2. TurnNeverCut' /\ outcome' \in Outcomes
  BY <1>1 DEF DInv, TurnNeverCut, Runs, Outcomes
<1>3. QED
  BY <1>1, <1>2, EndedKeeps DEF DInv, JudgeTypes

\* From the snapshot to the cutover nothing runs that could be cut.
LEMMA CommittingKeeps == ASSUME DInv, Committing, HoldsPhase' PROVE DInv'
<1> USE DEF driveVars, linkVars, vmState, guestState, judgeVars
<1>1. ASSUME Done("snapshot", SnapshotVm, "snapshotting", "transfer")
      PROVE  DInv'
  BY <1>1 DEF Done, SnapshotVm, DInv, JudgeTypes, BeliefCatchesUp, AckIsLast,
              AskedOnce, HeldQuiet, Placed, TurnNeverCut, Runs
<1>2. ASSUME Done("transfer", TransferVm, "transferring", "restore")
      PROVE  DInv'
  BY <1>2 DEF Done, TransferVm, DInv, JudgeTypes, BeliefCatchesUp, AckIsLast,
              AskedOnce, HeldQuiet, Placed, TurnNeverCut, Runs
<1>3. ASSUME Done("restore", RestoreVm, "restoring", "cutover")
      PROVE  DInv'
  BY <1>3 DEF Done, RestoreVm, DInv, JudgeTypes, BeliefCatchesUp, AckIsLast,
              AskedOnce, HeldQuiet, Placed, TurnNeverCut, Runs
<1>4. ASSUME Done("cutover", CutoverVm, "cutover", "cleanup")
      PROVE  DInv'
  BY <1>4 DEF Done, CutoverVm, DInv, JudgeTypes, BeliefCatchesUp, AckIsLast,
              AskedOnce, HeldQuiet, Placed, TurnNeverCut, Runs
<1>5. ASSUME Done("cleanup", CleanupVm, "cleanup", "none")
      PROVE  DInv'
  <2>1. /\ effect' = "none" /\ outcome' = "completed" /\ source' = "gone"
        /\ target = "running"
        /\ UNCHANGED <<coord, wire, target, gate, turn>>
    BY <1>5 DEF Done, CleanupVm, DInv, Placed
  <2>2. TurnNeverCut' /\ outcome' \in Outcomes
    BY <2>1 DEF TurnNeverCut, Runs, Outcomes
  <2>3. QED
    BY <2>1, <2>2, EndedKeeps DEF DInv, JudgeTypes
<1>6. ASSUME \/ Fails("snapshot", SnapshotVm)
             \/ Fails("transfer", TransferVm)
             \/ Fails("restore", RestoreVm)
             \/ Fails("cutover", CutoverVm)
             \/ Fails("cleanup", CleanupVm)
      PROVE  DInv'
  <2>1. effect' = "none" /\ outcome' = "error" /\ UNCHANGED <<coord, wire>>
    BY <1>6 DEF Fails, SnapshotVm, TransferVm, RestoreVm, CutoverVm,
                CleanupVm
  <2>2. /\ gate' \in BOOLEAN /\ UNCHANGED turn
        /\ source' \in {"running", "paused", "gone"}
        /\ target' \in {"none", "received", "running"}
        /\ TurnNeverCut'
    <3> USE DEF DInv, JudgeTypes, HeldQuiet, Placed, TurnNeverCut, Runs, Fails
    <3>1. CASE Fails("snapshot", SnapshotVm)
      <4>1. /\ effect = "snapshot"
            /\ SnapshotVm \/ UNCHANGED <<vmState, guestState>>
        BY <3>1
      <4>2. CASE SnapshotVm
        BY <4>1, <4>2 DEF SnapshotVm
      <4>3. CASE UNCHANGED <<vmState, guestState>>
        BY <4>1, <4>3
      <4>4. QED
        BY <4>1, <4>2, <4>3
    <3>2. CASE Fails("transfer", TransferVm)
      <4>1. /\ effect = "transfer"
            /\ TransferVm \/ UNCHANGED <<vmState, guestState>>
        BY <3>2
      <4>2. CASE TransferVm
        BY <4>1, <4>2 DEF TransferVm
      <4>3. CASE UNCHANGED <<vmState, guestState>>
        BY <4>1, <4>3
      <4>4. QED
        BY <4>1, <4>2, <4>3
    <3>3. CASE Fails("restore", RestoreVm)
      <4>1. /\ effect = "restore"
            /\ RestoreVm \/ UNCHANGED <<vmState, guestState>>
        BY <3>3
      <4>2. CASE RestoreVm
        BY <4>1, <4>2 DEF RestoreVm
      <4>3. CASE UNCHANGED <<vmState, guestState>>
        BY <4>1, <4>3
      <4>4. QED
        BY <4>1, <4>2, <4>3
    <3>4. CASE Fails("cutover", CutoverVm)
      <4>1. /\ effect = "cutover"
            /\ CutoverVm \/ UNCHANGED <<vmState, guestState>>
        BY <3>4
      <4>2. CASE CutoverVm
        BY <4>1, <4>2 DEF CutoverVm
      <4>3. CASE UNCHANGED <<vmState, guestState>>
        BY <4>1, <4>3
      <4>4. QED
        BY <4>1, <4>2, <4>3
    <3>5. CASE Fails("cleanup", CleanupVm)
      <4>1. /\ effect = "cleanup"
            /\ CleanupVm \/ UNCHANGED <<vmState, guestState>>
        BY <3>5
      <4>2. CASE CleanupVm
        BY <4>1, <4>2 DEF CleanupVm
      <4>3. CASE UNCHANGED <<vmState, guestState>>
        BY <4>1, <4>3
      <4>4. QED
        BY <4>1, <4>2, <4>3
    <3>6. QED
      BY <1>6, <3>1, <3>2, <3>3, <3>4, <3>5
  <2>3. QED
    BY <2>1, <2>2, EndedKeeps DEF DInv, JudgeTypes, Outcomes
<1>7. QED
  BY <1>1, <1>2, <1>3, <1>4, <1>5, <1>6 DEF Committing

\* Every step, by who takes it.
LEMMA DriveStepKeeps == ASSUME DInv, [DriveNext]_vars PROVE DInv'
<1>1. HoldsPhase'
  BY PhaseStep DEF DInv
<1>2. CASE DriveStep
  BY <1>1, <1>2, DrainStepsKeep, BusyKeeps, CommittingKeeps DEF DriveStep
<1>3. CASE GuestStep
  BY <1>3, StartTurnKeeps, EndTurnKeeps, TakeRequestKeeps, TakeCancelKeeps
     DEF GuestStep
<1>4. CASE Evidence
  BY <1>4, EvidenceKeeps
<1>5. CASE UNCHANGED vars
  BY <1>5 DEF vars, driveVars, judgeVars, linkVars, vmState, guestState, DInv,
              HoldsPhase, JudgeTypes, BeliefCatchesUp, AckIsLast, Acked,
              Positions, AskedOnce, HeldQuiet, Placed, TurnNeverCut, Runs
<1>6. QED
  BY <1>2, <1>3, <1>4, <1>5 DEF DriveNext

\* While a turn is in flight its VM runs, and on one host only: the verdict the
\* driver pauses on is true of the guest, whatever is still on the wire
\* (driver.rs:8-11, drain.rs, quiesce.rs).
THEOREM TurnsAreNeverCut == DriveSpec => []TurnNeverCut
<1>1. DriveInit => DInv
  BY DriveInitHolds
<1>2. DInv /\ [DriveNext]_vars => DInv'
  BY DriveStepKeeps
<1>3. DInv => TurnNeverCut
  BY DEF DInv
<1>4. QED
  BY <1>1, <1>2, <1>3, PTL DEF DriveSpec

-----------------------------------------------------------------------------
(* What drive returns.                                                     *)

\* What each end of the drive has left, and what leads to it.
Ending ==
  /\ effect # "none" => outcome = "none"
  /\ effect = "cancel_drain" => inbox \in {<<>>, <<"DrainRequest">>}
  /\ effect = "cleanup" => ~gate /\ inbox = <<>>
  /\ outcome = "completed" =>
       source = "gone" /\ target = "running" /\ ~gate /\ inbox = <<>>
  /\ outcome = "aborted" =>
       /\ source = "running" /\ target = "none"
       /\ inbox \in {<<>>, <<"DrainCancel">>,
                     <<"DrainRequest", "DrainCancel">>}
       /\ inbox = <<>> => ~gate

\* What the inbox can hold: a request, its cancel, and what is left of them.
LEMMA Mail ==
  /\ Tail(<<"DrainCancel">>) = <<>> /\ Tail(<<"DrainRequest">>) = <<>>
  /\ Tail(<<"DrainRequest", "DrainCancel">>) = <<"DrainCancel">>
  /\ Append(<<>>, "DrainCancel") = <<"DrainCancel">>
  /\ Append(<<"DrainRequest">>, "DrainCancel") =
       <<"DrainRequest", "DrainCancel">>
  /\ Head(<<"DrainCancel">>) = "DrainCancel"
  /\ Head(<<"DrainRequest">>) = "DrainRequest"
  /\ Head(<<"DrainRequest", "DrainCancel">>) = "DrainRequest"
<1>1. Tail(<<"DrainCancel">>) = <<>> /\ Tail(<<"DrainRequest">>) = <<>>
  OBVIOUS
<1>2. Tail(<<"DrainRequest", "DrainCancel">>) = <<"DrainCancel">>
  OBVIOUS
<1>3. Append(<<>>, "DrainCancel") = <<"DrainCancel">>
  OBVIOUS
<1>4. Append(<<"DrainRequest">>, "DrainCancel") =
       <<"DrainRequest", "DrainCancel">>
  <2> DEFINE S == {"DrainRequest", "DrainCancel"}
             s == Append(<<"DrainRequest">>, "DrainCancel")
             t == <<"DrainRequest", "DrainCancel">>
  <2>1. <<"DrainRequest">> \in Seq(S)
    OBVIOUS
  <2>2. Len(<<"DrainRequest">>) = 1 /\ <<"DrainRequest">>[1] = "DrainRequest"
    OBVIOUS
  <2>3. /\ s \in Seq(S) /\ Len(s) = 2
        /\ s[1] = "DrainRequest" /\ s[2] = "DrainCancel"
    BY <2>1, <2>2, Appended
  <2>4. t \in Seq(S)
    OBVIOUS
  <2>5. Len(t) = 2 /\ t[1] = "DrainRequest" /\ t[2] = "DrainCancel"
    OBVIOUS
  <2> HIDE DEF s, t, S
  <2>6. \A i \in 1..2 : s[i] = t[i]
    BY <2>3, <2>5
  <2>7. s = t
    BY <2>3, <2>4, <2>5, <2>6, SeqEqual
  <2>8. QED
    BY <2>7 DEF s, t
<1>5. Head(<<"DrainCancel">>) = "DrainCancel"
  OBVIOUS
<1>6. Head(<<"DrainRequest">>) = "DrainRequest"
  OBVIOUS
<1>7. Head(<<"DrainRequest", "DrainCancel">>) = "DrainRequest"
  OBVIOUS
<1>8. QED
  BY <1>1, <1>2, <1>3, <1>4, <1>5, <1>6, <1>7

\* A gate that is shut at the end has its cancel on the way.
LEMMA EndingOpens == ASSUME Ending PROVE OutcomeIsTrue
<1>1. CASE inbox = <<>>
  BY <1>1 DEF Ending, OutcomeIsTrue, Opens
<1>2. CASE inbox = <<"DrainCancel">>
  BY <1>2 DEF Ending, OutcomeIsTrue, Opens
<1>3. CASE inbox = <<"DrainRequest", "DrainCancel">>
  BY <1>3 DEF Ending, OutcomeIsTrue, Opens
<1>4. QED
  BY <1>1, <1>2, <1>3 DEF Ending, OutcomeIsTrue

\* The guest reads what is under way; turns and signals leave the end alone.
LEMMA GuestKeepsEnding == ASSUME DInv, Ending, GuestStep PROVE Ending'
<1> USE DEF driveVars, judgeVars, linkVars, vmState, guestState
<1>1. CASE StartTurn \/ EndTurn
  BY <1>1 DEF StartTurn, EndTurn, Ending
<1>2. CASE TakeRequest
  <2>1. /\ UNCHANGED <<driveVars, vmState>> /\ inbox' = Tail(inbox)
        /\ inbox # <<>> /\ Head(inbox) = "DrainRequest"
    BY <1>2 DEF TakeRequest
  <2>2. effect # "cleanup" /\ outcome # "completed"
    BY <2>1 DEF Ending
  <2>3. effect = "cancel_drain" => inbox' \in {<<>>, <<"DrainRequest">>}
    BY <2>1 DEF Ending
  <2>4. outcome = "aborted" => inbox = <<"DrainRequest", "DrainCancel">>
    BY <2>1, Mail DEF Ending
  <2>5. outcome = "aborted" => inbox' = <<"DrainCancel">>
    BY <2>1, <2>4, Mail
  <2>6. QED
    BY <2>1, <2>2, <2>3, <2>5 DEF Ending
<1>3. CASE TakeCancel
  <2>1. /\ UNCHANGED <<driveVars, vmState>> /\ inbox' = Tail(inbox)
        /\ inbox # <<>> /\ Head(inbox) = "DrainCancel" /\ gate' = FALSE
    BY <1>3 DEF TakeCancel
  <2>2. effect \notin {"cancel_drain", "cleanup"} /\ outcome # "completed"
    BY <2>1 DEF Ending
  <2>3. outcome = "aborted" => inbox = <<"DrainCancel">>
    BY <2>1, Mail DEF Ending
  <2>4. outcome = "aborted" => inbox' = <<>>
    BY <2>1, <2>3, Mail
  <2>5. QED
    BY <2>1, <2>2, <2>4 DEF Ending
<1>4. QED
  BY <1>1, <1>2, <1>3 DEF GuestStep

\* Each call of the executor, and its failure.
LEMMA DriveKeepsEnding == ASSUME DInv, Ending, DriveStep PROVE Ending'
<1> USE DEF driveVars, judgeVars, linkVars, vmState, guestState
<1>1. CASE RequestDrain \/ DrainQuiescent \/ DrainBusy \/ DrainFails
  BY <1>1 DEF RequestDrain, DrainQuiescent, DrainBusy, DrainFails, Judging,
              DInv, AskedOnce, Ending
<1>2. CASE Done("cancel_drain", CancelDrain, "aborted", "none")
  <2>1. /\ effect = "cancel_drain" /\ effect' = "none"
        /\ outcome' = "aborted" /\ inbox' = Append(inbox, "DrainCancel")
        /\ UNCHANGED <<source, target, gate>>
    BY <1>2 DEF Done, CancelDrain
  <2>2. /\ inbox' \in {<<"DrainCancel">>, <<"DrainRequest", "DrainCancel">>}
        /\ inbox' # <<>>
    <3>1. CASE inbox = <<>>
      BY <2>1, <3>1, Mail
    <3>2. CASE inbox = <<"DrainRequest">>
      BY <2>1, <3>2, Mail
    <3>3. QED
      BY <2>1, <3>1, <3>2 DEF Ending
  <2>3. QED
    BY <2>1, <2>2 DEF DInv, Placed, Ending
<1>3. CASE \/ Done("snapshot", SnapshotVm, "snapshotting", "transfer")
           \/ Done("transfer", TransferVm, "transferring", "restore")
           \/ Done("restore", RestoreVm, "restoring", "cutover")
  BY <1>3 DEF Done, Ending
<1>4. CASE Done("cutover", CutoverVm, "cutover", "cleanup")
  BY <1>4 DEF Done, CutoverVm, DInv, HeldQuiet, Ending
<1>5. CASE Done("cleanup", CleanupVm, "cleanup", "none")
  BY <1>5 DEF Done, CleanupVm, DInv, Placed, Ending
<1>6. CASE effect' = "none" /\ outcome' = "error"
  BY <1>6 DEF Ending
<1>7. QED
  BY <1>1, <1>2, <1>3, <1>4, <1>5, <1>6 DEF DriveStep, Busy, Committing,
                                           Fails

\* The coordinator's steps move neither host nor gate.
LEMMA StepKeepsEnding ==
  ASSUME DInv, Ending, [DriveNext]_vars
  PROVE  Ending'
<1>1. CASE Evidence
  BY <1>1 DEF Evidence, HearGuest, TakeSample, SyncStorage, driveVars,
              linkVars, vmState, guestState, Ending
<1>2. CASE UNCHANGED vars
  BY <1>2 DEF vars, driveVars, linkVars, vmState, guestState, Ending
<1>3. QED
  BY <1>1, <1>2, GuestKeepsEnding, DriveKeepsEnding DEF DriveNext

\* A migration drive calls completed has moved, released its guest and ended
\* the source; one it calls aborted is where it was, and its guest opens its
\* gate when it has read what is under way (driver.rs:63-91).
THEOREM OutcomesAreTrue == DriveSpec => []OutcomeIsTrue
<1>1. DriveInit => DInv /\ Ending
  BY DriveInitHolds DEF DriveInit, Ending
<1>2. DInv /\ Ending /\ [DriveNext]_vars => (DInv /\ Ending)'
  BY DriveStepKeeps, StepKeepsEnding
<1>3. Ending => OutcomeIsTrue
  BY EndingOpens
<1>4. QED
  BY <1>1, <1>2, <1>3, PTL DEF DriveSpec

-----------------------------------------------------------------------------
(* The window.                                                             *)

\* Readings that are cool up to the newest one are as many as the history
\* counts, or fewer: the window slides by one, and never grows past Samples.
CalmCovers ==
  /\ coord \in Coordinators /\ calm \in 0..Samples
  /\ Samples > 0 =>
       /\ Len(coord.recent) <= Samples
       /\ \A i \in 1..Len(coord.recent) :
            (\A j \in i..Len(coord.recent) : coord.recent[j]) =>
              calm >= Len(coord.recent) - i + 1

\* A window that is full and quiet has been quiet for as long.
LEMMA FullWindowIsEarned ==
  ASSUME CalmCovers, Verdict(coord) = "Quiescent"
  PROVE  Samples > 0 /\ calm = Samples
<1>1. InfraQuiet(coord)
  BY DEF Verdict
<1>2. /\ Samples > 0 /\ Samples \in Nat /\ Len(coord.recent) = Samples
      /\ \A i \in 1..Len(coord.recent) : coord.recent[i]
  BY <1>1, SamplesAssumption DEF InfraQuiet
<1>3. calm >= Len(coord.recent) - 1 + 1
  BY <1>2 DEF CalmCovers
<1>4. QED
  BY <1>2, <1>3 DEF CalmCovers

\* One more reading: the window is what it was, one shorter if it was full,
\* and the reading.
LEMMA WindowSlides ==
  ASSUME NEW w \in Seq(BOOLEAN), NEW cool \in BOOLEAN, Samples > 0,
         Len(w) <= Samples
  PROVE  LET v == Append(Slide(w), cool)
             d == IF Len(w) = Samples THEN 1 ELSE 0 IN
         /\ v \in Seq(BOOLEAN) /\ Len(w) \in Nat
         /\ Len(v) = Len(w) + 1 - d /\ Len(v) <= Samples
         /\ v[Len(v)] = cool
         /\ \A k \in 1..Len(v) - 1 : v[k] = w[k + d]
<1> DEFINE v == Append(Slide(w), cool)
           d == IF Len(w) = Samples THEN 1 ELSE 0
<1>1. Len(w) \in Nat /\ Samples \in Nat
  BY LenProperties, SamplesAssumption
<1>2. /\ Slide(w) \in Seq(BOOLEAN) /\ Len(Slide(w)) = Len(w) - d
      /\ \A k \in 1..Len(Slide(w)) : Slide(w)[k] = w[k + d]
  <2>1. CASE Len(w) = Samples
    <3>1. w # <<>>
      BY <1>1, <2>1
    <3>2. QED
      BY <1>1, <2>1, <3>1, Taken DEF Slide
  <2>2. CASE Len(w) # Samples
    <3>1. Slide(w) = w /\ d = 0
      BY <2>2 DEF Slide
    <3>2. \A k \in 1..Len(w) : w[k] = w[k + d]
      BY <1>1, <3>1
    <3>3. QED
      BY <1>1, <3>1, <3>2
  <2>3. QED
    BY <2>1, <2>2
<1>3. /\ v \in Seq(BOOLEAN) /\ Len(v) = Len(Slide(w)) + 1
      /\ \A k \in 1..Len(Slide(w)) : v[k] = Slide(w)[k]
      /\ v[Len(Slide(w)) + 1] = cool
  BY <1>2, Appended
<1>4. QED
  BY <1>1, <1>2, <1>3

\* The window and the history count the same samples.
LEMMA CalmKept ==
  ASSUME DInv, CalmCovers, [DriveNext]_vars
  PROVE  CalmCovers'
<1> USE DEF driveVars, judgeVars, linkVars, vmState, guestState
<1>1. CASE UNCHANGED judgeVars
  BY <1>1 DEF CalmCovers
<1>2. CASE HearGuest
  <2>1. /\ coord' \in Coordinators /\ coord'.recent = coord.recent
        /\ calm' = calm
    <3>1. /\ coord' = ObserveGuest(coord, Head(wire)) /\ calm' = calm
          /\ Head(wire) \in Signals
      BY <1>2, Taken DEF HearGuest, DInv, JudgeTypes
    <3>2. coord \in Coordinators
      BY DEF CalmCovers
    <3>3. \E g, b \in BOOLEAN :
            coord' = [coord EXCEPT !.gated = g, !.inFlight = b]
      <4>1. CASE Head(wire) = "TurnStarted"
        <5>1. coord' = [coord EXCEPT !.gated = coord.gated, !.inFlight = TRUE]
          BY <3>1, <3>2, <4>1 DEF ObserveGuest, Coordinators
        <5>2. QED
          BY <3>2, <5>1 DEF Coordinators
      <4>2. CASE Head(wire) = "TurnEnded"
        <5>1. coord' =
                [coord EXCEPT !.gated = coord.gated, !.inFlight = FALSE]
          BY <3>1, <3>2, <4>2 DEF ObserveGuest, Coordinators
        <5>2. QED
          BY <3>2, <5>1 DEF Coordinators
      <4>3. CASE Head(wire) = "AckIdle"
        <5>1. coord' = [coord EXCEPT !.gated = TRUE, !.inFlight = FALSE]
          BY <3>1, <4>3 DEF ObserveGuest
        <5>2. QED
          BY <5>1
      <4>4. CASE Head(wire) = "AckBusy"
        <5>1. coord' = [coord EXCEPT !.gated = TRUE, !.inFlight = TRUE]
          BY <3>1, <4>4 DEF ObserveGuest
        <5>2. QED
          BY <5>1
      <4>5. QED
        BY <3>1, <4>1, <4>2, <4>3, <4>4 DEF Signals, Acks
    <3>4. QED
      BY <3>1, <3>2, <3>3 DEF Coordinators
  <2>2. QED
    BY <2>1 DEF CalmCovers
<1>3. ASSUME NEW caught \in BOOLEAN, SyncStorage(caught)
      PROVE  CalmCovers'
  <2>1. /\ coord' \in Coordinators /\ coord'.recent = coord.recent
        /\ calm' = calm
    BY <1>3 DEF SyncStorage, CalmCovers, Coordinators, ObserveStorage
  <2>2. QED
    BY <2>1 DEF CalmCovers
<1>4. ASSUME NEW cool \in BOOLEAN, NEW quiet \in BOOLEAN,
             TakeSample(cool, quiet)
      PROVE  CalmCovers'
  <2> DEFINE w == coord.recent
             d == IF Len(w) = Samples THEN 1 ELSE 0
  <2>1. w \in Seq(BOOLEAN) /\ Samples \in Nat /\ Len(w) \in Nat
    BY SamplesAssumption, LenProperties DEF CalmCovers, Coordinators
  <2>2. coord' \in Coordinators /\ coord'.recent = Append(Slide(w), cool)
    <3>1. coord' = ObserveInfra(coord, cool, quiet)
      BY <1>4 DEF TakeSample
    <3>2. QED
      BY <3>1, WindowTypes DEF CalmCovers, Coordinators, ObserveInfra
  <2>3. /\ calm' = IF ~cool THEN 0
                   ELSE IF calm < Samples THEN calm + 1 ELSE calm
        /\ calm' \in 0..Samples
    BY <1>4, <2>1 DEF TakeSample, CalmCovers
  <2>4. ASSUME Samples > 0
        PROVE  /\ Len(coord'.recent) <= Samples
               /\ \A i \in 1..Len(coord'.recent) :
                    (\A j \in i..Len(coord'.recent) : coord'.recent[j]) =>
                      calm' >= Len(coord'.recent) - i + 1
    <3> DEFINE v == coord'.recent
    <3>1. Len(w) <= Samples
      BY <2>4 DEF CalmCovers
    <3>2. /\ Len(v) = Len(w) + 1 - d /\ Len(v) <= Samples
          /\ v[Len(v)] = cool
          /\ \A k \in 1..Len(v) - 1 : v[k] = w[k + d]
      BY <2>1, <2>2, <2>4, <3>1, WindowSlides
    <3> d \in 0..1 /\ Len(v) \in Nat /\ Len(w) \in Nat
      BY <2>1, <3>2
    <3> HIDE DEF v, d
    <3>3. ASSUME NEW i \in 1..Len(v), \A j \in i..Len(v) : v[j]
          PROVE  calm' >= Len(v) - i + 1
      <4>1. cool
        <5>1. Len(v) \in i..Len(v)
          OBVIOUS
        <5>2. QED
          BY <3>2, <3>3, <5>1
      <4>2. CASE i = Len(v)
        BY <2>1, <2>3, <2>4, <3>2, <4>1, <4>2 DEF CalmCovers
      <4>3. CASE i < Len(v)
        <5>1. i + d \in 1..Len(w)
          BY <2>1, <3>2, <4>3
        <5>2. \A j \in i + d..Len(w) : w[j]
          <6> TAKE j \in i + d..Len(w)
          <6>1. j - d \in i..Len(v) /\ j - d \in 1..Len(v) - 1
            BY <2>1, <3>2, <4>3
          <6>2. v[j - d] = w[j - d + d] /\ j - d + d = j
            BY <2>1, <3>2, <6>1
          <6>3. QED
            BY <3>3, <6>1, <6>2
        <5>3. calm >= Len(w) - (i + d) + 1
          BY <2>4, <5>1, <5>2 DEF CalmCovers
        <5>4. calm \in 0..Samples
          BY DEF CalmCovers
        <5>5. QED
          BY <2>1, <2>3, <3>1, <3>2, <4>1, <4>3, <5>3, <5>4
      <4>4. QED
        BY <2>1, <3>2, <4>2, <4>3
    <3>4. QED
      BY <3>2, <3>3 DEF v
  <2>5. QED
    BY <2>2, <2>3, <2>4 DEF CalmCovers
<1>5. CASE RequestDrain
  <2>1. coord' = FreshCoordinator /\ calm' = 0
    BY <1>5 DEF RequestDrain
  <2>2. Len(FreshCoordinator.recent) = 0
    BY DEF FreshCoordinator
  <2>3. QED
    BY <2>1, <2>2, FreshTypes, SamplesAssumption DEF CalmCovers
<1>6. QED
  <2>1. CASE DriveStep
    BY <1>1, <1>5, <2>1 DEF DriveStep, DrainQuiescent, DrainBusy, DrainFails,
                           Busy, Committing, Done, Fails
  <2>2. CASE GuestStep
    BY <1>1, <2>2 DEF GuestStep, StartTurn, EndTurn, TakeRequest, TakeCancel
  <2>3. CASE Evidence
    BY <1>2, <1>3, <1>4, <2>3 DEF Evidence
  <2>4. QED
    BY <1>1, <2>1, <2>2, <2>3 DEF DriveNext, vars

\* The window and the gate together.
LEMMA VerdictMeans == ASSUME DInv, CalmCovers PROVE VerdictIsEarned
BY FullWindowIsEarned, VerdictIsTrue DEF VerdictIsEarned

\* A verdict of quiescence stands on as many cool readings in a row as the
\* thresholds ask for, the last one the newest (quiesce.rs, InfraLayer), and
\* while the drain waits on a guest that is gated and runs no turn, whatever
\* of its signals is still on the wire (AppLayer).
THEOREM VerdictsAreEarned == DriveSpec => []VerdictIsEarned
<1>1. DriveInit => CalmCovers
  <2> SUFFICES ASSUME DriveInit PROVE CalmCovers
    OBVIOUS
  <2>1. coord = FreshCoordinator /\ calm = 0
    BY DEF DriveInit
  <2>2. Len(FreshCoordinator.recent) = 0
    BY DEF FreshCoordinator
  <2>3. QED
    BY <2>1, <2>2, FreshTypes, SamplesAssumption DEF CalmCovers
<1>2. DriveInit => DInv
  BY DriveInitHolds
<1>3. /\ DInv /\ [DriveNext]_vars => DInv'
      /\ DInv /\ CalmCovers /\ [DriveNext]_vars => CalmCovers'
  BY DriveStepKeeps, CalmKept
<1>4. DInv /\ CalmCovers => VerdictIsEarned
  BY VerdictMeans
<1>5. QED
  BY <1>1, <1>2, <1>3, <1>4, PTL DEF DriveSpec

-----------------------------------------------------------------------------
(* Types.  The argument above carries most of them; the phase, the counter *)
(* of cool readings and the inbox are left.                                *)

RestTypes ==
  /\ phase \in F!Phases
  /\ calm \in 0..Samples
  /\ inbox \in Seq({"DrainRequest", "DrainCancel"})

\* The counter stops at the window's size, and only the driver writes to the
\* inbox.
LEMMA RestKept ==
  ASSUME RestTypes, [DriveNext]_vars
  PROVE  RestTypes'
<1> USE SamplesAssumption DEF RestTypes
<1>1. CASE GuestStep
  <2>1. UNCHANGED <<phase, calm>>
    BY <1>1 DEF GuestStep, StartTurn, EndTurn, TakeRequest, TakeCancel,
                driveVars, judgeVars
  <2>2. inbox' = inbox \/ (inbox # <<>> /\ inbox' = Tail(inbox))
    BY <1>1 DEF GuestStep, StartTurn, EndTurn, TakeRequest, TakeCancel
  <2> QED
    BY <2>1, <2>2
<1>2. CASE Evidence
  <2>1. UNCHANGED <<phase, inbox>>
    BY <1>2 DEF Evidence, HearGuest, TakeSample, SyncStorage, driveVars,
                linkVars
  <2>2. calm' \in 0..Samples
    BY <1>2 DEF Evidence, HearGuest, TakeSample, SyncStorage
  <2> QED
    BY <2>1, <2>2
<1>3. CASE DriveStep
  <2>1. CASE RequestDrain
    BY <2>1 DEF RequestDrain, F!Phases, F!Abortable
  <2>2. CASE DrainQuiescent \/ DrainBusy \/ DrainFails
    BY <2>2 DEF DrainQuiescent, DrainBusy, DrainFails, judgeVars, linkVars,
                F!Phases, F!Abortable
  <2>3. CASE Busy
    <3>1. phase' \in F!Phases /\ calm' = calm
      BY <2>3 DEF Busy, Done, Fails, judgeVars, F!Phases
    <3>2. inbox' = inbox \/ inbox' = Append(inbox, "DrainCancel")
      BY <2>3 DEF Busy, Done, Fails, CancelDrain, linkVars
    <3> QED
      BY <3>1, <3>2
  <2>4. CASE Committing
    <3>1. phase' \in F!Phases /\ calm' = calm
      BY <2>4 DEF Committing, Done, Fails, judgeVars, F!Phases, F!Committed
    <3>2. inbox' = inbox
      BY <2>4 DEF Committing, Done, Fails, SnapshotVm, TransferVm, RestoreVm,
                  CutoverVm, CleanupVm, linkVars
    <3> QED
      BY <3>1, <3>2
  <2> QED
    BY <1>3, <2>1, <2>2, <2>3, <2>4 DEF DriveStep
<1>4. CASE UNCHANGED vars
  BY <1>4 DEF vars, driveVars, judgeVars, linkVars
<1> QED
  BY <1>1, <1>2, <1>3, <1>4 DEF DriveNext

\* All that is known of the driver.
DriveAll == DInv /\ Ending /\ CalmCovers /\ RestTypes

\* All of it holds before the drain.
LEMMA DriveAllInit == DriveInit => DriveAll
<1> SUFFICES ASSUME DriveInit PROVE DriveAll
  OBVIOUS
<1>1. DInv
  BY DriveInitHolds
<1>2. Ending
  BY DEF DriveInit, Ending
<1>3. CalmCovers
  <2>1. coord = FreshCoordinator /\ calm = 0
    BY DEF DriveInit
  <2>2. Len(FreshCoordinator.recent) = 0
    BY DEF FreshCoordinator
  <2> QED
    BY <2>1, <2>2, FreshTypes, SamplesAssumption DEF CalmCovers
<1>4. RestTypes
  BY SamplesAssumption DEF DriveInit, RestTypes, F!Phases, F!Abortable
<1> QED
  BY <1>1, <1>2, <1>3, <1>4 DEF DriveAll

\* And every step keeps it.
LEMMA DriveAllKept == DriveAll /\ [DriveNext]_vars => DriveAll'
BY DriveStepKeeps, StepKeepsEnding, CalmKept, RestKept DEF DriveAll

\* What the driver and its executor are typed as, and the three promises.
LEMMA DriveAllMeans ==
  DriveAll => DriveTypes /\ TurnNeverCut /\ OutcomeIsTrue /\ VerdictIsEarned
<1> SUFFICES ASSUME DriveAll
             PROVE  DriveTypes /\ TurnNeverCut /\ OutcomeIsTrue
                      /\ VerdictIsEarned
  OBVIOUS
<1>1. DriveTypes
  BY DEF DriveAll, DInv, HoldsPhase, JudgeTypes, RestTypes, DriveTypes
<1>2. TurnNeverCut
  BY DEF DriveAll, DInv
<1>3. OutcomeIsTrue
  BY EndingOpens DEF DriveAll
<1>4. VerdictIsEarned
  BY VerdictMeans DEF DriveAll
<1> QED
  BY <1>1, <1>2, <1>3, <1>4

============================================================================
