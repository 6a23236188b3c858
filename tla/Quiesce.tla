------------------------------ MODULE Quiesce ------------------------------
(***************************************************************************)
(* Quiescence, as hostd judges it (crates/hostd/src/quiesce.rs, drain.rs): *)
(* a coordinator folds what one drain attempt hears from the guest, from   *)
(* its infrastructure samples and from the storage sync into three layers, *)
(* and the verdict is quiescent when all three are quiet.  It is a pure    *)
(* fold; who feeds it, and when, is the business of module Drive.          *)
(*                                                                         *)
(* A CPU sample is reduced to whether it is below the threshold.           *)
(***************************************************************************)
EXTENDS Naturals, Sequences

CONSTANT Samples  \* InfraThresholds.samples

ASSUME SamplesAssumption == Samples \in Nat

Acks == {"AckIdle", "AckBusy"}
Signals == {"TurnStarted", "TurnEnded"} \cup Acks

Coordinators ==
  [gated : BOOLEAN, inFlight : BOOLEAN, recent : Seq(BOOLEAN),
   queuesQuiet : BOOLEAN, caughtUp : BOOLEAN]

\* DrainCoordinator::new: every layer starts active.
FreshCoordinator ==
  [gated |-> FALSE, inFlight |-> FALSE, recent |-> <<>>,
   queuesQuiet |-> FALSE, caughtUp |-> FALSE]

-----------------------------------------------------------------------------
(* The layers.                                                             *)

\* Mutant: an ack is taken for the end of the turn it names.
ObserveGuestAckEnds(c, m) ==
  CASE m = "TurnStarted" -> [c EXCEPT !.inFlight = TRUE]
    [] m = "TurnEnded" -> [c EXCEPT !.inFlight = FALSE]
    [] m = "AckIdle" -> [c EXCEPT !.gated = TRUE, !.inFlight = FALSE]
    [] m = "AckBusy" -> [c EXCEPT !.gated = TRUE, !.inFlight = FALSE]

\* observe_guest, and AppLayer under it.  DrainAck names the turn in flight.
ObserveGuest(c, m) ==
  CASE m = "TurnStarted" -> [c EXCEPT !.inFlight = TRUE]
    [] m = "TurnEnded" -> [c EXCEPT !.inFlight = FALSE]
    [] m = "AckIdle" -> [c EXCEPT !.gated = TRUE, !.inFlight = FALSE]
    [] m = "AckBusy" -> [c EXCEPT !.gated = TRUE, !.inFlight = TRUE]

AppQuiet(c) == c.gated /\ ~c.inFlight

\* The window makes room for one more; with no samples asked for there is
\* nothing to pop, and it grows.
Slide(w) == IF w # <<>> /\ Len(w) = Samples THEN Tail(w) ELSE w

\* Mutant: a full window keeps what it has.
ObserveInfraFull(c, cool, quiet) ==
  [c EXCEPT !.recent = IF Len(@) = Samples THEN @ ELSE Append(@, cool),
            !.queuesQuiet = quiet]

\* InfraLayer::record.
ObserveInfra(c, cool, quiet) ==
  [c EXCEPT !.recent = Append(Slide(@), cool), !.queuesQuiet = quiet]

\* InfraLayer::is_quiet.
InfraQuiet(c) ==
  /\ Samples > 0
  /\ Len(c.recent) = Samples
  /\ c.queuesQuiet
  /\ \A i \in 1..Len(c.recent) : c.recent[i]

ObserveStorage(c, caught) == [c EXCEPT !.caughtUp = caught]

StorageQuiet(c) == c.caughtUp

-----------------------------------------------------------------------------
(* The verdict.                                                            *)

\* QuiescenceReport::is_quiescent, DrainCoordinator::verdict.
Verdict(c) ==
  IF AppQuiet(c) /\ InfraQuiet(c) /\ StorageQuiet(c) THEN "Quiescent"
  ELSE "Busy"

============================================================================
