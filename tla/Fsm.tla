-------------------------------- MODULE Fsm --------------------------------
(***************************************************************************)
(* What a migration promises (crates/proto/src/fsm.rs): the phases of the  *)
(* typestate Migration<S>, the one transition each has, and abort, which   *)
(* only the phases before the snapshot have.  A handle may be dropped in   *)
(* any phase, so nothing is promised to go on.                             *)
(***************************************************************************)
VARIABLE phase

Abortable == {"intent", "draining", "quiescent"}
Committed == {"snapshotting", "transferring", "restoring", "cutover",
              "cleanup"}
Phases == Abortable \cup Committed \cup {"aborted"}

Advance(from, to) == phase = from /\ phase' = to

Drain == Advance("intent", "draining")
Quiescent == Advance("draining", "quiescent")
Snapshot == Advance("quiescent", "snapshotting")
Transfer == Advance("snapshotting", "transferring")
Restore == Advance("transferring", "restoring")
Cutover == Advance("restoring", "cutover")
Cleanup == Advance("cutover", "cleanup")
Abort == \E from \in Abortable : Advance(from, "aborted")

Init == phase = "intent"

Next ==
  \/ Drain \/ Quiescent \/ Snapshot \/ Transfer \/ Restore \/ Cutover
  \/ Cleanup \/ Abort

Spec == Init /\ [][Next]_phase

============================================================================
