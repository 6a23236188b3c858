------------------------------ MODULE MCParts ------------------------------
(***************************************************************************)
(* Four components that share nothing: the typed migration of the          *)
(* rebalancer, the recorded lifecycle of a VM, the commands of the         *)
(* one-shot migration and the cycles of the restore benchmark.  A          *)
(* behaviour is one of them; the others stay where they begin, so the      *)
(* states are a sum and not a product.                                     *)
(***************************************************************************)
EXTENDS Drive, Lifecycle, OneShot, Restore

VARIABLE part

partVars == <<part, vars, vmVars, shotVars, cycleVars>>

Init ==
  /\ DriveInit /\ LifeInit /\ ShotInit /\ CycleInit
  /\ part \in {"drive", "life", "shot", "cycle"}
  /\ part # "cycle" => sock = [v \in Vms |-> "absent"]

InDrive == part = "drive" /\ UNCHANGED <<part, vmVars, shotVars, cycleVars>>
InLife == part = "life" /\ UNCHANGED <<part, vars, shotVars, cycleVars>>
InShot == part = "shot" /\ UNCHANGED <<part, vars, vmVars, cycleVars>>
InCycle == part = "cycle" /\ UNCHANGED <<part, vars, vmVars, shotVars>>

Next ==
  \/ InDrive /\ DriveNext
  \/ InLife /\ LifeNext
  \/ InShot /\ ShotNext
  \/ InCycle /\ CycleNext

\* ShotFairness and CycleFairness, whose steps are taken in their part alone.
Fairness ==
  /\ WF_partVars(InShot /\ SenderStep)
  /\ WF_partVars(InShot /\ ReceiverStep)
  /\ WF_partVars(InCycle /\ Bench)
  /\ \A v \in Vms :
       /\ WF_partVars(InCycle /\ (Listen(v) \/ ServerStep(v)))
       /\ \A t \in Threads : WF_partVars(InCycle /\ KernelStep(v, t))
  /\ WF_partVars(InCycle /\ pc = "writing"
                   /\ \E p \in Pages : Trap(live, "vmm", p))

Spec == Init /\ [][Next]_partVars /\ Fairness

\* All four keep their types.
TypeOK == DriveTypes /\ LifeTypes /\ ShotTypes /\ CycleTypes

\* PairEnds and BenchEnds, of the behaviours that are theirs: the two commands
\* of bin/migrate.rs end, and so does bin/migrate_bench.rs.
CommandsEnd ==
  /\ part = "shot" => PairEnds
  /\ part = "cycle" => BenchEnds

=============================================================================
