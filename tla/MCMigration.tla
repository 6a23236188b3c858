---------------------------- MODULE MCMigration ----------------------------
(***************************************************************************)
(* Migration on small instances.  Hosts, VM ids and handlers are           *)
(* interchangeable wherever no liveness is checked.                        *)
(***************************************************************************)
EXTENDS Migration, TLC

NoIdx == -1

Symmetry ==
  Permutations(Hosts) \cup Permutations(Vm) \cup Permutations(Handlers)

============================================================================
