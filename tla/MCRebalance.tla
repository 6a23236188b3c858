---------------------------- MODULE MCRebalance ----------------------------
(***************************************************************************)
(* Three hosts whose TSC frequencies are pairwise within the tolerance but *)
(* for the outer two, and three guests of two sizes.                       *)
(***************************************************************************)
EXTENDS Rebalance

CONSTANTS g1, g2, g3

MCClass ==
  [h \in Hosts |->
     [cpu |-> "xeon", kernel |-> "6.1", tsc_khz |-> 2000000 + 400 * h]]
MCSize == [g \in Guests |-> IF g = g1 THEN 2 ELSE 1]
MCOther == [h \in Hosts |-> IF h = 1 THEN 1 ELSE 0]

============================================================================
