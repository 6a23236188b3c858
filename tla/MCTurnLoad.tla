----------------------------- MODULE MCTurnLoad ----------------------------
(***************************************************************************)
(* Two turns, one before the freeze can come and one that it may catch.    *)
(***************************************************************************)
EXTENDS TurnLoad

MCTimes == <<0, 2>>

============================================================================
