------------------------------ MODULE MCGuest ------------------------------
(* Bounds for model checking Guest: see the .cfg files. *)
EXTENDS Guest
============================================================================
