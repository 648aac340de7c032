------------------------------ MODULE MCRollups ------------------------------
(* Small instances of Rollups for TLC. *)
EXTENDS Rollups

HandlerSymmetry == Permutations(Handlers)
=============================================================================
