----------------------------- MODULE MCUploadPath -----------------------------
(* Small instances of UploadPath for TLC. *)
EXTENDS UploadPath, TLC

ConnSymmetry == Permutations(Conns)
=============================================================================
