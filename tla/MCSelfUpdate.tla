----------------------------- MODULE MCSelfUpdate -----------------------------
(* Small instances of SelfUpdate for TLC. *)
EXTENDS SelfUpdate
=============================================================================
