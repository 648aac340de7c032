------------------------------ MODULE MCProfile ------------------------------
(***************************************************************************)
(* Profile for TLC.  What becomes of the inventory and of the build is     *)
(* independent but for the order of the handler's statements: each         *)
(* behaviour varies one of them.  The budgets set which faults meet.       *)
(***************************************************************************)
EXTENDS Profile

Hardware(h, r, f) ==
    [hardware |-> h, restarts |-> r, failures |-> f, builds |-> {NoBuild}]
Build(r, f) ==
    [hardware |-> 0, restarts |-> r, failures |-> f, builds |-> Builds]

MCBudgets == {Hardware(1, 0, 2), Hardware(1, 1, 1), Hardware(2, 0, 1), Build(2, 2)}

\* An agent whose build varies has no collector.
MCInit == Init /\ (inv = None <=> left.builds = Builds)

MCFairSpec == MCInit /\ [][Next]_vars /\ Fairness
=============================================================================
