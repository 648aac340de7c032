------------------------------ MODULE MCRegistry ------------------------------
(* Small instances of Registry for TLC. *)
EXTENDS Registry, TLC

RegistrySymmetry == Permutations(Uuids) \cup Permutations(Computers)

\* Several computers and slots and a handler at once are out of reach.  Either one
\* slot's secret is copied to many computers, none of which reports, or one
\* computer enrolls and reports under several, with no time to lose.
Bounded ==
    \/ Cardinality(used) <= 1 /\ \A h \in Handlers : hs[h].stage = "free"
    \/ /\ now = 0 /\ \A c \in Computers : comp[c].tries <= 1
       /\ Cardinality({c \in Computers : comp[c] # NewComputer}) <= 1
=============================================================================
