------------------------------ MODULE RateLimiter ------------------------------
(***************************************************************************)
(* The cap on enrollment attempts (server.go rateLimiter, handleEnroll),   *)
(* for one client address: the addresses share nothing.                    *)
(*                                                                         *)
(* A handler reads the clock, then takes the limiter's lock; others may    *)
(* read it later and take the lock earlier, so the stamps reach the log of *)
(* hits out of order.  Attempts are named by the order in which they came; *)
(* a hit is an admitted attempt, with its stamp.  The program's list of    *)
(* stamps is read as a set of hits: it never uses their order.             *)
(***************************************************************************)
EXTENDS Integers, FiniteSets

CONSTANTS
    Limit, WindowSecs, \* rateLimiter.max and .window
    MaxDelay,       \* between reading the clock and taking the lock
    MaxAttempts,    \* bound on attempts
    MaxClock        \* bound on time

ASSUME LimiterAssumption ==
    /\ Limit \in Nat \ {0} /\ WindowSecs \in Nat \ {0}
    /\ MaxDelay \in 0 .. WindowSecs - 1
    /\ MaxAttempts \in Nat /\ MaxClock \in Nat

VARIABLES
    clock,
    attempts,       \* how many came so far
    waiting,        \* those with a stamp and not yet the lock
    hits,           \* rateLimiter.hits of the address
    \* History, never read by an action:
    admitted, refused

limiterVars == <<clock, attempts, waiting, hits, admitted, refused>>

Attempts == [id : 1 .. MaxAttempts, at : 0 .. MaxClock]

LimiterInit ==
    /\ clock = 0 /\ attempts = 0
    /\ waiting = {} /\ hits = {} /\ admitted = {} /\ refused = {}

Since(t, S) == {h \in S : h.at > t}

Arrive ==
    /\ attempts < MaxAttempts
    /\ attempts' = attempts + 1
    /\ waiting' = waiting \cup {[id |-> attempts + 1, at |-> clock]}
    /\ UNCHANGED <<clock, hits, admitted, refused>>

\* Mutant: the limit is exceeded by one.
AllowOneMore(a) ==
    LET kept == Since(a.at - WindowSecs, hits)
    IN  /\ waiting' = waiting \ {a}
        /\ IF Cardinality(kept) > Limit
           THEN hits' = kept /\ refused' = refused \cup {a} /\ UNCHANGED admitted
           ELSE hits' = kept \cup {a} /\ admitted' = admitted \cup {a} /\ UNCHANGED refused
        /\ UNCHANGED <<clock, attempts>>

\* Mutant: a refused attempt counts against the next.
AllowCountsAll(a) ==
    LET kept == Since(a.at - WindowSecs, hits)
    IN  /\ waiting' = waiting \ {a}
        /\ hits' = kept \cup {a}
        /\ IF Cardinality(kept) >= Limit
           THEN refused' = refused \cup {a} /\ UNCHANGED admitted
           ELSE admitted' = admitted \cup {a} /\ UNCHANGED refused
        /\ UNCHANGED <<clock, attempts>>

\* allow: what is older than the window is forgotten, a refused attempt as well.
Allow(a) ==
    LET kept == Since(a.at - WindowSecs, hits)
    IN  /\ waiting' = waiting \ {a}
        /\ IF Cardinality(kept) >= Limit
           THEN hits' = kept /\ refused' = refused \cup {a} /\ UNCHANGED admitted
           ELSE hits' = kept \cup {a} /\ admitted' = admitted \cup {a} /\ UNCHANGED refused
        /\ UNCHANGED <<clock, attempts>>

\* The lock is held for as long as it takes to go through a few stamps.
PassSecond ==
    /\ clock < MaxClock
    /\ \A a \in waiting : clock < a.at + MaxDelay
    /\ clock' = clock + 1
    /\ UNCHANGED <<attempts, waiting, hits, admitted, refused>>

LimiterNext == Arrive \/ PassSecond \/ \E a \in waiting : Allow(a)

LimiterSpec == LimiterInit /\ [][LimiterNext]_limiterVars

-----------------------------------------------------------------------------
\* However attempts fall about the edges of a window and whatever the order in which
\* they get the lock, no WindowSecs - MaxDelay seconds admit more than Limit of them.
\* (A whole window may: a late stamp is held against the hits a newer one has left.)
CapHolds ==
    \A t \in -1 .. clock :
        Cardinality({h \in admitted : h.at > t /\ h.at <= t + WindowSecs - MaxDelay}) <= Limit

\* Nobody is locked out by attempts that were refused: a refusal has Limit admissions
\* behind it that are at most a window old.
RefusalHasCause ==
    \A r \in refused : Cardinality(Since(r.at - WindowSecs, admitted)) >= Limit
=============================================================================
