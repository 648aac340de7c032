------------------------------ MODULE MonitorTime ------------------------------
(***************************************************************************)
(* Exact monitor-on time from on/off transitions (store.go,                *)
(* MonitorOnSeconds), and what a day's aggregate counts (RollupDay).       *)
(* Times are integers; a transition or a sample is a record with a `ts'    *)
(* and the state `on' it reports.                                          *)
(***************************************************************************)
EXTENDS Integers, FiniteSets, SequencesExt

\* The rows of a window, half open as in the queries (ts >= from AND ts < to).
Window(rows, from, to) == {r \in rows : from <= r.ts /\ r.ts < to}

\* ORDER BY ts (which is unique): the i-th row has i - 1 rows before it.
ByTime(evs) ==
    [i \in 1 .. Cardinality(evs) |->
        CHOOSE e \in evs : Cardinality({f \in evs : f.ts < e.ts}) = i - 1]

UpTo(evs, t) == {e \in evs : e.ts <= t}
Between(evs, from, to) == {e \in evs : from < e.ts /\ e.ts < to}

\* The state the last of some transitions leaves, off without one.
StateAfter(evs) == IF evs = {} THEN 0 ELSE ByTime(evs)[Cardinality(evs)].on

\* Mutant: the state a window starts in is always off.
StateAtOff(evs, from) == 0

\* Mutant: a transition exactly at the start of the window is not seen.
StateBefore(evs, from) == StateAfter(UpTo(evs, from - 1))

\* The state at `from': of the last transition at or before it.
StateAt(evs, from) == StateAfter(UpTo(evs, from))

\* Mutant: the interval between two transitions is taken with the wrong sign.
IntegrateReversed(evs, from, to, state) ==
    LET Step(acc, e) == [state |-> e.on, prev |-> e.ts,
                         on |-> acc.on + acc.state * (acc.prev - e.ts)]
        end == FoldLeft(Step, [state |-> state, prev |-> from, on |-> 0], ByTime(evs))
    IN  end.on + end.state * (to - end.prev)

\* Integrate transitions inside (from, to), then the open tail.
Integrate(evs, from, to, state) ==
    LET Step(acc, e) == [state |-> e.on, prev |-> e.ts,
                         on |-> acc.on + acc.state * (e.ts - acc.prev)]
        end == FoldLeft(Step, [state |-> state, prev |-> from, on |-> 0], ByTime(evs))
    IN  end.on + end.state * (to - end.prev)

MonitorOnSeconds(evs, from, to) ==
    IF to <= from THEN 0
    ELSE Integrate(Between(evs, from, to), from, to, StateAt(evs, from))

-----------------------------------------------------------------------------
\* Reference: count the instants at which the latest transition so far says on.
OnAt(evs, t) ==
    \E e \in evs : /\ e.ts <= t /\ e.on = 1
                   /\ \A f \in evs : f.ts <= t => f.ts <= e.ts

OnInstants(evs, from, to) == Cardinality({t \in from .. to - 1 : OnAt(evs, t)})
=============================================================================
