--------------------------- MODULE MonitorTimeProofs ---------------------------
(***************************************************************************)
(* The walk over a window's transitions (MonitorOnSeconds) counts exactly  *)
(* the instants at which the monitor was on, for every finite table of     *)
(* transitions with unique times and every window.                         *)
(***************************************************************************)
EXTENDS MonitorTime, FiniteSetTheorems, WellFoundedInduction, TLAPS

Transitions == [ts : Int, on : {0, 1}]

\* (device_id, ts) is the primary key.
UniqueTimes(evs) == \A e, f \in evs : e.ts = f.ts => e = f

Table(evs) == evs \in SUBSET Transitions /\ IsFiniteSet(evs) /\ UniqueTimes(evs)

-----------------------------------------------------------------------------
(* Least and greatest elements. *)

LEMMA LeastNat ==
    ASSUME NEW T \in SUBSET Nat, T # {}
    PROVE  \E n \in T : \A m \in T : n <= m
<1> DEFINE R == OpToRel(<, Nat)
<1>1. IsWellFoundedOn(R, Nat)
  BY NatLessThanWellFounded
<1>2. R = {ss \in Nat \X Nat : ss[1] < ss[2]}
  BY DEF OpToRel
<1> HIDE DEF R
<1>3. PICK n \in T : \A m \in T : ~ (<<m, n>> \in R)
  BY <1>1, WFMin
<1>4. ASSUME NEW m \in T, m < n PROVE FALSE
  <2> DEFINE ss == <<m, n>>
  <2>1. ss \in Nat \X Nat /\ ss[1] = m /\ ss[2] = n
    OBVIOUS
  <2>2. ss \in Nat \X Nat /\ ss[1] < ss[2]
    BY <1>4, <2>1
  <2> HIDE DEF ss
  <2>3. ss \in R
    BY <1>2, <2>2
  <2>4. QED
    BY <1>3, <2>3 DEF ss
<1>5. QED
  BY <1>3, <1>4

LEMMA MaxOfIndices ==
    ASSUME NEW n \in Nat, NEW s \in SUBSET (1 .. n), s # {}
    PROVE  Max(s) \in s /\ \A i \in s : i <= Max(s)
<1> DEFINE T == {n - i : i \in s}
<1>1. T \in SUBSET Nat /\ T # {}
  <2>1. \A i \in s : n - i \in Nat
    OBVIOUS
  <2>2. QED
    BY <2>1
<1>2. PICK k \in T : \A m \in T : k <= m
  BY <1>1, LeastNat
<1>3. PICK x \in s : k = n - x
  BY <1>2
<1>4. \A y \in s : x >= y
  <2> SUFFICES ASSUME NEW y \in s PROVE x >= y
    OBVIOUS
  <2>1. k <= n - y
    BY <1>2
  <2>2. QED
    BY <1>3, <2>1
<1>5. Max(s) \in s /\ \A y \in s : Max(s) >= y
  BY <1>4 DEF Max
<1>6. QED
  BY <1>5

-----------------------------------------------------------------------------
(* The order.  A transition's place is one more than the number of those before.  *)

Earlier(evs, e) == {f \in evs : f.ts < e.ts}

LEMMA BeforeCounts ==
    ASSUME NEW evs, Table(evs), NEW e \in evs
    PROVE  /\ Cardinality(evs) \in Nat
           /\ Cardinality(Earlier(evs, e)) \in 0 .. Cardinality(evs) - 1
           /\ \A f \in evs : f.ts < e.ts =>
                  Cardinality(Earlier(evs, f)) < Cardinality(Earlier(evs, e))
<1>1. IsFiniteSet(evs) /\ \A f \in evs : f.ts \in Int
  BY DEF Table, Transitions
<1>2. ASSUME NEW S, NEW T, IsFiniteSet(T), S \subseteq T, NEW x \in T, x \notin S
      PROVE  /\ Cardinality(S) \in Nat /\ Cardinality(T) \in Nat
             /\ Cardinality(S) < Cardinality(T)
  <2>1. /\ IsFiniteSet(S) /\ Cardinality(S) <= Cardinality(T)
        /\ Cardinality(S) = Cardinality(T) => S = T
    BY <1>2, FS_Subset
  <2>2. S # T
    BY <1>2
  <2>3. Cardinality(S) \in Nat /\ Cardinality(T) \in Nat
    BY <1>2, <2>1, FS_CardinalityType
  <2>4. QED
    BY <2>1, <2>2, <2>3
<1>3. /\ Cardinality(evs) \in Nat /\ Cardinality(Earlier(evs, e)) \in Nat
      /\ Cardinality(Earlier(evs, e)) < Cardinality(evs)
  <2>1. Earlier(evs, e) \subseteq evs /\ e \notin Earlier(evs, e)
    BY <1>1 DEF Earlier
  <2>2. QED
    BY <1>1, <1>2, <2>1
<1>4. ASSUME NEW f \in evs, f.ts < e.ts
      PROVE  Cardinality(Earlier(evs, f)) < Cardinality(Earlier(evs, e))
  <2>1. /\ Earlier(evs, f) \subseteq Earlier(evs, e)
        /\ f \in Earlier(evs, e) /\ f \notin Earlier(evs, f)
    BY <1>1, <1>4 DEF Earlier
  <2>2. IsFiniteSet(Earlier(evs, e))
    BY <1>1, FS_Subset DEF Earlier
  <2>3. QED
    BY <1>2, <2>1, <2>2
<1>5. QED
  BY <1>3, <1>4

LEMMA PlacesFilled ==
    ASSUME NEW evs, Table(evs), NEW i \in 1 .. Cardinality(evs)
    PROVE  \E e \in evs : Cardinality(Earlier(evs, e)) = i - 1
<1> DEFINE n == Cardinality(evs)
           places == 0 .. n - 1
           place == [e \in evs |-> Cardinality(Earlier(evs, e))]
<1>1. n \in Nat /\ IsFiniteSet(evs)
  BY FS_CardinalityType DEF Table
<1>2. IsFiniteSet(places) /\ Cardinality(places) = n
  <2>1. ASSUME NEW m \in Nat PROVE IsFiniteSet(0 .. m - 1) /\ Cardinality(0 .. m - 1) = m
    <3>1. 0 \in Int /\ m - 1 \in Int
      OBVIOUS
    <3>2. /\ IsFiniteSet(0 .. m - 1)
          /\ Cardinality(0 .. m - 1) = IF 0 > m - 1 THEN 0 ELSE m - 1 - 0 + 1
      BY ONLY <3>1, FS_Interval
    <3>3. QED
      BY <3>2
  <2>2. QED
    BY <1>1, <2>1
<1>3. place \in [evs -> places]
  BY BeforeCounts
<1>4. ASSUME NEW e \in evs, NEW f \in evs, place[e] = place[f]
      PROVE  e = f
  <2>1. e.ts \in Int /\ f.ts \in Int
    BY DEF Table, Transitions
  <2>2. ~(e.ts < f.ts) /\ ~(f.ts < e.ts)
    BY <1>4, BeforeCounts
  <2>3. QED
    BY <2>1, <2>2 DEF Table, UniqueTimes
<1>5. place \in Injection(evs, places)
  BY <1>3, <1>4 DEF Injection, IsInjective
<1>6. place \in Surjection(evs, places)
  <2> HIDE DEF place, places
  <2>1. QED
    BY <1>2, <1>5, FS_Injection
<1>7. i - 1 \in places
  BY <1>1
<1>8. PICK e \in evs : place[e] = i - 1
  BY <1>6, <1>7 DEF Surjection
<1>9. QED
  BY <1>8

\* ByTime lists every transition once, in the order of their times.
LEMMA ByTimeSorted ==
    ASSUME NEW evs, Table(evs)
    PROVE  /\ Cardinality(evs) \in Nat
           /\ ByTime(evs) \in [1 .. Cardinality(evs) -> evs]
           /\ \A i, j \in 1 .. Cardinality(evs) :
                  i < j => ByTime(evs)[i].ts < ByTime(evs)[j].ts
           /\ \A e \in evs : \E i \in 1 .. Cardinality(evs) : ByTime(evs)[i] = e
<1> DEFINE n == Cardinality(evs)
           q == ByTime(evs)
<1>1. n \in Nat
  BY FS_CardinalityType DEF Table
<1>2. q = [i \in 1 .. n |-> CHOOSE e \in evs : Cardinality(Earlier(evs, e)) = i - 1]
  BY DEF ByTime, Earlier
<1> HIDE DEF q
<1>3. ASSUME NEW i \in 1 .. n
      PROVE  q[i] \in evs /\ Cardinality(Earlier(evs, q[i])) = i - 1
  BY <1>2, PlacesFilled
<1>4. q \in [1 .. n -> evs]
  BY <1>2, <1>3
<1>5. \A e \in evs : e.ts \in Int
  BY DEF Table, Transitions
<1>6. ASSUME NEW i \in 1 .. n, NEW j \in 1 .. n, i < j
      PROVE  q[i].ts < q[j].ts
  <2>1. Cardinality(Earlier(evs, q[i])) < Cardinality(Earlier(evs, q[j]))
    BY <1>1, <1>3, <1>6
  <2>2. q[i].ts \in Int /\ q[j].ts \in Int
    BY <1>3, <1>5
  <2>3. ~(q[j].ts < q[i].ts)
    <3>1. q[j].ts < q[i].ts => Cardinality(Earlier(evs, q[j])) < Cardinality(Earlier(evs, q[i]))
      BY <1>3, BeforeCounts
    <3>2. QED
      BY <1>1, <1>3, <1>6, <3>1
  <2>4. q[i].ts # q[j].ts
    <3>1. q[i].ts = q[j].ts => Earlier(evs, q[i]) = Earlier(evs, q[j])
      BY DEF Earlier
    <3>2. QED
      BY <1>1, <1>3, <1>6, <3>1
  <2>5. QED
    BY <2>2, <2>3, <2>4
<1>7. ASSUME NEW e \in evs PROVE \E i \in 1 .. n : q[i] = e
  <2> DEFINE i == Cardinality(Earlier(evs, e)) + 1
  <2>1. i \in 1 .. n /\ Cardinality(Earlier(evs, e)) = i - 1
    BY <1>1, BeforeCounts
  <2> HIDE DEF i
  <2>2. q[i] \in evs /\ Cardinality(Earlier(evs, q[i])) = i - 1
    BY <1>3, <2>1
  <2>3. ~(q[i].ts < e.ts) /\ ~(e.ts < q[i].ts)
    <3>1. Cardinality(Earlier(evs, q[i])) = Cardinality(Earlier(evs, e))
      BY <2>1, <2>2
    <3>2. Cardinality(Earlier(evs, e)) \in Nat
      BY <2>1, BeforeCounts
    <3>3. QED
      BY <2>2, <3>1, <3>2, BeforeCounts
  <2>4. q[i] = e
    BY <1>5, <2>2, <2>3 DEF Table, UniqueTimes
  <2>5. QED
    BY <2>1, <2>4
<1>8. QED
  BY <1>1, <1>4, <1>6, <1>7 DEF q

-----------------------------------------------------------------------------
(* Instants.  After some transitions the monitor is on if the latest of them says *)
(* so, or if it was on at the start and they are all still to come.               *)

OnWith(evs, state, t) == OnAt(evs, t) \/ (state = 1 /\ \A e \in evs : t < e.ts)

OnFrom(evs, state, from, to) == {t \in from .. to - 1 : OnWith(evs, state, t)}

LEMMA IntervalCount ==
    ASSUME NEW a \in Int, NEW b \in Int, a <= b
    PROVE  IsFiniteSet(a .. b - 1) /\ Cardinality(a .. b - 1) = b - a
<1>1. b - 1 \in Int
  OBVIOUS
<1>2. /\ IsFiniteSet(a .. b - 1)
      /\ Cardinality(a .. b - 1) = IF a > b - 1 THEN 0 ELSE b - 1 - a + 1
  BY ONLY <1>1, a \in Int, FS_Interval
<1>3. QED
  BY <1>2

Steady(evs, state, from, to, on) ==
    \A t \in from .. to - 1 : OnWith(evs, state, t) <=> on = 1

\* A stretch in which the state does not change adds all of its instants or none.
LEMMA Stretch ==
    ASSUME NEW evs, NEW state, NEW from \in Int, NEW mid \in Int, NEW to \in Int,
           from <= mid, mid <= to, NEW on \in {0, 1},
           Steady(evs, state, mid, to, on)
    PROVE  /\ Cardinality(OnFrom(evs, state, from, mid)) \in Nat
           /\ Cardinality(OnFrom(evs, state, from, to))
                  = Cardinality(OnFrom(evs, state, from, mid)) + on * (to - mid)
<1> DEFINE first == OnFrom(evs, state, from, mid)
           rest == mid .. to - 1
<1>1. IsFiniteSet(first) /\ Cardinality(first) \in Nat
  <2>1. first \subseteq from .. mid - 1 /\ IsFiniteSet(from .. mid - 1)
    BY IntervalCount DEF OnFrom
  <2>2. QED
    BY <2>1, FS_Subset, FS_CardinalityType
<1>2. CASE on = 0
  <2>1. OnFrom(evs, state, from, to) = first
    BY <1>2 DEF OnFrom, Steady
  <2>2. QED
    BY <1>1, <1>2, <2>1
<1>3. CASE on = 1
  <2>1. OnFrom(evs, state, from, to) = first \cup rest
    BY <1>3 DEF OnFrom, Steady
  <2>2. first \cap rest = {}
    BY DEF OnFrom
  <2>3. IsFiniteSet(rest) /\ Cardinality(rest) = to - mid
    BY IntervalCount
  <2> HIDE DEF first, rest
  <2>4. Cardinality(first \cup rest)
            = Cardinality(first) + Cardinality(rest) - Cardinality(first \cap rest)
    BY <1>1, <2>3, FS_Union
  <2>5. Cardinality(first \cap rest) = 0
    BY <2>2, FS_EmptySet
  <2>6. QED
    BY <1>1, <1>3, <2>1, <2>3, <2>4, <2>5 DEF first
<1>4. QED
  BY <1>2, <1>3

-----------------------------------------------------------------------------
(* The walk.  What it has reached after the transitions at the places s of q is   *)
(* the state the last of them leaves, its time, and the instants on so far.       *)

Inside(q, n, from) ==
    /\ n \in Nat /\ from \in Int
    /\ q \in [1 .. n -> Transitions]
    /\ \A i, j \in 1 .. n : i < j => q[i].ts < q[j].ts
    /\ \A i \in 1 .. n : from < q[i].ts

Upto(q, s) == {q[i] : i \in s}

Reached(q, from, state, s) ==
    LET prev == IF s = {} THEN from ELSE q[Max(s)].ts
    IN  [state |-> IF s = {} THEN state ELSE q[Max(s)].on, prev |-> prev,
         on |-> Cardinality(OnFrom(Upto(q, s), state, from, prev))]

LEMMA LastPlace ==
    ASSUME NEW q, NEW n, NEW from, Inside(q, n, from),
           NEW s \in SUBSET (1 .. n), s # {}
    PROVE  /\ Max(s) \in s
           /\ \A i \in s : /\ i \in Int /\ q[i].ts \in Int /\ q[i].on \in {0, 1}
                           /\ from < q[i].ts
                           /\ i # Max(s) => i < Max(s) /\ q[i].ts < q[Max(s)].ts
<1>1. n \in Nat /\ s \subseteq 1 .. n
  BY DEF Inside
<1>2. Max(s) \in s /\ \A i \in s : i <= Max(s)
  BY <1>1, MaxOfIndices
<1>3. ASSUME NEW i \in s
      PROVE  /\ i \in Int /\ i \in 1 .. n /\ q[i].ts \in Int /\ q[i].on \in {0, 1}
             /\ from < q[i].ts
  BY <1>1 DEF Inside, Transitions
<1>4. ASSUME NEW i \in s, i # Max(s)
      PROVE  i < Max(s) /\ q[i].ts < q[Max(s)].ts
  <2>1. /\ i \in Int /\ i \in 1 .. n /\ Max(s) \in Int /\ Max(s) \in 1 .. n
        /\ i <= Max(s)
    BY <1>2, <1>3
  <2>2. i < Max(s)
    BY <1>4, <2>1
  <2>3. QED
    BY <2>1, <2>2 DEF Inside
<1>5. QED
  BY <1>2, <1>3, <1>4

LEMMA ReachedTypes ==
    ASSUME NEW q, NEW n, NEW from, Inside(q, n, from), NEW state \in {0, 1},
           NEW s \in SUBSET (1 .. n)
    PROVE  /\ Reached(q, from, state, s).state \in {0, 1}
           /\ Reached(q, from, state, s).prev \in Int
           /\ from <= Reached(q, from, state, s).prev
           /\ Reached(q, from, state, s).prev = from
                \/ \E i \in s : Reached(q, from, state, s).prev = q[i].ts
<1>1. CASE s = {}
  BY <1>1 DEF Reached, Inside
<1>2. CASE s # {}
  <2> DEFINE m == Max(s)
             all == Reached(q, from, state, s)
  <2>1. all.state = q[m].on /\ all.prev = q[m].ts
    BY <1>2 DEF Reached
  <2>2. q[m].on \in {0, 1} /\ q[m].ts \in Int /\ from < q[m].ts /\ m \in s
    BY <1>2, LastPlace
  <2>3. from \in Int
    BY DEF Inside
  <2> HIDE DEF m, all
  <2>4. all.state \in {0, 1} /\ all.prev \in Int
    BY <2>1, <2>2
  <2>5. from < all.prev
    BY <2>1, <2>2
  <2>6. \E i \in s : all.prev = q[i].ts
    BY <2>1, <2>2
  <2>7. from <= all.prev
    BY <2>3, <2>4, <2>5
  <2>8. QED
    BY <2>4, <2>6, <2>7 DEF all
<1>3. QED
  BY <1>1, <1>2

\* From there on, without other transitions, the state is the one reached.
LEMMA StateReached ==
    ASSUME NEW q, NEW n, NEW from, Inside(q, n, from), NEW state \in {0, 1},
           NEW s \in SUBSET (1 .. n),
           NEW t \in Int, Reached(q, from, state, s).prev <= t
    PROVE  OnWith(Upto(q, s), state, t) <=> Reached(q, from, state, s).state = 1
<1>1. CASE s = {}
  <2>1. Upto(q, s) = {} /\ Reached(q, from, state, s).state = state
    BY <1>1 DEF Upto, Reached
  <2>2. QED
    BY <2>1 DEF OnWith, OnAt
<1>2. CASE s # {}
  <2> DEFINE m == Max(s)
  <2>1. m \in s
    BY <1>2, LastPlace
  <2>2. /\ \A i \in s : q[i].ts \in Int /\ q[i].on \in {0, 1}
        /\ \A i \in s : i # m => q[i].ts < q[m].ts
    BY <1>2, LastPlace
  <2>3. q[m].ts <= t /\ Reached(q, from, state, s).state = q[m].on
    BY <1>2 DEF Reached
  <2> HIDE DEF m
  <2>4. q[m] \in Upto(q, s) /\ ~(t < q[m].ts)
    <3>1. q[m].ts \in Int
      BY <2>1, <2>2
    <3>2. q[m] \in Upto(q, s)
      BY <2>1 DEF Upto
    <3>3. QED
      BY <2>3, <3>1, <3>2
  <2>5. CASE q[m].on = 1
    <3>1. \A f \in Upto(q, s) : f.ts <= q[m].ts
      BY <2>1, <2>2 DEF Upto
    <3>2. OnAt(Upto(q, s), t)
      BY <2>3, <2>4, <2>5, <3>1 DEF OnAt
    <3>3. QED
      BY <2>3, <2>5, <3>2 DEF OnWith
  <2>6. ASSUME q[m].on # 1, OnWith(Upto(q, s), state, t) PROVE FALSE
    <3>1. OnAt(Upto(q, s), t)
      BY <2>4, <2>6 DEF OnWith
    <3>2. PICK e \in Upto(q, s) : e.on = 1 /\ \A f \in Upto(q, s) : f.ts <= t => f.ts <= e.ts
      BY <3>1 DEF OnAt
    <3>3. PICK i \in s : e = q[i]
      BY <3>2 DEF Upto
    <3>4. q[m].ts <= q[i].ts
      BY <2>3, <2>4, <3>2, <3>3
    <3>5. i = m
      BY <2>1, <2>2, <3>4
    <3>6. QED
      BY <2>6, <3>2, <3>3, <3>5
  <2>7. QED
    BY <2>3, <2>5, <2>6
<1>3. QED
  BY <1>1, <1>2

Advance(acc, e) ==
    [state |-> e.on, prev |-> e.ts, on |-> acc.on + acc.state * (e.ts - acc.prev)]

\* One more transition: the stretch before it is counted in the state reached.
LEMMA ReachedNext ==
    ASSUME NEW q, NEW n, NEW from, Inside(q, n, from), NEW state \in {0, 1},
           NEW s \in SUBSET (1 .. n), s # {}
    PROVE  Reached(q, from, state, s)
               = Advance(Reached(q, from, state, s \ {Max(s)}), q[Max(s)])
<1> DEFINE m == Max(s)
           r == s \ {m}
           to == q[m].ts
           before == Reached(q, from, state, r)
<1>1. /\ m \in s /\ from \in Int /\ to \in Int /\ from < to
      /\ \A i \in r : q[i].ts \in Int /\ q[i].ts < to
  BY LastPlace DEF Inside
<1>2. Reached(q, from, state, s) =
          [state |-> q[m].on, prev |-> to, on |-> Cardinality(OnFrom(Upto(q, s), state, from, to))]
  BY DEF Reached
<1>3. /\ before.state \in {0, 1} /\ before.prev \in Int /\ from <= before.prev
      /\ before.prev = from \/ \E i \in r : before.prev = q[i].ts
  <2>1. r \in SUBSET (1 .. n)
    OBVIOUS
  <2> HIDE DEF r
  <2>2. QED
    BY <2>1, ReachedTypes
<1>4. before.on = Cardinality(OnFrom(Upto(q, r), state, from, before.prev))
  BY DEF Reached
<1> HIDE DEF m, to, before
<1>5. OnFrom(Upto(q, s), state, from, to) = OnFrom(Upto(q, r), state, from, to)
  <2> SUFFICES ASSUME NEW t \in from .. to - 1
               PROVE  OnWith(Upto(q, s), state, t) <=> OnWith(Upto(q, r), state, t)
    BY DEF OnFrom
  <2>1. Upto(q, s) = Upto(q, r) \cup {q[m]}
    BY <1>1 DEF Upto
  <2>2. t \in Int /\ t < q[m].ts /\ ~(q[m].ts <= t)
    BY <1>1 DEF to
  <2>3. QED
    BY <2>1, <2>2 DEF OnWith, OnAt
<1>6. before.prev <= to
  BY <1>1, <1>3
<1>7. Steady(Upto(q, r), state, before.prev, to, before.state)
  <2> SUFFICES ASSUME NEW t \in before.prev .. to - 1
               PROVE  OnWith(Upto(q, r), state, t) <=> before.state = 1
    BY DEF Steady
  <2>1. t \in Int /\ before.prev <= t /\ r \in SUBSET (1 .. n)
    BY <1>1, <1>3
  <2>2. QED
    BY <2>1, StateReached DEF before
<1>8. Cardinality(OnFrom(Upto(q, r), state, from, to))
          = before.on + before.state * (to - before.prev)
  BY <1>1, <1>3, <1>4, <1>6, <1>7, Stretch
<1>9. QED
  BY <1>2, <1>5, <1>8 DEF Advance, before, m, to

IsWalk(g, q, base) ==
    g = [s \in SUBSET DOMAIN q |->
            IF s = {} THEN base ELSE Advance(g[s \ {Max(s)}], q[Max(s)])]

Walk(q, base) == CHOOSE g : IsWalk(g, q, base)

WalkStart(state, from) == [state |-> state, prev |-> from, on |-> 0]

\* The fold is defined by recursion on the places; by induction on how many they
\* are, it reaches what it should.
LEMMA WalkReaches ==
    ASSUME NEW q, NEW n, NEW from, Inside(q, n, from), NEW state \in {0, 1}
    PROVE  Walk(q, WalkStart(state, from))[1 .. n] = Reached(q, from, state, 1 .. n)
<1> DEFINE places == SUBSET (1 .. n)
           goal == [s \in places |-> Reached(q, from, state, s)]
           g == Walk(q, WalkStart(state, from))
<1>1. n \in Nat /\ from \in Int /\ DOMAIN q = 1 .. n
  BY DEF Inside
<1>2. Reached(q, from, state, {}) = WalkStart(state, from)
  <2>1. OnFrom(Upto(q, {}), state, from, from) = {}
    BY <1>1 DEF OnFrom
  <2>2. QED
    BY <2>1, FS_EmptySet DEF Reached, WalkStart
<1>3. ASSUME NEW s \in places, s # {}
      PROVE  /\ s \ {Max(s)} \in places
             /\ Reached(q, from, state, s)
                    = Advance(Reached(q, from, state, s \ {Max(s)}), q[Max(s)])
  <2>1. s \ {Max(s)} \in places /\ s \in SUBSET (1 .. n)
    OBVIOUS
  <2>2. Reached(q, from, state, s)
            = Advance(Reached(q, from, state, s \ {Max(s)}), q[Max(s)])
    BY ONLY <1>3, <2>1, Inside(q, n, from), state \in {0, 1}, ReachedNext
  <2>3. QED
    BY <2>1, <2>2
<1>4. IsWalk(goal, q, WalkStart(state, from))
  BY <1>1, <1>2, <1>3 DEF IsWalk
<1>5. IsWalk(g, q, WalkStart(state, from))
  BY <1>4 DEF Walk
<1>6. \A s \in places : g[s] = IF s = {} THEN WalkStart(state, from)
                               ELSE Advance(g[s \ {Max(s)}], q[Max(s)])
  <2> HIDE DEF g
  <2>1. g = [s \in places |-> IF s = {} THEN WalkStart(state, from)
                              ELSE Advance(g[s \ {Max(s)}], q[Max(s)])]
    BY <1>1, <1>5 DEF IsWalk
  <2>2. QED
    BY <2>1
<1> HIDE DEF g
<1>7. SUFFICES ASSUME NEW odd \in places, g[odd] # Reached(q, from, state, odd)
               PROVE  FALSE
  <2>1. 1 .. n \in places
    OBVIOUS
  <2>2. QED
    BY <2>1 DEF g
<1> DEFINE wrong == {s \in places : g[s] # Reached(q, from, state, s)}
           sizes == {Cardinality(s) : s \in wrong}
<1>8. \A s \in places : IsFiniteSet(s) /\ Cardinality(s) \in Nat
  <2>1. 1 \in Int /\ n \in Int
    BY <1>1
  <2>2. IsFiniteSet(1 .. n)
    BY ONLY <2>1, FS_Interval
  <2>3. QED
    BY <2>2, FS_Subset, FS_CardinalityType
<1>9. sizes \in SUBSET Nat /\ sizes # {}
  BY <1>7, <1>8
<1>10. PICK least \in sizes : \A k \in sizes : least <= k
  BY <1>9, LeastNat
<1>11. PICK s \in wrong : Cardinality(s) = least
  BY <1>10
<1>12. s # {}
  BY <1>2, <1>6, <1>11
<1>13. Max(s) \in s
  BY <1>12, LastPlace
<1>14. Cardinality(s \ {Max(s)}) < Cardinality(s)
  <2>1. IsFiniteSet(s) /\ s \ {Max(s)} \in SUBSET s /\ s \ {Max(s)} # s
    BY <1>8, <1>13
  <2>2. /\ Cardinality(s \ {Max(s)}) <= Cardinality(s)
        /\ Cardinality(s) # Cardinality(s \ {Max(s)})
    BY <2>1, FS_Subset
  <2>3. Cardinality(s) \in Nat /\ Cardinality(s \ {Max(s)}) \in Nat
    BY <1>3, <1>8, <1>12
  <2>4. QED
    BY <2>2, <2>3
<1>15. s \ {Max(s)} \notin wrong
  <2>1. Cardinality(s \ {Max(s)}) \in Nat /\ Cardinality(s) \in Nat
    BY <1>3, <1>8, <1>12
  <2>2. QED
    BY <1>10, <1>11, <1>14, <2>1
<1>16. g[s \ {Max(s)}] = Reached(q, from, state, s \ {Max(s)})
  BY <1>3, <1>12, <1>15
<1>17. g[s] = Reached(q, from, state, s)
  BY <1>3, <1>6, <1>12, <1>16
<1>18. QED
  BY <1>11, <1>17

\* What Integrate returns: the instants at which the monitor was on, given the state
\* the window begins in.
LEMMA IntegrateCounts ==
    ASSUME NEW evs, Table(evs), NEW from \in Int, NEW to \in Int, from < to,
           \A e \in evs : from < e.ts /\ e.ts < to,
           NEW state \in {0, 1}
    PROVE  Integrate(evs, from, to, state) = Cardinality(OnFrom(evs, state, from, to))
<1> DEFINE n == Cardinality(evs)
           q == ByTime(evs)
           places == 1 .. n
           end == Reached(q, from, state, places)
<1>1. /\ n \in Nat /\ q \in [1 .. n -> evs]
      /\ \A i, j \in 1 .. n : i < j => q[i].ts < q[j].ts
      /\ \A e \in evs : \E i \in 1 .. n : q[i] = e
  BY ByTimeSorted
<1>2. Integrate(evs, from, to, state) =
          LET last == Walk(q, WalkStart(state, from))[DOMAIN q]
          IN  last.on + last.state * (to - last.prev)
  BY DEF Integrate, FoldLeft, MapThenFoldSet, Walk, IsWalk, Advance, WalkStart
<1> HIDE DEF q, n
<1>3. Inside(q, n, from)
  <2>1. evs \subseteq Transitions
    BY DEF Table
  <2>2. QED
    BY <1>1, <2>1 DEF Inside
<1>4. Upto(q, 1 .. n) = evs
  BY <1>1 DEF Upto
<1>5. DOMAIN q = 1 .. n
  BY <1>1
<1>6. Integrate(evs, from, to, state) = end.on + end.state * (to - end.prev)
  BY <1>2, <1>3, <1>5, WalkReaches
<1>7. places \in SUBSET (1 .. n) /\ Upto(q, places) = evs
  BY <1>4
<1>8. places \subseteq 1 .. n
  OBVIOUS
<1> HIDE DEF places
<1>9. /\ end.state \in {0, 1} /\ end.prev \in Int /\ from <= end.prev
      /\ end.prev = from \/ \E i \in places : end.prev = q[i].ts
  BY <1>3, <1>7, ReachedTypes
<1>10. end.prev <= to
  <2>1. \A i \in places : q[i].ts < to
    BY <1>1, <1>8
  <2> HIDE DEF end
  <2>2. end.prev = from \/ end.prev < to
    BY <1>9, <2>1
  <2>3. QED
    BY <1>9, <2>2
<1>11. Steady(evs, state, end.prev, to, end.state)
  <2> SUFFICES ASSUME NEW t \in end.prev .. to - 1
               PROVE  OnWith(evs, state, t) <=> end.state = 1
    BY DEF Steady
  <2>1. t \in Int /\ end.prev <= t
    BY <1>9
  <2>2. QED
    BY <1>3, <1>7, <2>1, StateReached
<1>12. end.on = Cardinality(OnFrom(evs, state, from, end.prev))
  BY <1>7 DEF Reached
<1> HIDE DEF end
<1>13. QED
  BY <1>6, <1>9, <1>10, <1>11, <1>12, Stretch

\* The state the last of some transitions leaves.
LEMMA StateAfterIs ==
    ASSUME NEW evs, Table(evs)
    PROVE  /\ StateAfter(evs) \in {0, 1}
           /\ StateAfter(evs) = 1 <=> \E e \in evs : e.on = 1 /\ \A f \in evs : f.ts <= e.ts
<1>1. CASE evs = {}
  BY <1>1 DEF StateAfter
<1>2. CASE evs # {}
  <2> DEFINE n == Cardinality(evs)
             q == ByTime(evs)
  <2>1. /\ n \in Nat /\ q \in [1 .. n -> evs]
        /\ \A i, j \in 1 .. n : i < j => q[i].ts < q[j].ts
        /\ \A e \in evs : \E i \in 1 .. n : q[i] = e
    BY ByTimeSorted
  <2>2. StateAfter(evs) = q[n].on
    BY <1>2 DEF StateAfter
  <2> HIDE DEF q, n
  <2>3. n \in 1 .. n
    BY <1>2, <2>1
  <2>4. q[n] \in evs /\ \A e \in evs : e.ts \in Int /\ e.on \in {0, 1}
    BY <2>1, <2>3 DEF Table, Transitions
  <2>5. ASSUME NEW e \in evs, e # q[n] PROVE e.ts < q[n].ts
    <3>1. PICK i \in 1 .. n : q[i] = e
      BY <2>1
    <3>2. i < n
      BY <2>1, <2>5, <3>1
    <3>3. QED
      BY <2>1, <2>3, <3>1, <3>2
  <2>6. \A f \in evs : f.ts <= q[n].ts
    BY <2>4, <2>5
  <2>7. ASSUME NEW e \in evs, \A f \in evs : f.ts <= e.ts PROVE e = q[n]
    <3>1. q[n].ts <= e.ts /\ q[n].ts \in Int /\ e.ts \in Int
      BY <2>4, <2>7
    <3>2. ~(e.ts < q[n].ts)
      BY <3>1
    <3>3. QED
      BY <2>5, <3>2
  <2>8. QED
    BY <2>2, <2>4, <2>6, <2>7
<1>3. QED
  BY <1>1, <1>2

\* At an instant of a window, the table says on exactly if its transitions inside say
\* so, begun in the state the earlier ones leave.
LEMMA InsideAndBefore ==
    ASSUME NEW evs, Table(evs), NEW from \in Int, NEW to \in Int, from < to,
           NEW t \in from .. to - 1
    PROVE  OnAt(evs, t) <=> OnWith(Between(evs, from, to), StateAt(evs, from), t)
<1> DEFINE inside == Between(evs, from, to)
           before == UpTo(evs, from)
<1>1. /\ \A e \in evs : e.ts \in Int
      /\ t \in Int /\ from <= t /\ t < to
  BY DEF Table, Transitions
<1>2. Table(before)
  BY FS_Subset DEF Table, UpTo, UniqueTimes
<1>3. StateAt(evs, from) = 1 <=> \E e \in before : e.on = 1 /\ \A f \in before : f.ts <= e.ts
  BY <1>2, StateAfterIs DEF StateAt
<1>4. /\ inside \subseteq evs /\ before \subseteq evs
      /\ \A e \in evs : e.ts <= t => e \in inside \/ e \in before
      /\ \A e \in inside : from < e.ts
      /\ \A e \in before : e.ts <= from
  BY <1>1 DEF Between, UpTo
<1> HIDE DEF inside, before
<1>5. CASE \E g \in inside : g.ts <= t
  <2>1. PICK g \in inside : g.ts <= t
    BY <1>5
  <2>2. \A e \in evs : e.ts <= t => e \in inside \/ e.ts < g.ts
    BY <1>1, <1>4, <2>1
  <2>3. OnWith(inside, StateAt(evs, from), t) <=> OnAt(inside, t)
    BY <1>1, <1>4, <2>1 DEF OnWith
  <2>4. ASSUME OnAt(inside, t) PROVE OnAt(evs, t)
    <3>1. PICK e \in inside : /\ e.ts <= t /\ e.on = 1
                              /\ \A f \in inside : f.ts <= t => f.ts <= e.ts
      BY <2>4 DEF OnAt
    <3>2. ASSUME NEW f \in evs, f.ts <= t PROVE f.ts <= e.ts
      <4>1. g.ts <= e.ts /\ e \in evs /\ g \in evs
        BY <1>4, <2>1, <3>1
      <4>2. f \in inside \/ f.ts < g.ts
        BY <2>2, <3>2
      <4>3. CASE f \in inside
        BY <3>1, <3>2, <4>3
      <4>4. CASE f.ts < g.ts
        BY <1>1, <4>1, <4>4
      <4>5. QED
        BY <4>2, <4>3, <4>4
    <3>3. QED
      BY <1>4, <3>1, <3>2 DEF OnAt
  <2>5. ASSUME OnAt(evs, t) PROVE OnAt(inside, t)
    <3>1. PICK e \in evs : /\ e.ts <= t /\ e.on = 1
                           /\ \A f \in evs : f.ts <= t => f.ts <= e.ts
      BY <2>5 DEF OnAt
    <3>2. g.ts <= e.ts /\ g \in evs
      BY <1>4, <2>1, <3>1
    <3>3. e \in inside
      BY <1>1, <2>2, <3>1, <3>2
    <3>4. QED
      BY <1>4, <3>1, <3>3 DEF OnAt
  <2>6. QED
    BY <2>3, <2>4, <2>5 DEF inside
<1>6. CASE \A g \in inside : ~(g.ts <= t)
  <2>1. \A e \in evs : e.ts <= t <=> e \in before
    BY <1>1, <1>4, <1>6
  <2>2. OnAt(evs, t) <=> \E e \in before : e.on = 1 /\ \A f \in before : f.ts <= e.ts
    BY <1>4, <2>1 DEF OnAt
  <2>3. OnWith(inside, StateAt(evs, from), t) <=> StateAt(evs, from) = 1
    <3>1. \A g \in inside : t < g.ts
      BY <1>1, <1>4, <1>6
    <3>2. ~OnAt(inside, t)
      BY <1>6 DEF OnAt
    <3>3. QED
      BY <3>1, <3>2 DEF OnWith
  <2>4. QED
    BY <1>3, <2>2, <2>3 DEF inside
<1>7. QED
  BY <1>5, <1>6

\* MonitorOnSeconds is exact: whatever precedes the window, repeats a state or falls on
\* a border of it, the integral is the number of instants at which the monitor was on
\* (store.go MonitorOnSeconds).
THEOREM IntegralExact ==
    ASSUME NEW evs, Table(evs), NEW from \in Int, NEW to \in Int
    PROVE  MonitorOnSeconds(evs, from, to) = OnInstants(evs, from, to)
<1>1. CASE to <= from
  <2>1. from .. to - 1 = {}
    BY <1>1
  <2>2. {t \in from .. to - 1 : OnAt(evs, t)} = {}
    BY <2>1
  <2>3. QED
    BY <1>1, <2>2, FS_EmptySet DEF MonitorOnSeconds, OnInstants
<1>2. CASE from < to
  <2> DEFINE inside == Between(evs, from, to)
             state == StateAt(evs, from)
  <2>1. Table(inside) /\ \A e \in inside : from < e.ts /\ e.ts < to
    BY FS_Subset DEF Table, Between, UniqueTimes
  <2>2. state \in {0, 1}
    <3>1. Table(UpTo(evs, from))
      BY FS_Subset DEF Table, UpTo, UniqueTimes
    <3>2. QED
      BY <3>1, StateAfterIs DEF StateAt
  <2>3. MonitorOnSeconds(evs, from, to) = Integrate(inside, from, to, state)
    BY <1>2 DEF MonitorOnSeconds
  <2>4. {t \in from .. to - 1 : OnAt(evs, t)} = OnFrom(inside, state, from, to)
    BY <1>2, InsideAndBefore DEF OnFrom
  <2> HIDE DEF inside, state
  <2>5. Integrate(inside, from, to, state) = Cardinality(OnFrom(inside, state, from, to))
    BY <1>2, <2>1, <2>2, IntegrateCounts
  <2>6. QED
    BY <2>3, <2>4, <2>5 DEF OnInstants
<1>3. QED
  BY <1>1, <1>2
=============================================================================
