----------------------------- MODULE RollupsProofs -----------------------------
(***************************************************************************)
(* Theorems about Rollups, for every length of a day, window, skew of the  *)
(* clocks, set of handlers and number of failures and crashes.             *)
(***************************************************************************)
EXTENDS Rollups, MonitorTimeProofs

-----------------------------------------------------------------------------
(* Deletion.  A transaction that inserts, and the rollup's upsert, need the       *)
(* devices row (the foreign key); everything else leaves the tables alone.        *)

\* Once its row is gone, nothing of a device is written again (store.go DeleteDevice,
\* InsertSamples, InsertMonitorEvents, RollupDay), whatever was under way.
THEOREM DeletionIsFinal == Spec => []DeletedLeavesNothing
<1>1. Init => DeletedLeavesNothing
  BY DEF Init, DeletedLeavesNothing, Present
<1>2. DeletedLeavesNothing /\ [Next]_vars => DeletedLeavesNothing'
  <2> SUFFICES ASSUME DeletedLeavesNothing, [Next]_vars PROVE DeletedLeavesNothing'
    OBVIOUS
  <2>1. CASE UNCHANGED <<device, tables>>
    BY <2>1 DEF DeletedLeavesNothing, Present, tables
  <2>2. CASE Present /\ UNCHANGED device
    BY <2>2 DEF DeletedLeavesNothing, Present
  <2>3. ASSUME NEW h \in Handlers, InsertSamples(h) \/ InsertMonitorEvents(h)
        PROVE  DeletedLeavesNothing'
    <3>1. UNCHANGED device
      BY <2>3 DEF InsertSamples, InsertMonitorEvents
    <3>2. CASE ~Present
      <4>1. UNCHANGED tables
        BY <2>3, <3>2 DEF InsertSamples, InsertMonitorEvents, tables
      <4>2. QED
        BY <2>1, <3>1, <4>1
    <3>3. QED
      BY <2>2, <3>1, <3>2
  <2>4. CASE DeleteDevice
    BY <2>4 DEF DeleteDevice, DeletedLeavesNothing
  <2>5. CASE RollupWrite
    BY <2>2, <2>5 DEF RollupWrite
  <2>6. CASE Crash \/ ForgetDirtyDevice
    <3>1. UNCHANGED tables /\ (Present => Present')
      BY <2>6 DEF Crash, ForgetDirtyDevice, Present
    <3>2. QED
      BY <3>1 DEF DeletedLeavesNothing, Present, tables
  <2>7. QED
    BY <2>1, <2>3, <2>4, <2>5, <2>6
       DEF Next, Reading, PassTime, Receive, MarkDirty, IngestFails, RollupTick, RollupDay,
           RollupReadEvents, RollupFails, RollupDone, Restart, RestartBlind, vars, tables
<1>3. QED
  BY <1>1, <1>2, PTL DEF Spec

-----------------------------------------------------------------------------
(* Days. *)

LEMMA DayOfTime ==
    ASSUME NEW t \in Int, NEW d \in Int
    PROVE  /\ DayUTC(t) \in Int
           /\ DayUTC(t) = d <=> DayStart(d) <= t /\ t < DayStart(d) + DayLen
<1>1. DayLen \in Nat /\ DayLen > 0
  BY RollupAssumption
<1>2. DEFINE q == t \div DayLen
<1>3. q \in Int /\ q * DayLen <= t /\ t < q * DayLen + DayLen
  BY <1>1
<1>4. ASSUME NEW a \in Int, NEW b \in Int, a < b
      PROVE  a * DayLen + DayLen <= b * DayLen
  BY <1>1, <1>4
<1>5. ASSUME d * DayLen <= t, t < d * DayLen + DayLen
      PROVE  q = d
  <2> HIDE DEF q
  <2>1. ~(q < d)
    BY <1>1, <1>3, <1>4, <1>5
  <2>2. ~(d < q)
    BY <1>1, <1>3, <1>4, <1>5
  <2>3. QED
    BY <1>3, <2>1, <2>2
<1>6. QED
  BY <1>3, <1>5 DEF DayUTC, DayStart

LEMMA DaysInOrder ==
    ASSUME NEW t \in Int, NEW u \in Int, t <= u
    PROVE  DayUTC(t) <= DayUTC(u)
<1>1. DayLen \in Nat /\ DayLen > 0
  BY RollupAssumption
<1>2. /\ DayUTC(t) \in Int /\ DayUTC(u) \in Int
      /\ DayUTC(t) * DayLen <= t /\ u < DayUTC(u) * DayLen + DayLen
  BY DayOfTime DEF DayStart
<1>3. ASSUME NEW a \in Int, NEW b \in Int, a < b
      PROVE  a * DayLen + DayLen <= b * DayLen
  BY <1>1, <1>3
<1>4. ASSUME DayUTC(u) < DayUTC(t) PROVE FALSE
  <2>1. DayUTC(u) * DayLen + DayLen <= DayUTC(t) * DayLen
    BY <1>2, <1>3, <1>4
  <2>2. /\ DayUTC(u) * DayLen \in Int /\ DayUTC(t) * DayLen \in Int /\ DayLen \in Int
    BY <1>1, <1>2
  <2>3. QED
    BY <1>2, <2>1, <2>2
<1>5. QED
  BY <1>2, <1>4

-----------------------------------------------------------------------------
(* Types.  Rows are finitely many, of times the device has lived through, and so  *)
(* are their days.  A figure is a count or what MonitorOnSeconds returns.         *)

Past(t) == {r \in Row : Skew <= r.ts /\ r.ts < t + Skew}
Reported(rows, t) == rows \subseteq Past(t) /\ IsFiniteSet(rows)

Figures == Nat \cup {MonitorOnSeconds(evs, from, to) : evs \in SUBSET Row, from \in Int, to \in Int}
FigRec == [session : Figures, monitor : Figures, apps : Figures]

Request == [stage : {"free", "read", "half", "stored"}, samples : SUBSET Row,
            events : SUBSET Row, at : Nat, days : SUBSET Days]
Rollup == [pc : {"idle", "next", "events", "write"}, todo : SUBSET Days, day : Int,
           at : Nat, got : FigRec]

RowsInv ==
    /\ now \in 0 .. MaxTime
    /\ Reported(held, now) /\ Reported(heldEv, now)
    /\ Reported(samples, now) /\ Reported(events, now)
    /\ hs \in [Handlers -> Request]
    /\ \A h \in Handlers : Reported(hs[h].samples, now) /\ Reported(hs[h].events, now)
    /\ dirty \subseteq Days /\ missed \subseteq Days

RollInv ==
    /\ roll \in Rollup
    /\ stats \in [Days -> FigRec]
    /\ upTo \in [Days -> Int]
    /\ roll.pc \in {"events", "write"} => roll.day \in Days

LEMMA DaysAreInts == Days \subseteq Int
BY RollupAssumption, DayOfTime DEF Days

LEMMA ReportedDays ==
    ASSUME NEW rows, NEW t \in 0 .. MaxTime, Reported(rows, t)
    PROVE  DaysOf(rows) \subseteq Days
<1> SUFFICES ASSUME NEW r \in rows PROVE DayUTC(r.ts) \in Days
  BY DEF DaysOf
<1>1. r.ts \in Int /\ Skew <= r.ts /\ r.ts <= MaxTime + Skew
  BY RollupAssumption DEF Reported, Past, Row
<1>2. DayUTC(Skew) <= DayUTC(r.ts) /\ DayUTC(r.ts) <= DayUTC(MaxTime + Skew)
  BY <1>1, DaysInOrder, RollupAssumption
<1>3. DayUTC(r.ts) \in Int /\ DayUTC(Skew) \in Int /\ DayUTC(MaxTime + Skew) \in Int
  BY <1>1, DayOfTime, RollupAssumption
<1>4. QED
  BY <1>2, <1>3 DEF Days

LEMMA ReportedLater ==
    ASSUME NEW rows, NEW t \in Int, NEW u \in Int, t <= u, Reported(rows, t)
    PROVE  Reported(rows, u)
BY RollupAssumption DEF Reported, Past, Row

LEMMA ReportedParts ==
    ASSUME NEW t, NEW rows, Reported(rows, t), NEW part \in SUBSET rows
    PROVE  Reported(part, t)
BY FS_Subset DEF Reported

LEMMA ReportedUnion ==
    ASSUME NEW t, NEW rows, NEW more, Reported(rows, t), Reported(more, t)
    PROVE  Reported(rows \cup more, t)
BY FS_Union DEF Reported

LEMMA NewRowsAreOfThem ==
    ASSUME NEW table, NEW rows, NEW at
    PROVE  NewRows(table, rows, at) \subseteq rows
BY DEF NewRows

LEMMA ReportedRows ==
    ASSUME NEW t, NEW rows, Reported(rows, t)
    PROVE  rows \subseteq Row
BY DEF Reported, Past

LEMMA NothingReported == ASSUME NEW t PROVE Reported({}, t)
BY FS_EmptySet DEF Reported

LEMMA FreeTyped ==
    Free \in Request /\ Free.samples = {} /\ Free.events = {} /\ Free.days = {}
        /\ Free.stage = "free"
BY DEF Free, Request

LEMMA RowsInit == Init => RowsInv
<1> SUFFICES ASSUME Init PROVE RowsInv
  OBVIOUS
<1>1. 0 \in 0 .. MaxTime
  BY RollupAssumption
<1>2. hs \in [Handlers -> Request] /\ \A h \in Handlers : hs[h] = Free
  BY FreeTyped DEF Init
<1>3. QED
  BY <1>1, <1>2, FreeTyped, NothingReported DEF Init, RowsInv

\* The clock goes on.
LEMMA RowsInTime ==
    ASSUME RowsInv, now' = now + 1, now < MaxTime,
           UNCHANGED <<samples, events, hs, dirty, missed>>,
           Reported(held', now'), Reported(heldEv', now')
    PROVE  RowsInv'
<1>1. now \in Int /\ now' \in 0 .. MaxTime /\ now <= now'
  BY RollupAssumption DEF RowsInv
<1>2. \A rows : Reported(rows, now) => Reported(rows, now')
  BY <1>1, ReportedLater
<1>3. QED
  BY <1>1, <1>2 DEF RowsInv

LEMMA AgentRows ==
    ASSUME RowsInv,
           \/ PassTime
           \/ \E on \in {0, 1}, sampled \in BOOLEAN : Reading(on, sampled)
    PROVE  RowsInv'
<1>1. now \in Int /\ MaxTime \in Int /\ Skew \in Int
  BY RollupAssumption DEF RowsInv
<1>2. CASE PassTime
  BY <1>1, <1>2, RowsInTime, ReportedLater
     DEF PassTime, RowsInv, agentVars, tables, history
<1>3. ASSUME NEW on \in {0, 1}, NEW sampled \in BOOLEAN, Reading(on, sampled)
      PROVE  RowsInv'
  <2> DEFINE row == [ts |-> now + Skew, on |-> on]
  <2>1. /\ now' = now + 1 /\ now < MaxTime
        /\ UNCHANGED <<samples, events, hs, dirty, missed>>
    BY <1>3 DEF Reading, tables, history
  <2>2. Reported({row}, now')
    <3>1. row \in Row /\ row.ts = now + Skew
      BY <1>1 DEF Row
    <3>2. row \in Past(now')
      BY <1>1, <2>1, <3>1, RollupAssumption DEF Past, RowsInv
    <3>3. QED
      BY <3>2, FS_Singleton DEF Reported
  <2>3. Reported(held, now') /\ Reported(heldEv, now')
    BY <1>1, <2>1, ReportedLater DEF RowsInv
  <2>4. held' \in {held, held \cup {row}} /\ heldEv' \in {heldEv, heldEv \cup {row}}
    BY <1>3 DEF Reading
  <2>5. Reported(held', now') /\ Reported(heldEv', now')
    BY <2>2, <2>3, <2>4, ReportedUnion
  <2>6. QED
    BY <2>1, <2>5, RowsInTime
<1>4. QED
  BY <1>2, <1>3

LEMMA HandlerRows ==
    ASSUME RowsInv, NEW h \in Handlers,
           \/ Receive(h) \/ InsertSamples(h) \/ InsertMonitorEvents(h) \/ IngestFails(h)
           \/ \E received \in BOOLEAN : MarkDirty(h, received)
    PROVE  RowsInv'
<1> USE DEF RowsInv
<1>0. hs[h] \in Request /\ hs[h].days \subseteq Days
  BY DEF Request
<1>1. CASE Receive(h)
  <2> DEFINE q == [stage |-> "read", samples |-> held, events |-> heldEv, at |-> now,
                   days |-> {}]
  <2>1. q \in Request /\ q.samples = held /\ q.events = heldEv
    BY ReportedRows DEF Request
  <2>2. hs' = [hs EXCEPT ![h] = q] /\ UNCHANGED <<now, held, heldEv, samples, events, dirty, missed>>
    BY <1>1 DEF Receive, agentVars, tables, history
  <2> HIDE DEF q
  <2>3. QED
    BY <2>1, <2>2
<1>2. CASE InsertSamples(h)
  <2> DEFINE new == NewRows(samples, hs[h].samples, hs[h].at)
  <2>1. Reported(new, now)
    BY ReportedParts, NewRowsAreOfThem
  <2>2. DaysOf(new) \subseteq Days /\ Reported(samples \cup new, now)
    BY <2>1, ReportedDays, ReportedUnion
  <2>3. /\ samples' = samples \cup new
        /\ hs' = [hs EXCEPT ![h].stage = "half", ![h].days = DaysOf(new)]
        /\ UNCHANGED <<now, held, heldEv, events, dirty, missed>>
    BY <1>2 DEF InsertSamples, agentVars, history
  <2> HIDE DEF new
  <2> DEFINE q == [hs[h] EXCEPT !.stage = "half", !.days = DaysOf(new)]
  <2>4. q \in Request /\ q.samples = hs[h].samples /\ q.events = hs[h].events
    BY <1>0, <2>2 DEF Request
  <2>5. hs' = [hs EXCEPT ![h] = q]
    BY <2>3
  <2> HIDE DEF q
  <2>6. QED
    BY <2>2, <2>3, <2>4, <2>5
<1>3. CASE InsertMonitorEvents(h)
  <2> DEFINE new == NewRows(events, hs[h].events, hs[h].at)
  <2>1. Reported(new, now)
    BY ReportedParts, NewRowsAreOfThem
  <2>2. DaysOf(new) \subseteq Days /\ Reported(events \cup new, now)
    BY <2>1, ReportedDays, ReportedUnion
  <2>3. Overtaken(new) \subseteq Days
    <3>1. Overtaken(new) \subseteq DaysOf(events)
      BY DEF Overtaken, DaysOf
    <3>2. QED
      BY <3>1, ReportedDays
  <2>4. /\ events' = events \cup new
        /\ hs' = [hs EXCEPT ![h].stage = "stored", ![h].days = @ \cup DaysOf(new)]
        /\ missed' = missed \cup Overtaken(new)
        /\ UNCHANGED <<now, held, heldEv, samples, dirty>>
    BY <1>3 DEF InsertMonitorEvents, agentVars
  <2> HIDE DEF new
  <2> DEFINE q == [hs[h] EXCEPT !.stage = "stored", !.days = hs[h].days \cup DaysOf(new)]
  <2>5. q \in Request /\ q.samples = hs[h].samples /\ q.events = hs[h].events
    BY <1>0, <2>2 DEF Request
  <2>6. hs' = [hs EXCEPT ![h] = q]
    BY <2>4
  <2> HIDE DEF q
  <2>7. QED
    BY <2>2, <2>3, <2>4, <2>5, <2>6
<1>4. CASE IngestFails(h)
  <2>1. /\ hs' = [hs EXCEPT ![h] = Free] /\ missed' = missed \cup hs[h].days
        /\ UNCHANGED <<now, held, heldEv, samples, events, dirty>>
    BY <1>4 DEF IngestFails, agentVars, tables
  <2>2. QED
    BY <1>0, <2>1, FreeTyped, NothingReported
<1>5. ASSUME NEW received \in BOOLEAN, MarkDirty(h, received)
      PROVE  RowsInv'
  <2>1. /\ hs' = [hs EXCEPT ![h] = Free] /\ missed' = missed \ hs[h].days
        /\ dirty' = dirty \cup hs[h].days
        /\ UNCHANGED <<now, samples, events>>
    BY <1>5 DEF MarkDirty, tables
  <2>2. held' \subseteq held /\ heldEv' \subseteq heldEv
    BY <1>5 DEF MarkDirty
  <2>3. Reported(held', now) /\ Reported(heldEv', now)
    BY <2>2, ReportedParts
  <2>4. QED
    BY <1>0, <2>1, <2>3, FreeTyped, NothingReported
<1>6. QED
  BY <1>1, <1>2, <1>3, <1>4, <1>5

\* What the rollup is at, and the days that are marked.
LEMMA InHandCases ==
    ASSUME RollInv
    PROVE  /\ roll.pc = "idle" => InHand = {}
           /\ roll.pc = "next" => InHand = roll.todo
           /\ roll.pc \in {"events", "write"} => InHand = {roll.day}
           /\ InHand \subseteq Days
<1>1. roll.pc \in {"idle", "next", "events", "write"} /\ roll.todo \subseteq Days
  BY DEF RollInv, Rollup
<1>2. QED
  BY <1>1 DEF InHand, RollInv

LEMMA MarkedDays ==
    ASSUME RowsInv, RollInv
    PROVE  /\ Marked \subseteq Days
           /\ \A d : d \in Marked <=> \/ d \in dirty \cup roll.todo \cup InHand
                                      \/ \E h \in Handlers : d \in hs[h].days
<1>1. \A h \in Handlers : hs[h].days \subseteq Days
  BY DEF RowsInv, Request
<1>2. roll.todo \subseteq Days /\ InHand \subseteq Days /\ dirty \subseteq Days
  BY InHandCases DEF RollInv, Rollup, RowsInv
<1>3. QED
  BY <1>1, <1>2 DEF Marked

LEMMA RollupRows ==
    ASSUME RowsInv, RollInv,
           \/ RollupTick \/ RollupReadEvents \/ RollupWrite \/ RollupDone
           \/ \E d \in Days : RollupDay(d) \/ RollupFails(d)
           \/ Restart \/ RestartBlind
    PROVE  RowsInv'
<1>1. UNCHANGED <<now, held, heldEv, samples, events, hs>>
  BY DEF RollupTick, RollupReadEvents, RollupWrite, RollupDone, RollupDay, RollupFails,
         Restart, RestartBlind, agentVars, tables
<1>2. dirty' \subseteq Days
  <2>1. CASE \E d \in Days : RollupFails(d)
    BY <2>1 DEF RollupFails, RowsInv
  <2>2. CASE RollupTick
    BY <2>2 DEF RollupTick
  <2>3. CASE UNCHANGED dirty
    BY <2>3 DEF RowsInv
  <2>4. QED
    BY <2>1, <2>2, <2>3
       DEF RollupReadEvents, RollupWrite, RollupDone, RollupDay, Restart, RestartBlind
<1>3. missed' \subseteq missed
  BY DEF RollupTick, RollupReadEvents, RollupWrite, RollupDone, RollupDay, RollupFails,
         Restart, RestartBlind, history
<1>4. QED
  BY <1>1, <1>2, <1>3 DEF RowsInv

LEMMA ServerRows ==
    ASSUME RowsInv, RollInv, Crash \/ DeleteDevice \/ ForgetDirtyDevice
    PROVE  RowsInv'
<1>1. UNCHANGED <<now, held, heldEv>>
  BY DEF Crash, DeleteDevice, ForgetDirtyDevice, agentVars
<1>2. dirty' \in {dirty, {}} /\ missed' \in {missed, missed \cup Marked}
  BY DEF Crash, DeleteDevice, ForgetDirtyDevice, history
<1>3. samples' \in {samples, {}} /\ events' \in {events, {}}
  BY DEF Crash, DeleteDevice, ForgetDirtyDevice, tables
<1>4. hs' = hs \/ hs' = [h \in Handlers |-> Free]
  BY DEF Crash, DeleteDevice, ForgetDirtyDevice
<1>5. /\ hs' \in [Handlers -> Request]
      /\ \A h \in Handlers : Reported(hs'[h].samples, now) /\ Reported(hs'[h].events, now)
  BY <1>4, FreeTyped, NothingReported DEF RowsInv
<1>6. QED
  BY <1>1, <1>2, <1>3, <1>5, MarkedDays, NothingReported DEF RowsInv

LEMMA FiguresTyped ==
    /\ Nat \subseteq Figures /\ Zero \in FigRec /\ Idle \in Rollup
    /\ \A rows : IsFiniteSet(rows) => Cardinality(rows) \in Figures
    /\ \A evs \in SUBSET Row, from, to \in Int : MonitorOnSeconds(evs, from, to) \in Figures
<1>1. Nat \subseteq Figures
      /\ \A evs \in SUBSET Row, from, to \in Int : MonitorOnSeconds(evs, from, to) \in Figures
  BY DEF Figures
<1>2. Zero \in FigRec
  BY <1>1 DEF Zero, FigRec
<1>3. Idle \in Rollup
  BY <1>2 DEF Idle, Rollup
<1>4. QED
  BY <1>1, <1>2, <1>3, FS_CardinalityType

LEMMA WindowOfRows ==
    ASSUME NEW rows, NEW t, Reported(rows, t), NEW from, NEW to
    PROVE  /\ Reported(Window(rows, from, to), t)
           /\ Reported({r \in Window(rows, from, to) : r.on = 1}, t)
BY ReportedParts DEF Window

LEMMA DayTimes ==
    ASSUME NEW d \in Int, NEW at \in Int
    PROVE  /\ DayStart(d) \in Int /\ DayEnd(d, at) \in Int
           /\ DayEnd(d, at) <= DayStart(d) + DayLen /\ DayEnd(d, at) <= at
           /\ at > DayStart(d) => DayEnd(d, at) > DayStart(d)
           /\ DayEnd(d, at) = at \/ DayEnd(d, at) = DayStart(d) + DayLen
<1>1. DayLen \in Nat /\ DayLen > 0
  BY RollupAssumption
<1>2. DayStart(d) \in Int
  BY <1>1 DEF DayStart
<1>3. QED
  BY <1>1, <1>2 DEF DayEnd

-----------------------------------------------------------------------------
(* What each step of the rollup leaves of the loop's record. *)

LEMMA RollOfTick ==
    ASSUME RowsInv, RollupTick
    PROVE  /\ roll' \in Rollup
           /\ roll'.pc = "next" /\ roll'.todo = dirty /\ roll'.at = now
<1>1. Idle \in Rollup /\ dirty \subseteq Days /\ now \in Nat
  BY FiguresTyped DEF RowsInv
<1>2. roll' = [Idle EXCEPT !.pc = "next", !.todo = dirty, !.at = now]
  BY DEF RollupTick
<1>3. QED
  BY <1>1, <1>2 DEF Rollup

LEMMA RollOfRestart ==
    ASSUME RowsInv, Restart
    PROVE  /\ roll' \in Rollup
           /\ roll'.pc = "next" /\ roll'.at = now
           /\ roll'.todo = DaysOf({r \in samples : r.ts >= now - CatchUpSpan})
<1> DEFINE recent == {r \in samples : r.ts >= now - CatchUpSpan}
<1>1. Idle \in Rollup /\ now \in 0 .. MaxTime /\ Reported(recent, now)
  BY FiguresTyped, ReportedParts DEF RowsInv
<1>2. DaysOf(recent) \subseteq Days /\ now \in Nat
  BY <1>1, ReportedDays
<1>3. roll' = [Idle EXCEPT !.pc = "next", !.todo = DaysOf(recent), !.at = now]
  BY DEF Restart
<1> HIDE DEF recent
<1>4. QED
  BY <1>1, <1>2, <1>3 DEF Rollup, recent

\* What RollupDay counts for day d of a table, up to the clock `at'.
Counted(d, at) ==
    LET rows == Window(samples, DayStart(d), DayEnd(d, at))
    IN  [session |-> Cardinality(rows),
         monitor |-> Cardinality({r \in rows : r.on = 1}), apps |-> 0]

LEMMA RollOfDay ==
    ASSUME RowsInv, RollInv, NEW d \in Days, RollupDay(d)
    PROVE  /\ roll' \in Rollup
           /\ roll'.todo = roll.todo \ {d} /\ roll'.at = roll.at
           /\ IF Present /\ roll.at > DayStart(d)
              THEN roll'.pc = "events" /\ roll'.day = d /\ roll'.got = Counted(d, roll.at)
              ELSE roll'.pc = "next"
<1> DEFINE next == [roll EXCEPT !.todo = @ \ {d}]
           begun == [next EXCEPT !.pc = "events", !.day = d, !.got = Counted(d, roll.at)]
<1>1. roll' = IF Present /\ roll.at > DayStart(d) THEN begun ELSE next
  BY DEF RollupDay, Counted
<1>2. /\ next \in Rollup /\ next.todo = roll.todo \ {d} /\ next.at = roll.at
      /\ next.pc = "next"
  BY DEF RollInv, Rollup, RollupDay
<1>3. Counted(d, roll.at) \in FigRec
  <2>1. Reported(samples, now)
    BY DEF RowsInv
  <2>2. \A from, to : /\ IsFiniteSet(Window(samples, from, to))
                      /\ IsFiniteSet({r \in Window(samples, from, to) : r.on = 1})
    BY <2>1, WindowOfRows DEF Reported
  <2>3. 0 \in Figures
    BY FiguresTyped
  <2>4. QED
    BY <2>2, <2>3, FiguresTyped DEF Counted, FigRec
<1>4. /\ begun \in Rollup /\ begun.todo = roll.todo \ {d} /\ begun.at = roll.at
      /\ begun.pc = "events" /\ begun.day = d /\ begun.got = Counted(d, roll.at)
  <2>1. d \in Int
    BY DaysAreInts
  <2> HIDE DEF next
  <2>2. QED
    BY <1>2, <1>3, <2>1 DEF Rollup
<1> HIDE DEF next, begun
<1>5. QED
  BY <1>1, <1>2, <1>4

LEMMA RollOfReadEvents ==
    ASSUME RowsInv, RollInv, RollupReadEvents
    PROVE  /\ roll' \in Rollup
           /\ roll'.pc = "write"
           /\ roll'.todo = roll.todo /\ roll'.at = roll.at /\ roll'.day = roll.day
           /\ roll'.got.session = roll.got.session
           /\ LET from == DayStart(roll.day)
                  to == DayEnd(roll.day, roll.at)
              IN  roll'.got.monitor = IF Window(events, from, to) = {} THEN roll.got.monitor
                                      ELSE MonitorOnSeconds(events, from, to)
<1> DEFINE from == DayStart(roll.day)
           to == DayEnd(roll.day, roll.at)
           figure == IF Window(events, from, to) = {} THEN roll.got.monitor
                     ELSE MonitorOnSeconds(events, from, to)
<1>1. roll \in Rollup /\ roll.got \in FigRec /\ roll.pc = "events"
  BY DEF RollInv, Rollup, RollupReadEvents
<1>2. figure \in Figures
  <2>1. roll.day \in Int /\ roll.at \in Int
    BY <1>1 DEF Rollup
  <2>2. from \in Int /\ to \in Int
    BY <2>1, DayTimes
  <2>3. events \in SUBSET Row
    BY ReportedRows DEF RowsInv
  <2> HIDE DEF from, to
  <2>4. MonitorOnSeconds(events, from, to) \in Figures
    BY <2>2, <2>3, FiguresTyped
  <2>5. roll.got.monitor \in Figures
    BY <1>1 DEF FigRec
  <2>6. QED
    BY <2>4, <2>5
<1>3. roll' = [roll EXCEPT !.pc = "write", !.got.monitor = figure]
  BY DEF RollupReadEvents
<1> HIDE DEF figure
<1>4. DEFINE got == [roll.got EXCEPT !.monitor = figure]
<1>5. got \in FigRec /\ got.session = roll.got.session /\ got.monitor = figure
  BY <1>1, <1>2 DEF FigRec
<1>6. roll' = [roll EXCEPT !.pc = "write", !.got = got]
  BY <1>3
<1> HIDE DEF got
<1>7. QED
  BY <1>1, <1>5, <1>6 DEF Rollup, figure

LEMMA RollOfWrite ==
    ASSUME RowsInv, RollInv, RollupWrite
    PROVE  /\ roll' \in Rollup
           /\ roll'.pc = "next" /\ roll'.at = roll.at /\ roll'.todo = roll.todo
           /\ roll.day \in Days
           /\ \A d \in Days \ {roll.day} : UNCHANGED <<stats[d], upTo[d]>>
           /\ LET d == roll.day
                  rows == Window(samples, DayStart(d), DayEnd(d, roll.at))
              IN  /\ upTo'[d] = DayEnd(d, roll.at)
                  /\ stats'[d].session = roll.got.session
                  /\ stats'[d].monitor = roll.got.monitor
                  /\ stats'[d].apps = Cardinality({r \in rows : r.on = 1})
                  /\ DOMAIN stats'[d] = {"session", "monitor", "apps"}
           /\ stats' \in [Days -> FigRec] /\ upTo' \in [Days -> Int]
<1> DEFINE d == roll.day
           rows == Window(samples, DayStart(d), DayEnd(d, roll.at))
           apps == Cardinality({r \in rows : r.on = 1})
           final == [roll.got EXCEPT !.apps = apps]
<1>1. roll \in Rollup /\ roll.got \in FigRec /\ d \in Days /\ roll.at \in Int
  BY DEF RollInv, Rollup, RollupWrite
<1>2. roll' = [roll EXCEPT !.pc = "next"]
  BY DEF RollupWrite
<1>3. roll' \in Rollup /\ roll'.pc = "next" /\ roll'.at = roll.at /\ roll'.todo = roll.todo
  BY <1>1, <1>2 DEF Rollup
<1>4. apps \in Figures
  <2>1. Reported(samples, now)
    BY DEF RowsInv
  <2>2. IsFiniteSet({r \in rows : r.on = 1})
    BY <2>1, WindowOfRows DEF Reported
  <2>3. QED
    BY <2>2, FiguresTyped
<1>5. /\ final \in FigRec /\ final.session = roll.got.session
      /\ final.monitor = roll.got.monitor /\ final.apps = apps
      /\ DOMAIN final = {"session", "monitor", "apps"}
  <2> HIDE DEF apps
  <2>1. QED
    BY <1>1, <1>4 DEF FigRec
<1>6. /\ stats' = [stats EXCEPT ![d] = final] /\ stats \in [Days -> FigRec]
      /\ upTo' = [upTo EXCEPT ![d] = DayEnd(d, roll.at)] /\ upTo \in [Days -> Int]
  BY DEF RollupWrite, RollInv
<1>7. DayEnd(d, roll.at) \in Int
  BY <1>1, DaysAreInts, DayTimes
<1> HIDE DEF final
<1>8. /\ stats' \in [Days -> FigRec] /\ upTo' \in [Days -> Int]
      /\ stats'[d] = final /\ upTo'[d] = DayEnd(d, roll.at)
      /\ \A c \in Days \ {d} : stats'[c] = stats[c] /\ upTo'[c] = upTo[c]
  BY <1>1, <1>5, <1>6, <1>7
<1>9. QED
  BY <1>1, <1>3, <1>5, <1>8

LEMMA RollOfFails ==
    ASSUME RollInv, NEW d \in Days, RollupFails(d)
    PROVE  /\ roll' \in Rollup
           /\ roll'.pc = "next" /\ roll'.at = roll.at /\ roll'.todo = roll.todo \ {d}
<1>1. roll \in Rollup /\ roll.todo \ {d} \subseteq Days
  BY DEF RollInv, Rollup
<1>2. roll' = [roll EXCEPT !.pc = "next", !.todo = @ \ {d}]
  BY DEF RollupFails
<1>3. QED
  BY <1>1, <1>2 DEF Rollup

\* What the other steps leave of them.
LEMMA RollElsewhere ==
    ASSUME [Next]_vars,
           ~RollupTick, ~RollupReadEvents, ~RollupWrite, ~Restart,
           \A d \in Days : ~RollupDay(d) /\ ~RollupFails(d)
    PROVE  /\ roll' = roll \/ roll' = Idle
           /\ roll' # roll => roll'.pc = "idle" /\ roll'.todo = {}
           /\ UNCHANGED upTo
           /\ stats' = stats \/ (~Present' /\ stats' = [d \in Days |-> Zero])
<1>1. CASE UNCHANGED <<roll, stats, upTo>>
  BY <1>1
<1>2. Idle.pc = "idle" /\ Idle.todo = {}
  BY DEF Idle
<1>3. CASE Crash \/ RollupDone
  BY <1>2, <1>3 DEF Crash, RollupDone, history, tables
<1>4. CASE DeleteDevice
  BY <1>4 DEF DeleteDevice, history, Present
<1>5. QED
  BY <1>1, <1>3, <1>4
     DEF Next, Reading, PassTime, Receive, InsertSamples, InsertMonitorEvents, IngestFails,
         MarkDirty, RestartBlind, ForgetDirtyDevice, vars, tables, history

LEMMA RowsStep ==
    ASSUME RowsInv, RollInv, [Next]_vars
    PROVE  RowsInv'
<1>1. CASE UNCHANGED vars
  BY <1>1 DEF RowsInv, vars, agentVars, tables, history
<1>2. CASE Next
  BY <1>2, AgentRows, HandlerRows, RollupRows, ServerRows DEF Next
<1>3. QED
  BY <1>1, <1>2

LEMMA RollInit == Init => RollInv
<1> SUFFICES ASSUME Init PROVE RollInv
  OBVIOUS
<1>1. Idle.pc = "idle"
  BY DEF Idle
<1>2. \A d \in Days : d * DayLen \in Int
  BY DaysAreInts, RollupAssumption
<1>3. QED
  BY <1>1, <1>2, FiguresTyped DEF Init, RollInv

LEMMA RollStep ==
    ASSUME RowsInv, RollInv, [Next]_vars
    PROVE  RollInv'
<1>1. CASE RollupTick \/ Restart
  <2>1. roll' \in Rollup /\ roll'.pc = "next" /\ UNCHANGED <<stats, upTo>>
    BY <1>1, RollOfTick, RollOfRestart DEF RollupTick, Restart, tables, history
  <2>2. QED
    BY <2>1 DEF RollInv
<1>2. ASSUME NEW d \in Days, RollupDay(d) \/ RollupFails(d)
      PROVE  RollInv'
  <2>1. UNCHANGED <<stats, upTo>>
    BY <1>2 DEF RollupDay, RollupFails, tables, history
  <2>2. roll' \in Rollup /\ (roll'.pc = "next" \/ roll'.day = d)
    BY <1>2, RollOfDay, RollOfFails
  <2>3. QED
    BY <2>1, <2>2 DEF RollInv
<1>3. CASE RollupReadEvents
  <2>1. roll' \in Rollup /\ roll'.day = roll.day /\ roll.day \in Days
    BY <1>3, RollOfReadEvents DEF RollInv, RollupReadEvents
  <2>2. UNCHANGED <<stats, upTo>>
    BY <1>3 DEF RollupReadEvents, tables, history
  <2>3. QED
    BY <2>1, <2>2 DEF RollInv
<1>4. CASE RollupWrite
  BY <1>4, RollOfWrite DEF RollInv
<1>5. CASE /\ ~RollupTick /\ ~RollupReadEvents /\ ~RollupWrite /\ ~Restart
           /\ \A d \in Days : ~RollupDay(d) /\ ~RollupFails(d)
  <2>1. /\ roll' = roll \/ (roll' = Idle /\ roll'.pc = "idle")
        /\ UNCHANGED upTo /\ stats' \in [Days -> FigRec]
    BY <1>5, RollElsewhere, FiguresTyped DEF RollInv
  <2>2. QED
    BY <2>1, FiguresTyped DEF RollInv
<1>6. QED
  BY <1>1, <1>2, <1>3, <1>4, <1>5

-----------------------------------------------------------------------------
(* Clocks.  A day is rolled up to no later than the clock of the run that did it, *)
(* which is past; a day rolled up to its own start has nothing.                   *)

Latest == IF roll.pc = "idle" THEN now ELSE roll.at

RolledUp(d) ==
    /\ DayStart(d) <= upTo[d] /\ upTo[d] <= DayStart(d) + DayLen
    /\ upTo[d] = DayStart(d) \/ upTo[d] <= Latest
    /\ upTo[d] = DayStart(d) => stats[d] = Zero

ClockInv ==
    /\ roll.at <= now
    /\ roll.pc = "idle" => roll.todo = {}
    /\ roll.pc \in {"events", "write"} => roll.at > DayStart(roll.day)
    /\ \A d \in Days : RolledUp(d)

LEMMA ClockTypes ==
    ASSUME RowsInv, RollInv
    PROVE  /\ now \in Nat /\ roll.at \in Nat /\ DayLen \in Nat /\ DayLen > 0
           /\ \A d \in Days : /\ d \in Int /\ upTo[d] \in Int /\ DayStart(d) \in Int
BY RollupAssumption, DaysAreInts, DayTimes DEF RowsInv, RollInv, Rollup

LEMMA ClockInit == Init => ClockInv
<1> SUFFICES ASSUME Init PROVE ClockInv
  OBVIOUS
<1>1. now = 0 /\ roll.at = 0 /\ roll.pc = "idle" /\ roll.todo = {}
  BY DEF Init, Idle
<1>2. \A d \in Days : upTo[d] = DayStart(d) /\ stats[d] = Zero
  BY DEF Init, DayStart
<1>3. DayLen \in Nat /\ \A d \in Days : DayStart(d) \in Int
  BY DaysAreInts, DayTimes, RollupAssumption
<1>4. QED
  BY <1>1, <1>2, <1>3 DEF ClockInv, RolledUp

\* A step that writes no aggregate and goes back on no clock.
LEMMA ClockGoesOn ==
    ASSUME RowsInv, RollInv, ClockInv,
           UNCHANGED <<stats, upTo>>, Latest <= Latest', Latest' \in Int
    PROVE  \A d \in Days : RolledUp(d)'
<1> SUFFICES ASSUME NEW d \in Days PROVE RolledUp(d)'
  OBVIOUS
<1>1. RolledUp(d) /\ Latest \in Int /\ upTo[d] \in Int
  BY ClockTypes DEF ClockInv, Latest
<1> HIDE DEF Latest
<1>2. QED
  BY <1>1 DEF RolledUp

LEMMA ClockStep ==
    ASSUME RowsInv, RollInv, ClockInv, [Next]_vars
    PROVE  ClockInv'
<1> USE ClockTypes
<1>1. CASE RollupTick \/ Restart
  <2>1. /\ roll'.pc = "next" /\ roll'.at = now /\ UNCHANGED <<stats, upTo, now>>
    BY <1>1, RollOfTick, RollOfRestart DEF RollupTick, Restart, tables, history
  <2>2. \A d \in Days : RolledUp(d)'
    BY <2>1, ClockGoesOn DEF Latest, ClockInv
  <2>3. QED
    BY <2>1, <2>2 DEF ClockInv
<1>2. ASSUME NEW d \in Days, RollupDay(d) \/ RollupFails(d)
      PROVE  ClockInv'
  <2>1. UNCHANGED <<stats, upTo, now>> /\ roll.pc # "idle"
    BY <1>2, InHandCases DEF RollupDay, RollupFails, tables, history
  <2>2. /\ roll'.at = roll.at
        /\ roll'.pc = "next" \/ (roll'.pc = "events" /\ roll'.day = d /\ roll.at > DayStart(d))
    BY <1>2, RollOfDay, RollOfFails
  <2>3. \A c \in Days : RolledUp(c)'
    BY <2>1, <2>2, ClockGoesOn DEF Latest
  <2>4. QED
    BY <2>1, <2>2, <2>3 DEF ClockInv
<1>3. CASE RollupReadEvents
  <2>1. UNCHANGED <<stats, upTo, now>> /\ roll.pc = "events"
    BY <1>3 DEF RollupReadEvents, tables, history
  <2>2. roll'.at = roll.at /\ roll'.pc = "write" /\ roll'.day = roll.day
    BY <1>3, RollOfReadEvents
  <2>3. \A d \in Days : RolledUp(d)'
    BY <2>1, <2>2, ClockGoesOn DEF Latest
  <2>4. QED
    BY <2>1, <2>2, <2>3 DEF ClockInv
<1>4. CASE RollupWrite
  <2>1. /\ roll.pc = "write" /\ roll'.pc = "next" /\ roll'.at = roll.at /\ now' = now
        /\ roll.day \in Days /\ upTo'[roll.day] = DayEnd(roll.day, roll.at)
    BY <1>4, RollOfWrite DEF RollupWrite
  <2>2. ASSUME NEW d \in Days, d = roll.day PROVE RolledUp(d)'
    <3>1. roll.at > DayStart(d)
      BY <2>1, <2>2 DEF ClockInv
    <3>2. /\ DayStart(d) < upTo'[d] /\ upTo'[d] <= roll.at
          /\ upTo'[d] <= DayStart(d) + DayLen /\ upTo'[d] \in Int
      <4>1. upTo'[d] = DayEnd(d, roll.at) /\ d \in Int /\ roll.at \in Int
        BY <2>1, <2>2
      <4>2. QED
        BY <3>1, <4>1, DayTimes
    <3>3. QED
      BY <2>1, <3>2 DEF RolledUp, Latest
  <2>3. ASSUME NEW d \in Days \ {roll.day} PROVE RolledUp(d)'
    <3>1. UNCHANGED <<stats[d], upTo[d]>>
      BY <1>4, RollOfWrite
    <3>2. RolledUp(d) /\ Latest' = Latest
      BY <2>1 DEF ClockInv, Latest
    <3>3. QED
      BY <3>1, <3>2 DEF RolledUp
  <2>4. QED
    BY <2>1, <2>2, <2>3 DEF ClockInv
<1>5. CASE /\ ~RollupTick /\ ~RollupReadEvents /\ ~RollupWrite /\ ~Restart
           /\ \A d \in Days : ~RollupDay(d) /\ ~RollupFails(d)
  <2>1. /\ roll' = roll \/ (roll' = Idle /\ roll'.pc = "idle" /\ roll'.todo = {})
        /\ UNCHANGED upTo
        /\ stats' = stats \/ stats' = [d \in Days |-> Zero]
    BY <1>5, RollElsewhere
  <2>2. now' \in Int /\ now <= now'
    <3>1. RowsInv'
      BY RowsStep
    <3>2. now' = now \/ now' = now + 1
      BY <1>5 DEF Next, Reading, PassTime, Receive, InsertSamples, InsertMonitorEvents,
            IngestFails, MarkDirty, RollupDone, Crash, RestartBlind, DeleteDevice,
            ForgetDirtyDevice, vars
    <3>3. QED
      BY <3>2
  <2>3. Idle.at = 0
    BY DEF Idle
  <2>4. Latest \in Int /\ Latest' \in Int /\ Latest <= Latest' /\ roll'.at <= now'
    BY <2>1, <2>2, <2>3 DEF Latest, ClockInv
  <2>5. ASSUME NEW d \in Days PROVE RolledUp(d)'
    <3>1. RolledUp(d) /\ stats'[d] \in {stats[d], Zero} /\ upTo'[d] = upTo[d]
      BY <2>1 DEF ClockInv
    <3> HIDE DEF Latest
    <3>2. QED
      BY <2>4, <3>1 DEF RolledUp
  <2>6. QED
    BY <2>1, <2>4, <2>5 DEF ClockInv
<1>6. QED
  BY <1>1, <1>2, <1>3, <1>4, <1>5

-----------------------------------------------------------------------------
(* A request has days to mark only between its first commit and its marks.        *)

StageInv == \A h \in Handlers : hs[h].stage \in {"free", "read"} => hs[h].days = {}

LEMMA StageStep ==
    ASSUME RowsInv, StageInv, [Next]_vars
    PROVE  StageInv'
<1> USE DEF StageInv
<1>1. hs \in [Handlers -> Request]
  BY DEF RowsInv
<1>2. CASE UNCHANGED hs
  BY <1>2
<1>3. ASSUME NEW h \in Handlers, NEW q, hs' = [hs EXCEPT ![h] = q],
             q.stage \in {"free", "read"} => q.days = {}
      PROVE  StageInv'
  BY <1>1, <1>3
<1>4. ASSUME NEW h \in Handlers, Receive(h) \/ IngestFails(h) \/ MarkDirty(h, TRUE)
             \/ MarkDirty(h, FALSE)
      PROVE  StageInv'
  <2>1. hs' = [hs EXCEPT ![h] = Free] \/ Receive(h)
    BY <1>4 DEF IngestFails, MarkDirty
  <2>2. QED
    BY <1>3, <2>1, FreeTyped DEF Receive
<1>5. ASSUME NEW h \in Handlers, InsertSamples(h) \/ InsertMonitorEvents(h)
      PROVE  StageInv'
  <2>1. CASE InsertSamples(h)
    <3> DEFINE q == [hs[h] EXCEPT !.stage = "half",
                                  !.days = DaysOf(NewRows(samples, hs[h].samples, hs[h].at))]
    <3>1. hs' = [hs EXCEPT ![h] = q] /\ q.stage = "half"
      BY <1>1, <2>1 DEF Request, InsertSamples
    <3> HIDE DEF q
    <3>2. QED
      BY <1>3, <3>1
  <2>2. CASE InsertMonitorEvents(h)
    <3> DEFINE q == [hs[h] EXCEPT !.stage = "stored", !.days =
                         hs[h].days \cup DaysOf(NewRows(events, hs[h].events, hs[h].at))]
    <3>1. hs' = [hs EXCEPT ![h] = q] /\ q.stage = "stored"
      BY <1>1, <2>2 DEF Request, InsertMonitorEvents
    <3> HIDE DEF q
    <3>2. QED
      BY <1>3, <3>1
  <2>3. QED
    BY <1>5, <2>1, <2>2
<1>6. CASE Crash
  BY <1>6, FreeTyped DEF Crash
<1>7. QED
  BY <1>2, <1>4, <1>5, <1>6
     DEF Next, Reading, PassTime, RollupTick, RollupDay, RollupReadEvents, RollupWrite,
         RollupFails, RollupDone, Restart, RestartBlind, DeleteDevice, ForgetDirtyDevice, vars

-----------------------------------------------------------------------------
(* What a rollup of day d up to the instant `to' makes of some tables, and        *)
(* whether it has seen the rest of the day's rows and left them for later.        *)

Figure(S, E, d, to) ==
    LET rows == Window(S, DayStart(d), to)
        on == Cardinality({r \in rows : r.on = 1})
    IN  [session |-> Cardinality(rows),
         monitor |-> IF Window(E, DayStart(d), to) = {} THEN on
                     ELSE MonitorOnSeconds(E, DayStart(d), to),
         apps |-> on]

Seen(S, E, left, d, to) ==
    /\ {"sample"} \X From(S, d, to) \subseteq left
    /\ {"event"} \X From(E, d, to) \subseteq left

\* Rows of other days are in no window of the day, nor left for later.
LEMMA OtherDaysRows ==
    ASSUME NEW rows \in SUBSET Row, NEW new \in SUBSET Row, NEW d \in Int, d \notin DaysOf(new),
           NEW to \in Int, to <= DayStart(d) + DayLen
    PROVE  /\ Window(rows \cup new, DayStart(d), to) = Window(rows, DayStart(d), to)
           /\ From(rows \cup new, d, to) = From(rows, d, to)
<1>1. ASSUME NEW r \in new PROVE DayUTC(r.ts) # d /\ ~(DayStart(d) <= r.ts /\ r.ts < to)
  <2>1. DayUTC(r.ts) # d /\ r.ts \in Int
    BY DEF DaysOf, Row
  <2>2. DayStart(d) \in Int /\ DayLen \in Int
    BY RollupAssumption, DayTimes
  <2>3. QED
    BY <2>1, <2>2, DayOfTime
<1>2. QED
  BY <1>1 DEF Window, From

NoneBefore(rows, t) == \A r \in rows : r.ts >= t

\* Transitions at or after the end of a window do not count in it.
LEMMA LaterTransitions ==
    ASSUME NEW evs \in SUBSET Row, NEW new \in SUBSET Row, NEW from \in Int, NEW to \in Int,
           NoneBefore(new, to)
    PROVE  MonitorOnSeconds(evs \cup new, from, to) = MonitorOnSeconds(evs, from, to)
<1>1. CASE to <= from
  BY <1>1 DEF MonitorOnSeconds
<1>2. CASE from < to
  <2>1. \A r \in new : r.ts \in Int /\ ~(r.ts <= from) /\ ~(r.ts < to)
    BY <1>2 DEF Row, NoneBefore
  <2>2. /\ Between(evs \cup new, from, to) = Between(evs, from, to)
        /\ UpTo(evs \cup new, from) = UpTo(evs, from)
    BY <2>1 DEF Between, UpTo
  <2>3. QED
    BY <2>2 DEF MonitorOnSeconds, StateAt
<1>3. QED
  BY <1>1, <1>2

\* The days of some transitions that have an earlier day of new ones before them.
DaysAfter(evs, new) == DaysOf({e \in evs : \E r \in new : DayUTC(r.ts) < DayUTC(e.ts)})

\* Neither the marked days nor the overtaken ones: the figures stay what they were.
LEMMA FigureKept ==
    ASSUME NEW S \in SUBSET Row, NEW E \in SUBSET Row,
           NEW newS \in SUBSET Row, NEW newE \in SUBSET Row,
           NEW d \in Int, d \notin DaysOf(newS), d \notin DaysOf(newE),
           d \notin DaysAfter(E, newE),
           NEW to \in Int, to <= DayStart(d) + DayLen,
           NEW left, NEW more, left \subseteq more
    PROVE  /\ Figure(S \cup newS, E \cup newE, d, to) = Figure(S, E, d, to)
           /\ Seen(S, E, left, d, to) => Seen(S \cup newS, E \cup newE, more, d, to)
<1>1. /\ Window(S \cup newS, DayStart(d), to) = Window(S, DayStart(d), to)
      /\ Window(E \cup newE, DayStart(d), to) = Window(E, DayStart(d), to)
      /\ From(S \cup newS, d, to) = From(S, d, to)
      /\ From(E \cup newE, d, to) = From(E, d, to)
  <2>1. /\ Window(S \cup newS, DayStart(d), to) = Window(S, DayStart(d), to)
        /\ From(S \cup newS, d, to) = From(S, d, to)
    BY OtherDaysRows
  <2>2. /\ Window(E \cup newE, DayStart(d), to) = Window(E, DayStart(d), to)
        /\ From(E \cup newE, d, to) = From(E, d, to)
    BY OtherDaysRows
  <2>3. QED
    BY <2>1, <2>2
<1>2. CASE Window(E, DayStart(d), to) = {}
  BY <1>1, <1>2 DEF Figure, Seen
<1>3. ASSUME NEW e \in Window(E, DayStart(d), to)
      PROVE  MonitorOnSeconds(E \cup newE, DayStart(d), to)
                 = MonitorOnSeconds(E, DayStart(d), to)
  <2>1. DayStart(d) \in Int /\ DayLen \in Int /\ DayLen > 0
    BY RollupAssumption, DayTimes
  <2>2. e \in E /\ e.ts \in Int /\ DayStart(d) <= e.ts /\ e.ts < DayStart(d) + DayLen
    BY <2>1 DEF Window, Row
  <2>3. DayUTC(e.ts) = d
    BY <2>2, DayOfTime
  <2>4. ASSUME NEW r \in newE PROVE r.ts >= to
    <3>1. r.ts \in Int /\ DayUTC(r.ts) \in Int /\ DayUTC(r.ts) # d
      BY DayOfTime DEF Row, DaysOf
    <3>2. ~(DayUTC(r.ts) < d)
      BY <2>2, <2>3 DEF DaysOf, DaysAfter
    <3>3. r.ts >= DayStart(d)
      <4>1. DayUTC(DayStart(d)) = d
        BY <2>1, DayOfTime
      <4>2. r.ts <= DayStart(d) => DayUTC(r.ts) <= d
        BY <2>1, <3>1, <4>1, DaysInOrder
      <4>3. QED
        BY <2>1, <3>1, <3>2, <4>2
    <3>4. r.ts >= DayStart(d) + DayLen
      BY <2>1, <3>1, <3>3, DayOfTime
    <3>5. QED
      BY <2>1, <3>1, <3>4
  <2>5. NoneBefore(newE, to)
    BY <2>4 DEF NoneBefore
  <2>6. QED
    BY <2>1, <2>5, LaterTransitions
<1>4. QED
  BY <1>1, <1>2, <1>3 DEF Figure, Seen

-----------------------------------------------------------------------------
(* Marks.  A day's figures are those of its tables, or a mark says that they may  *)
(* not be: in the dirty set, with a handler, in missed, or with the rollup loop,  *)
(* which for the day it has in hand holds the tables' figures or, again, a mark.  *)

Current(d) ==
    /\ stats[d] = Figure(samples, events, d, upTo[d])
    /\ Seen(samples, events, early, d, upTo[d])

Known(d) == d \in dirty \/ d \in missed \/ \E h \in Handlers : d \in hs[h].days

Held(d, to) ==
    /\ Seen(samples, events, early, d, to)
    /\ roll.got.session = Figure(samples, events, d, to).session
    /\ roll.got.monitor = IF roll.pc = "events" THEN Figure(samples, events, d, to).apps
                          ELSE Figure(samples, events, d, to).monitor

InHandInv ==
    Present /\ roll.pc \in {"events", "write"} =>
        Known(roll.day) \/ Held(roll.day, DayEnd(roll.day, roll.at))

MarkInv ==
    Present => \A d \in Days : Current(d) \/ Known(d) \/ d \in roll.todo \cup InHand

IdleInv == phase = "down" => roll.pc = "idle"

LEMMA IdleStep ==
    ASSUME RowsInv, RollInv, IdleInv, [Next]_vars
    PROVE  IdleInv'
<1>1. CASE UNCHANGED <<phase, roll>>
  BY <1>1 DEF IdleInv
<1>2. CASE phase' # "down"
  BY <1>2 DEF IdleInv
<1>3. CASE Crash
  BY <1>3 DEF Crash, IdleInv, Idle
<1>4. ASSUME NEW d \in Days, RollupDay(d) \/ RollupFails(d)
      PROVE  IdleInv'
  <2>1. UNCHANGED phase /\ roll.pc # "idle"
    BY <1>4, InHandCases DEF RollupDay, RollupFails
  <2>2. QED
    BY <2>1 DEF IdleInv
<1>5. CASE RollupReadEvents \/ RollupWrite
  BY <1>5 DEF RollupReadEvents, RollupWrite, IdleInv
<1>6. QED
  BY <1>1, <1>2, <1>3, <1>4, <1>5
     DEF Next, Reading, PassTime, Receive, InsertSamples, InsertMonitorEvents, IngestFails,
         MarkDirty, RollupTick, RollupDone, Restart, RestartBlind, DeleteDevice,
         ForgetDirtyDevice, vars

LEMMA StillPresent ==
    ASSUME [Next]_vars, Present'
    PROVE  Present /\ ~DeleteDevice
BY DEF Next, Reading, PassTime, Receive, InsertSamples, InsertMonitorEvents, IngestFails,
       MarkDirty, RollupTick, RollupDay, RollupReadEvents, RollupWrite, RollupFails,
       RollupDone, Crash, Restart, RestartBlind, DeleteDevice, ForgetDirtyDevice, vars, Present

\* A mark is passed on, never dropped.
LEMMA KnownKept ==
    ASSUME RowsInv, RollInv, StageInv, [Next]_vars, Present', NEW d \in Days, Known(d)
    PROVE  Known(d)' \/ (roll'.pc = "next" /\ d \in roll'.todo)
<1>1. hs \in [Handlers -> Request]
  BY DEF RowsInv
<1>2. ASSUME dirty \subseteq dirty', missed \subseteq missed',
             \A h \in Handlers : hs[h].days \subseteq hs'[h].days
      PROVE  Known(d)'
  BY <1>2 DEF Known
<1>3. ASSUME NEW h \in Handlers, IngestFails(h) \/ MarkDirty(h, TRUE) \/ MarkDirty(h, FALSE)
      PROVE  Known(d)'
  <2>1. /\ hs' = [hs EXCEPT ![h] = Free]
        /\ \/ dirty' = dirty /\ missed' = missed \cup hs[h].days
           \/ dirty' = dirty \cup hs[h].days /\ missed' = missed \ hs[h].days
    BY <1>3 DEF IngestFails, MarkDirty
  <2>2. \A g \in Handlers \ {h} : hs'[g] = hs[g]
    BY <1>1, <2>1
  <2>3. QED
    BY <2>1, <2>2 DEF Known
<1>4. ASSUME NEW h \in Handlers, Receive(h) \/ InsertSamples(h) \/ InsertMonitorEvents(h)
      PROVE  Known(d)'
  <2>1. dirty' = dirty /\ missed \subseteq missed'
    BY <1>4 DEF Receive, InsertSamples, InsertMonitorEvents, history
  <2>2. \A g \in Handlers \ {h} : hs'[g] = hs[g]
    BY <1>1, <1>4 DEF Receive, InsertSamples, InsertMonitorEvents
  <2>3. hs[h].days \subseteq hs'[h].days
    <3>1. CASE Receive(h) \/ InsertSamples(h)
      BY <1>1, <3>1 DEF Receive, InsertSamples, StageInv
    <3>2. CASE InsertMonitorEvents(h)
      <4> DEFINE more == hs[h].days \cup DaysOf(NewRows(events, hs[h].events, hs[h].at))
      <4>1. hs' = [hs EXCEPT ![h].stage = "stored", ![h].days = more]
        BY <3>2 DEF InsertMonitorEvents
      <4>2. hs[h].days \subseteq more
        OBVIOUS
      <4> HIDE DEF more
      <4>3. hs'[h].days = more
        BY <1>1, <4>1 DEF Request
      <4>4. QED
        BY <4>2, <4>3
    <3>3. QED
      BY <1>4, <3>1, <3>2
  <2>4. \A g \in Handlers : hs[g].days \subseteq hs'[g].days
    BY <2>2, <2>3
  <2>5. QED
    BY <1>2, <2>1, <2>4
<1>5. CASE RollupTick
  <2>1. /\ roll'.pc = "next" /\ roll'.todo = dirty /\ UNCHANGED <<hs, missed>>
    BY <1>5, RollOfTick DEF RollupTick, history
  <2>2. QED
    BY <2>1 DEF Known
<1>6. CASE Restart
  <2>1. /\ roll'.pc = "next" /\ missed' = missed \ roll'.todo /\ UNCHANGED <<hs, dirty>>
    BY <1>6, RollOfRestart DEF Restart
  <2>2. QED
    BY <2>1 DEF Known
<1>7. CASE Crash
  <2>1. d \in Marked \/ d \in missed
    BY MarkedDays DEF Known
  <2>2. QED
    BY <1>7, <2>1 DEF Crash, Known
<1>8. ASSUME NEW c \in Days, RollupDay(c) \/ RollupFails(c)
      PROVE  Known(d)'
  <2>1. dirty \subseteq dirty' /\ UNCHANGED <<missed, hs>>
    BY <1>8 DEF RollupDay, RollupFails, history
  <2>2. QED
    BY <1>2, <2>1
<1>9. CASE UNCHANGED <<dirty, hs, missed>>
  BY <1>2, <1>9
<1>10. ~ForgetDirtyDevice /\ ~DeleteDevice
  BY StillPresent DEF ForgetDirtyDevice, Present
<1>11. QED
  BY <1>3, <1>4, <1>5, <1>6, <1>7, <1>8, <1>9, <1>10
     DEF Next, Reading, PassTime, RollupReadEvents, RollupWrite, RollupDone, RestartBlind,
         vars, history

\* Rows that change a day's figures mark the day, or add it to missed.
LEMMA FigureOrMark ==
    ASSUME RowsInv, RollInv, [Next]_vars, Present',
           NEW d \in Days, NEW to \in Int, to <= DayStart(d) + DayLen
    PROVE  \/ Known(d)'
           \/ /\ Figure(samples', events', d, to) = Figure(samples, events, d, to)
              /\ Seen(samples, events, early, d, to) => Seen(samples', events', early', d, to)
<1>1. hs \in [Handlers -> Request] /\ d \in Int
  BY DaysAreInts DEF RowsInv
<1>2. samples \in SUBSET Row /\ events \in SUBSET Row
  BY ReportedRows DEF RowsInv
<1>3. CASE UNCHANGED <<samples, events>> /\ early \subseteq early'
  BY <1>3 DEF Seen
<1>4. ASSUME NEW h \in Handlers, InsertSamples(h), ~Known(d)'
      PROVE  /\ Figure(samples', events', d, to) = Figure(samples, events, d, to)
             /\ Seen(samples, events, early, d, to) => Seen(samples', events', early', d, to)
  <2> DEFINE new == NewRows(samples, hs[h].samples, hs[h].at)
  <2>1. /\ samples' = samples \cup new /\ events' = events \cup {} /\ early' = early
        /\ hs' = [hs EXCEPT ![h].stage = "half", ![h].days = DaysOf(new)]
    BY <1>4 DEF InsertSamples, history
  <2>2. new \in SUBSET Row
    BY <1>1, NewRowsAreOfThem DEF Request
  <2> HIDE DEF new
  <2>3. hs'[h].days = DaysOf(new)
    BY <1>1, <2>1 DEF Request
  <2>4. d \notin DaysOf(new)
    BY <1>4, <2>3 DEF Known
  <2>5. d \notin DaysOf({}) /\ d \notin DaysAfter(events, {})
    BY DEF DaysOf, DaysAfter
  <2>6. {} \in SUBSET Row
    OBVIOUS
  <2>7. /\ Figure(samples \cup new, events \cup {}, d, to) = Figure(samples, events, d, to)
        /\ Seen(samples, events, early, d, to)
               => Seen(samples \cup new, events \cup {}, early, d, to)
    BY <1>1, <1>2, <2>2, <2>4, <2>5, <2>6, FigureKept
  <2>8. QED
    BY <2>1, <2>7
<1>5. ASSUME NEW h \in Handlers, InsertMonitorEvents(h), ~Known(d)'
      PROVE  /\ Figure(samples', events', d, to) = Figure(samples, events, d, to)
             /\ Seen(samples, events, early, d, to) => Seen(samples', events', early', d, to)
  <2> DEFINE new == NewRows(events, hs[h].events, hs[h].at)
             more == hs[h].days \cup DaysOf(new)
  <2>1. /\ samples' = samples \cup {} /\ events' = events \cup new /\ early' = early
        /\ hs' = [hs EXCEPT ![h].stage = "stored", ![h].days = more]
        /\ missed' = missed \cup Overtaken(new)
    BY <1>5 DEF InsertMonitorEvents
  <2>2. new \in SUBSET Row
    BY <1>1, NewRowsAreOfThem DEF Request
  <2>3. DaysOf(new) \subseteq more
    OBVIOUS
  <2> HIDE DEF new, more
  <2>4. hs'[h].days = more
    BY <1>1, <2>1 DEF Request
  <2>5. d \notin DaysOf(new) /\ d \notin Overtaken(new)
    BY <1>5, <2>1, <2>3, <2>4 DEF Known
  <2>6. d \notin DaysOf({})
    BY DEF DaysOf
  <2>7. {} \in SUBSET Row
    OBVIOUS
  <2>8. d \notin DaysAfter(events, new)
    BY <2>5 DEF Overtaken, DaysAfter
  <2>9. /\ Figure(samples \cup {}, events \cup new, d, to) = Figure(samples, events, d, to)
        /\ Seen(samples, events, early, d, to)
               => Seen(samples \cup {}, events \cup new, early, d, to)
    BY <1>1, <1>2, <2>2, <2>5, <2>6, <2>7, <2>8, FigureKept
  <2>10. QED
    BY <2>1, <2>9
<1>6. ~DeleteDevice
  BY StillPresent
<1>7. QED
  BY <1>3, <1>4, <1>5, <1>6
     DEF Next, Reading, PassTime, Receive, IngestFails, MarkDirty, RollupTick, RollupDay,
         RollupReadEvents, RollupWrite, RollupFails, RollupDone, Crash, Restart, RestartBlind,
         ForgetDirtyDevice, vars, tables, history

-----------------------------------------------------------------------------
(* The rollup loop's steps.                                                       *)

\* What RollupDay does not count of the day it notes in early.
LEMMA SeenAtBegin ==
    ASSUME RowsInv, RollInv, NEW d \in Days, RollupDay(d)
    PROVE  /\ Seen(samples', events', early', d, DayEnd(d, roll.at))
           /\ roll.at <= DayStart(d) => Seen(samples', events', early', d, DayStart(d))
<1>1. /\ samples' = samples /\ events' = events
      /\ {"sample"} \X From(samples, d, roll.at) \subseteq early'
      /\ {"event"} \X From(events, d, roll.at) \subseteq early'
  BY DEF RollupDay, tables
<1>2. d \in Int /\ DayStart(d) \in Int /\ roll.at \in Int /\ DayLen \in Int
  BY ClockTypes
<1>3. ASSUME NEW rows \in SUBSET Row
      PROVE  /\ From(rows, d, DayEnd(d, roll.at)) \subseteq From(rows, d, roll.at)
             /\ roll.at <= DayStart(d) => From(rows, d, DayStart(d)) \subseteq From(rows, d, roll.at)
  <2>1. ASSUME NEW r \in rows, DayUTC(r.ts) = d
        PROVE  r.ts \in Int /\ DayStart(d) <= r.ts /\ r.ts < DayStart(d) + DayLen
    BY <1>2, <2>1, DayOfTime DEF Row
  <2>2. DayEnd(d, roll.at) \in {roll.at, DayStart(d) + DayLen}
    BY <1>2, DayTimes
  <2>3. QED
    BY <1>2, <2>1, <2>2 DEF From
<1>4. samples \in SUBSET Row /\ events \in SUBSET Row
  BY ReportedRows DEF RowsInv
<1>5. QED
  BY <1>1, <1>3, <1>4 DEF Seen

LEMMA NothingYet ==
    ASSUME NEW S \in SUBSET Row, NEW E \in SUBSET Row, NEW d \in Int
    PROVE  Figure(S, E, d, DayStart(d)) = Zero
<1>1. DayStart(d) \in Int
  BY DayTimes
<1>2. Window(S, DayStart(d), DayStart(d)) = {} /\ Window(E, DayStart(d), DayStart(d)) = {}
  BY <1>1 DEF Window, Row
<1>3. {r \in {} : r.on = 1} = {} /\ Cardinality({}) = 0
  BY FS_EmptySet
<1>4. QED
  BY <1>2, <1>3 DEF Figure, Zero

LEMMA InHandStep ==
    ASSUME RowsInv, RollInv, ClockInv, StageInv, InHandInv, [Next]_vars
    PROVE  InHandInv'
<1> SUFFICES ASSUME Present', roll'.pc \in {"events", "write"},
                    NEW d, NEW to, d = roll'.day, to = DayEnd(d, roll'.at), ~Known(d)'
             PROVE  Held(d, to)'
  BY DEF InHandInv
<1>0. Present
  BY StillPresent
<1>1. ASSUME NEW c \in Days, RollupDay(c)
      PROVE  Held(d, to)'
  <2>1. roll'.pc = "events" /\ d = c /\ roll'.got = Counted(c, roll.at) /\ roll'.at = roll.at
    BY <1>1, RollOfDay
  <2>2. Seen(samples', events', early', d, to) /\ samples' = samples /\ events' = events
    BY <1>1, <2>1, SeenAtBegin DEF RollupDay, tables
  <2>3. /\ Counted(d, roll.at).session = Figure(samples, events, d, to).session
        /\ Counted(d, roll.at).monitor = Figure(samples, events, d, to).apps
    BY <2>1 DEF Counted, Figure
  <2>4. QED
    BY <2>1, <2>2, <2>3 DEF Held
<1>2. CASE UNCHANGED <<roll>> \/ RollupReadEvents
  <2>1. /\ roll.pc \in {"events", "write"} /\ roll.day = d /\ roll'.at = roll.at
        /\ roll'.pc # "next"
    BY <1>2, RollOfReadEvents DEF RollupReadEvents
  <2>2. d \in Days /\ to \in Int /\ to <= DayStart(d) + DayLen
    <3>1. d \in Days /\ d \in Int /\ roll.at \in Int
      BY <2>1, ClockTypes DEF RollInv
    <3>2. QED
      BY <2>1, <3>1, DayTimes
  <2>3. ~Known(d)
    BY <2>1, <2>2, KnownKept
  <2>4. Held(d, to)
    BY <1>0, <2>1, <2>3 DEF InHandInv
  <2>5. /\ Figure(samples', events', d, to) = Figure(samples, events, d, to)
        /\ Seen(samples', events', early', d, to)
    BY <2>2, <2>4, FigureOrMark DEF Held
  <2>6. CASE UNCHANGED <<roll>>
    BY <2>4, <2>5, <2>6 DEF Held
  <2>7. CASE RollupReadEvents
    <3>1. /\ roll.pc = "events" /\ roll'.pc = "write"
          /\ roll'.got.session = roll.got.session
          /\ roll'.got.monitor = IF Window(events, DayStart(d), to) = {} THEN roll.got.monitor
                                 ELSE MonitorOnSeconds(events, DayStart(d), to)
      BY <2>1, <2>7, RollOfReadEvents DEF RollupReadEvents
    <3>2. roll'.got.monitor = Figure(samples, events, d, to).monitor
      BY <2>4, <3>1 DEF Held, Figure
    <3>3. QED
      BY <2>4, <2>5, <3>1, <3>2 DEF Held
  <2>8. QED
    BY <1>2, <2>6, <2>7
<1>3. ~RollupTick /\ ~Restart /\ ~RollupWrite /\ \A c \in Days : ~RollupFails(c)
  BY RollOfTick, RollOfRestart, RollOfWrite, RollOfFails
<1>4. QED
  BY <1>1, <1>2, <1>3, RollElsewhere

\* A day the loop has before it, or in hand, stays there until it is current or
\* marked elsewhere.
LEMMA AskedKept ==
    ASSUME RowsInv, RollInv, ClockInv, StageInv, IdleInv, InHandInv, [Next]_vars, Present',
           NEW d \in Days, d \in roll.todo \cup InHand
    PROVE  \/ d \in (roll.todo \cup InHand)'
           \/ Known(d)' \/ Current(d)'
<1>1. /\ roll.pc # "idle"
      /\ d \in roll.todo \/ (roll.pc \in {"events", "write"} /\ d = roll.day)
  BY InHandCases DEF ClockInv, RollInv, Rollup
<1>2. RowsInv' /\ RollInv' /\ Present
  BY RowsStep, RollStep, StillPresent
<1>3. ASSUME NEW c \in Days, RollupDay(c)
      PROVE  d \in (roll.todo \cup InHand)' \/ Current(d)'
  <2>1. roll.pc = "next" /\ d \in roll.todo
    BY <1>1, <1>3 DEF RollupDay
  <2>2. CASE d # c
    BY <1>3, <2>1, <2>2, RollOfDay
  <2>3. CASE d = c /\ roll.at > DayStart(d)
    <3>1. roll'.pc = "events" /\ roll'.day = d
      BY <1>2, <1>3, <2>3, RollOfDay
    <3>2. InHand' = {d}
      BY <3>1 DEF InHand
    <3>3. QED
      BY <3>2
  <2>4. CASE d = c /\ ~(roll.at > DayStart(d))
    <3>1. roll.at <= DayStart(d) /\ d \in Int /\ upTo[d] \in Int
      BY <2>4, ClockTypes
    <3>2. upTo[d] = DayStart(d) /\ stats[d] = Zero
      <4>1. Latest = roll.at
        BY <1>1 DEF Latest
      <4>2. RolledUp(d)
        BY DEF ClockInv
      <4>3. QED
        BY <3>1, <4>1, <4>2, ClockTypes DEF RolledUp
    <3>3. UNCHANGED <<stats, upTo, samples, events>>
      BY <1>3 DEF RollupDay, tables
    <3>4. Seen(samples', events', early', d, DayStart(d))
      BY <1>3, <2>4, <3>1, SeenAtBegin
    <3>5. Figure(samples, events, d, DayStart(d)) = Zero
      BY <3>1, NothingYet, ReportedRows DEF RowsInv
    <3>6. QED
      BY <3>2, <3>3, <3>4, <3>5 DEF Current
  <2>5. QED
    BY <2>2, <2>3, <2>4
<1>4. ASSUME NEW c \in Days, RollupFails(c)
      PROVE  d \in (roll.todo \cup InHand)' \/ Known(d)'
  <2>1. dirty' = dirty \cup {c} /\ roll'.todo = roll.todo \ {c} /\ c \in InHand
    BY <1>4, RollOfFails DEF RollupFails
  <2>2. CASE d = c
    BY <2>1, <2>2 DEF Known
  <2>3. CASE d # c
    <3>1. d \in roll.todo
      BY <1>1, <2>1, <2>3, InHandCases
    <3>2. QED
      BY <2>1, <2>3, <3>1
  <2>4. QED
    BY <2>2, <2>3
<1>5. CASE RollupReadEvents
  <2>1. roll.pc = "events" /\ roll'.pc = "write" /\ roll'.todo = roll.todo /\ roll'.day = roll.day
    BY <1>5, RollOfReadEvents DEF RollupReadEvents
  <2>2. InHand' = {roll.day}
    BY <2>1 DEF InHand
  <2>3. QED
    BY <1>1, <2>1, <2>2
<1>6. CASE RollupWrite
  <2>1. roll.pc = "write" /\ roll'.todo = roll.todo /\ roll.day \in Days
    BY <1>6, RollOfWrite DEF RollupWrite
  <2>2. CASE d \in roll.todo
    BY <2>1, <2>2
  <2>3. ASSUME d = roll.day, ~Known(d)' PROVE Current(d)'
    <3> DEFINE to == DayEnd(d, roll.at)
    <3>1. ~Known(d)
      <4>1. CASE d \in dirty \/ d \in missed \/ \E h \in Handlers : d \in hs[h].days
        BY <1>6, <2>3, <4>1 DEF RollupWrite, Known
      <4>2. QED
        BY <4>1 DEF Known
    <3>2. Held(d, to)
      BY <1>2, <2>1, <2>3, <3>1 DEF InHandInv
    <3>3. UNCHANGED <<samples, events, early>>
      BY <1>6 DEF RollupWrite
    <3>4. /\ upTo'[d] = to
          /\ stats'[d].session = roll.got.session
          /\ stats'[d].monitor = roll.got.monitor
          /\ stats'[d].apps = Figure(samples, events, d, to).apps
          /\ stats'[d] \in FigRec
      BY <1>6, <2>3, RollOfWrite DEF Figure
    <3> HIDE DEF to
    <3> DEFINE f == Figure(samples, events, d, to)
    <3>5. stats'[d].session = f.session /\ stats'[d].monitor = f.monitor /\ stats'[d].apps = f.apps
      BY <2>1, <3>2, <3>4 DEF Held
    <3>6. f = [session |-> f.session, monitor |-> f.monitor, apps |-> f.apps]
      BY DEF Figure
    <3>7. stats'[d] = [session |-> stats'[d].session, monitor |-> stats'[d].monitor,
                       apps |-> stats'[d].apps]
      BY <3>4 DEF FigRec
    <3>8. stats'[d] = f
      BY <3>5, <3>6, <3>7
    <3>9. QED
      BY <3>2, <3>3, <3>4, <3>8 DEF Held, Current
  <2>4. QED
    BY <1>1, <2>2, <2>3
<1>7. ~RollupTick /\ ~Restart
  BY <1>1 DEF RollupTick, Restart, IdleInv
<1>8. CASE UNCHANGED roll
  BY <1>8 DEF InHand
<1>9. CASE Crash
  <2>1. d \in Marked
    BY MarkedDays
  <2>2. QED
    BY <1>9, <2>1 DEF Crash, Known
<1>10. ~RollupDone
  BY <1>1 DEF RollupDone
<1>11. QED
  BY <1>3, <1>4, <1>5, <1>6, <1>7, <1>8, <1>9, <1>10
     DEF Next, Reading, PassTime, Receive, InsertSamples, InsertMonitorEvents, IngestFails,
         MarkDirty, RestartBlind, DeleteDevice, ForgetDirtyDevice, vars

LEMMA CurrentKept ==
    ASSUME RowsInv, RollInv, ClockInv, [Next]_vars, Present',
           NEW d \in Days, Current(d), d \notin InHand
    PROVE  Current(d)' \/ Known(d)'
<1>1. UNCHANGED <<stats[d], upTo[d]>>
  <2>1. CASE RollupWrite
    <3>1. InHand = {roll.day}
      BY <2>1, InHandCases DEF RollupWrite
    <3>2. QED
      BY <2>1, <3>1, RollOfWrite
  <2>2. CASE RollupTick \/ RollupReadEvents \/ Restart \/ \E c \in Days : RollupDay(c) \/ RollupFails(c)
    BY <2>2 DEF RollupTick, RollupReadEvents, Restart, RollupDay, RollupFails, tables, history
  <2>3. QED
    BY <2>1, <2>2, RollElsewhere
<1>2. upTo[d] \in Int /\ upTo[d] <= DayStart(d) + DayLen
  BY ClockTypes DEF ClockInv, RolledUp
<1>3. \/ Known(d)'
      \/ /\ Figure(samples', events', d, upTo[d]) = Figure(samples, events, d, upTo[d])
         /\ Seen(samples, events, early, d, upTo[d]) => Seen(samples', events', early', d, upTo[d])
  BY <1>2, FigureOrMark
<1>4. QED
  BY <1>1, <1>3 DEF Current

LEMMA MarkStep ==
    ASSUME RowsInv, RollInv, ClockInv, StageInv, IdleInv, InHandInv, MarkInv, [Next]_vars
    PROVE  MarkInv'
<1> SUFFICES ASSUME Present', NEW d \in Days
             PROVE  Current(d)' \/ Known(d)' \/ d \in (roll.todo \cup InHand)'
  BY DEF MarkInv
<1>1. Current(d) \/ Known(d) \/ d \in roll.todo \cup InHand
  BY StillPresent DEF MarkInv
<1>2. CASE Known(d)
  BY <1>2, KnownKept
<1>3. CASE d \in roll.todo \cup InHand
  BY <1>3, AskedKept
<1>4. CASE Current(d) /\ d \notin InHand
  BY <1>4, CurrentKept
<1>5. QED
  BY <1>1, <1>2, <1>3, <1>4

RollupsInv == RowsInv /\ RollInv /\ ClockInv /\ StageInv /\ IdleInv /\ InHandInv /\ MarkInv

LEMMA RollupsHold == Spec => []RollupsInv
<1>1. Init => RollupsInv
  <2> SUFFICES ASSUME Init PROVE RollupsInv
    OBVIOUS
  <2>1. RowsInv /\ RollInv /\ ClockInv
    BY RowsInit, RollInit, ClockInit
  <2>2. StageInv /\ IdleInv /\ InHandInv
    BY FreeTyped DEF Init, StageInv, IdleInv, InHandInv, Idle
  <2>3. ASSUME NEW d \in Days PROVE Current(d)
    <3>1. d \in Int /\ upTo[d] = DayStart(d) /\ stats[d] = Zero
      BY DaysAreInts DEF Init, DayStart
    <3>2. Figure(samples, events, d, DayStart(d)) = Zero
      BY <3>1, <2>1, NothingYet, ReportedRows DEF RowsInv
    <3>3. Seen(samples, events, early, d, upTo[d])
      BY DEF Init, Seen, From
    <3>4. QED
      BY <3>1, <3>2, <3>3 DEF Current
  <2>4. QED
    BY <2>1, <2>2, <2>3 DEF RollupsInv, MarkInv
<1>2. RollupsInv /\ [Next]_vars => RollupsInv'
  BY RowsStep, RollStep, ClockStep, StageStep, IdleStep, InHandStep, MarkStep DEF RollupsInv
<1>3. QED
  BY <1>1, <1>2, PTL DEF Spec

-----------------------------------------------------------------------------
(* Unique times.  The device reports each instant once, and INSERT OR IGNORE      *)
(* keeps it that way, so that the tables' integrals are exact.                    *)

UniqueInv ==
    /\ UniqueTimes(held) /\ UniqueTimes(heldEv)
    /\ UniqueTimes(samples) /\ UniqueTimes(events)
    /\ \A h \in Handlers : UniqueTimes(hs[h].samples) /\ UniqueTimes(hs[h].events)

LEMMA UniqueParts ==
    ASSUME NEW rows, UniqueTimes(rows), NEW part \in SUBSET rows
    PROVE  UniqueTimes(part)
BY DEF UniqueTimes

LEMMA UniqueNewRows ==
    ASSUME NEW table, NEW rows, UniqueTimes(table), UniqueTimes(rows), NEW at
    PROVE  UniqueTimes(table \cup NewRows(table, rows, at))
BY DEF UniqueTimes, NewRows

LEMMA UniqueReading ==
    ASSUME now \in Int, NEW rows, Reported(rows, now), UniqueTimes(rows), NEW on
    PROVE  UniqueTimes(rows \cup {[ts |-> now + Skew, on |-> on]})
<1>1. \A r \in rows : r.ts # now + Skew
  BY RollupAssumption DEF Reported, Past, Row
<1>2. QED
  BY <1>1 DEF UniqueTimes

LEMMA NothingUnique == UniqueTimes({})
BY DEF UniqueTimes

LEMMA UniqueStep ==
    ASSUME RowsInv, UniqueInv, [Next]_vars
    PROVE  UniqueInv'
<1> USE DEF UniqueInv
<1>1. hs \in [Handlers -> Request] /\ now \in Int
  BY DEF RowsInv
<1>2. CASE UNCHANGED <<held, heldEv, samples, events, hs>>
  BY <1>2
<1>3. ASSUME NEW on \in {0, 1}, NEW sampled \in BOOLEAN, Reading(on, sampled)
      PROVE  UniqueInv'
  <2> DEFINE row == {[ts |-> now + Skew, on |-> on]}
  <2>1. held' \in {held, held \cup row} /\ heldEv' \in {heldEv, heldEv \cup row}
    BY <1>3 DEF Reading
  <2>2. UniqueTimes(held \cup row) /\ UniqueTimes(heldEv \cup row)
    BY <1>1, UniqueReading DEF RowsInv
  <2>3. UNCHANGED <<samples, events, hs>>
    BY <1>3 DEF Reading, tables
  <2> HIDE DEF row
  <2>4. QED
    BY <2>1, <2>2, <2>3
<1>4. ASSUME NEW h \in Handlers, NEW q, hs' = [hs EXCEPT ![h] = q],
             UniqueTimes(q.samples), UniqueTimes(q.events)
      PROVE  \A g \in Handlers : UniqueTimes(hs'[g].samples) /\ UniqueTimes(hs'[g].events)
  BY <1>1, <1>4
<1>5. ASSUME NEW h \in Handlers, Receive(h)
      PROVE  UniqueInv'
  <2> DEFINE q == [stage |-> "read", samples |-> held, events |-> heldEv, at |-> now,
                   days |-> {}]
  <2>1. /\ hs' = [hs EXCEPT ![h] = q] /\ q.samples = held /\ q.events = heldEv
        /\ UNCHANGED <<held, heldEv, samples, events>>
    BY <1>5 DEF Receive, agentVars, tables
  <2> HIDE DEF q
  <2>2. QED
    BY <1>4, <2>1
<1>6. ASSUME NEW h \in Handlers, InsertSamples(h)
      PROVE  UniqueInv'
  <2> DEFINE days == DaysOf(NewRows(samples, hs[h].samples, hs[h].at))
             q == [hs[h] EXCEPT !.stage = "half", !.days = days]
  <2>1. /\ hs' = [hs EXCEPT ![h].stage = "half", ![h].days = days]
        /\ UNCHANGED <<held, heldEv, events>>
        /\ samples' = samples \cup NewRows(samples, hs[h].samples, hs[h].at)
    BY <1>6 DEF InsertSamples, agentVars
  <2> HIDE DEF days
  <2>2. hs' = [hs EXCEPT ![h] = q] /\ q.samples = hs[h].samples /\ q.events = hs[h].events
    BY <1>1, <2>1 DEF Request
  <2> HIDE DEF q
  <2>3. UniqueTimes(samples')
    BY <2>1, UniqueNewRows
  <2>4. QED
    BY <1>4, <2>1, <2>2, <2>3
<1>7. ASSUME NEW h \in Handlers, InsertMonitorEvents(h)
      PROVE  UniqueInv'
  <2> DEFINE days == hs[h].days \cup DaysOf(NewRows(events, hs[h].events, hs[h].at))
             q == [hs[h] EXCEPT !.stage = "stored", !.days = days]
  <2>1. /\ hs' = [hs EXCEPT ![h].stage = "stored", ![h].days = days]
        /\ UNCHANGED <<held, heldEv, samples>>
        /\ events' = events \cup NewRows(events, hs[h].events, hs[h].at)
    BY <1>7 DEF InsertMonitorEvents, agentVars
  <2> HIDE DEF days
  <2>2. hs' = [hs EXCEPT ![h] = q] /\ q.samples = hs[h].samples /\ q.events = hs[h].events
    BY <1>1, <2>1 DEF Request
  <2> HIDE DEF q
  <2>3. UniqueTimes(events')
    BY <2>1, UniqueNewRows
  <2>4. QED
    BY <1>4, <2>1, <2>2, <2>3
<1>8. ASSUME NEW h \in Handlers, IngestFails(h) \/ \E received \in BOOLEAN : MarkDirty(h, received)
      PROVE  UniqueInv'
  <2>1. /\ hs' = [hs EXCEPT ![h] = Free] /\ UNCHANGED <<samples, events>>
        /\ held' \subseteq held /\ heldEv' \subseteq heldEv
    BY <1>8 DEF IngestFails, MarkDirty, agentVars, tables
  <2>2. UniqueTimes(held') /\ UniqueTimes(heldEv')
    BY <2>1, UniqueParts
  <2>3. QED
    BY <1>4, <2>1, <2>2, FreeTyped, NothingUnique
<1>9. CASE DeleteDevice
  BY <1>9, NothingUnique DEF DeleteDevice, agentVars
<1>10. CASE Crash
  BY <1>10, FreeTyped, NothingUnique DEF Crash, agentVars, tables
<1>11. QED
  BY <1>2, <1>3, <1>5, <1>6, <1>7, <1>8, <1>9, <1>10
     DEF Next, PassTime, RollupTick, RollupDay, RollupReadEvents, RollupWrite, RollupFails,
         RollupDone, Restart, RestartBlind, ForgetDirtyDevice, vars, agentVars, tables

LEMMA UniqueHolds == Spec => [](RollupsInv /\ UniqueInv)
<1>1. Init => UniqueInv
  BY FreeTyped, NothingUnique DEF Init, UniqueInv
<1>2. RollupsInv /\ UniqueInv /\ [Next]_vars => UniqueInv'
  BY UniqueStep DEF RollupsInv
<1>3. QED
  BY <1>1, <1>2, RollupsHold, PTL DEF Spec

LEMMA TablesHold ==
    ASSUME RowsInv, UniqueInv
    PROVE  Table(samples) /\ Table(events)
BY DEF RowsInv, UniqueInv, Table, Reported, Past, Row, Transitions

\* The figures of the tables are what is expected of the day.
LEMMA CurrentAgrees ==
    ASSUME RollupsInv, UniqueInv, NEW d \in Days, Current(d)
    PROVE  Agrees(d)
<1>1. RowsInv /\ RollInv
  BY DEF RollupsInv
<1>2. DayStart(d) \in Int /\ upTo[d] \in Int /\ Table(events)
  BY <1>1, ClockTypes, TablesHold
<1>3. MonitorOnSeconds(events, DayStart(d), upTo[d]) = OnInstants(events, DayStart(d), upTo[d])
  BY <1>2, IntegralExact
<1>4. Expected(d) = Figure(samples, events, d, upTo[d])
  BY <1>3 DEF Expected, Figure
<1>5. QED
  BY <1>4 DEF Agrees, Current, Seen

\* A day is out of date only with a mark: a rollup up to the same instant would make
\* the same of the tables now, the monitor's time counted instant by instant, and the
\* day's later rows were seen and left; or the day is dirty, with a handler or the
\* loop, or written down in missed (server.go handleIngest, markDirty, RunRollups;
\* store.go RollupDay).
THEOREM StaleDaysAreMarked == Spec => []StaleIsMarked
<1>1. RollupsInv /\ UniqueInv => StaleIsMarked
  <2> SUFFICES ASSUME RollupsInv, UniqueInv, Present, NEW d \in Days
               PROVE  Agrees(d) \/ d \in Marked \/ d \in missed
    BY DEF StaleIsMarked
  <2>1. Current(d) \/ Known(d) \/ d \in roll.todo \cup InHand
    BY DEF RollupsInv, MarkInv
  <2>2. QED
    BY <2>1, CurrentAgrees, MarkedDays DEF RollupsInv, Known
<1>2. QED
  BY <1>1, UniqueHolds, PTL

-----------------------------------------------------------------------------
(* Figures.  Every count and integral fits the window it was taken over.          *)

LEMMA CountFits ==
    ASSUME NEW rows, Table(rows), NEW from \in Int, NEW to \in Int, from <= to
    PROVE  LET hits == Window(rows, from, to)
               on == {r \in hits : r.on = 1}
           IN  /\ Cardinality(hits) \in Nat /\ Cardinality(on) \in Nat
               /\ Cardinality(on) <= to - from
<1> DEFINE hits == Window(rows, from, to)
           on == {r \in hits : r.on = 1}
           span == from .. to - 1
           at == [r \in on |-> r.ts]
<1>1. on \subseteq hits /\ hits \subseteq rows /\ IsFiniteSet(rows)
  BY DEF Window, Table
<1>2. Cardinality(hits) \in Nat /\ Cardinality(on) \in Nat
  BY <1>1, FS_Subset, FS_CardinalityType
<1>3. IsFiniteSet(span) /\ Cardinality(span) = to - from
  BY IntervalCount
<1>4. at \in [on -> span]
  BY DEF Window, Table, Transitions
<1>5. \A r, q \in on : at[r] = at[q] => r = q
  BY DEF Window, Table, UniqueTimes
<1>6. at \in Injection(on, span)
  BY <1>4, <1>5 DEF Injection, IsInjective
<1>7. Cardinality(on) <= Cardinality(span)
  <2> HIDE DEF on, span, at
  <2>1. QED
    BY <1>3, <1>6, FS_Injection
<1>8. QED
  BY <1>2, <1>3, <1>7

LEMMA IntegralFits ==
    ASSUME NEW evs, Table(evs), NEW from \in Int, NEW to \in Int, from <= to
    PROVE  /\ MonitorOnSeconds(evs, from, to) \in Nat
           /\ MonitorOnSeconds(evs, from, to) <= to - from
<1> DEFINE span == from .. to - 1
           on == {t \in span : OnAt(evs, t)}
<1>1. IsFiniteSet(span) /\ Cardinality(span) = to - from
  BY IntervalCount
<1>2. on \in SUBSET span
  OBVIOUS
<1>3. MonitorOnSeconds(evs, from, to) = Cardinality(on)
  BY IntegralExact DEF OnInstants
<1> HIDE DEF on, span
<1>4. Cardinality(on) \in Nat /\ Cardinality(on) <= Cardinality(span)
  BY <1>1, <1>2, FS_Subset, FS_CardinalityType
<1>5. QED
  BY <1>1, <1>3, <1>4

LEMMA WindowOfDay ==
    ASSUME NEW d \in Int, NEW at \in Int, at > DayStart(d)
    PROVE  DayStart(d) \in Int /\ DayEnd(d, at) \in Int /\ DayStart(d) <= DayEnd(d, at)
<1>1. DayStart(d) \in Int /\ DayEnd(d, at) \in Int /\ DayEnd(d, at) > DayStart(d)
  BY DayTimes
<1>2. QED
  BY <1>1

FiguresInv ==
    /\ \A d \in Days : stats[d] \in StatRec /\ stats[d].monitor <= upTo[d] - DayStart(d)
    /\ roll.got \in StatRec
    /\ roll.pc \in {"events", "write"} =>
           roll.got.monitor <= DayEnd(roll.day, roll.at) - DayStart(roll.day)

LEMMA ZeroTyped == Zero \in StatRec /\ Zero.monitor = 0 /\ Idle.got = Zero /\ Idle.pc = "idle"
BY DEF Zero, StatRec, Idle

LEMMA FiguresStep ==
    ASSUME RowsInv, RollInv, ClockInv, UniqueInv, FiguresInv, [Next]_vars
    PROVE  FiguresInv'
<1>1. ASSUME NEW d \in Days, RollupDay(d)
      PROVE  FiguresInv'
  <2>1. UNCHANGED <<stats, upTo>> /\ roll'.at = roll.at
    BY <1>1, RollOfDay DEF RollupDay, tables
  <2>2. CASE Present /\ roll.at > DayStart(d)
    <3>1. roll'.day = d /\ roll'.got = Counted(d, roll.at)
      BY <1>1, <2>2, RollOfDay
    <3>2. /\ d \in Int /\ DayStart(d) \in Int /\ DayEnd(d, roll.at) \in Int
          /\ DayStart(d) <= DayEnd(d, roll.at) /\ roll.at \in Int
      <4>1. d \in Int /\ roll.at \in Int /\ roll.at > DayStart(d)
        BY <2>2, ClockTypes
      <4>2. QED
        BY <4>1, WindowOfDay
    <3>3. Table(samples)
      BY TablesHold
    <3> DEFINE from == DayStart(d)
               to == DayEnd(d, roll.at)
    <3> HIDE DEF from, to
    <3>4. LET hits == Window(samples, from, to)
              on == {r \in hits : r.on = 1}
          IN  /\ Cardinality(hits) \in Nat /\ Cardinality(on) \in Nat
              /\ Cardinality(on) <= to - from
      BY <3>2, <3>3, CountFits DEF from, to
    <3>5. Counted(d, roll.at) \in StatRec /\ Counted(d, roll.at).monitor <= to - from
      BY <3>4 DEF Counted, StatRec, from, to
    <3>6. QED
      BY <2>1, <3>1, <3>5 DEF FiguresInv, from, to
  <2>3. CASE ~(Present /\ roll.at > DayStart(d))
    <3>1. roll' = [roll EXCEPT !.todo = @ \ {d}] /\ roll.pc = "next" /\ roll \in Rollup
      BY <1>1, <2>3 DEF RollupDay, RollInv
    <3>2. roll'.pc = "next" /\ roll'.got = roll.got
      BY <3>1 DEF Rollup
    <3>3. QED
      BY <2>1, <3>2 DEF FiguresInv
  <2>4. QED
    BY <2>2, <2>3
<1>2. CASE RollupReadEvents
  <2> DEFINE from == DayStart(roll.day)
             to == DayEnd(roll.day, roll.at)
  <2>1. /\ UNCHANGED <<stats, upTo>> /\ roll.pc = "events" /\ roll.day \in Days
        /\ roll'.at = roll.at /\ roll'.day = roll.day
        /\ roll'.got.session = roll.got.session
        /\ roll'.got.monitor = IF Window(events, from, to) = {} THEN roll.got.monitor
                               ELSE MonitorOnSeconds(events, from, to)
    BY <1>2, RollOfReadEvents DEF RollupReadEvents, tables, history, RollInv
  <2>2. from \in Int /\ to \in Int /\ from <= to
    <3>1. roll.day \in Int /\ roll.at \in Int /\ roll.at > from
      BY <2>1, ClockTypes DEF ClockInv
    <3>2. QED
      BY <3>1, WindowOfDay
  <2>3. /\ MonitorOnSeconds(events, from, to) \in Nat
        /\ MonitorOnSeconds(events, from, to) <= to - from
    BY <2>2, TablesHold, IntegralFits
  <2>4. roll.got \in StatRec /\ roll.got.monitor <= to - from
    BY <2>1 DEF FiguresInv
  <2>5. roll'.got = [roll.got EXCEPT !.monitor = roll'.got.monitor]
    <3>1. roll \in Rollup /\ roll.got \in StatRec
      BY <2>4 DEF RollInv
    <3>2. PICK f : roll' = [roll EXCEPT !.pc = "write", !.got.monitor = f]
      BY <1>2 DEF RollupReadEvents
    <3>3. QED
      BY <3>1, <3>2 DEF Rollup, StatRec
  <2> HIDE DEF from, to
  <2>6. roll'.got.monitor \in Nat /\ roll'.got.monitor <= to - from
    BY <2>1, <2>3, <2>4 DEF StatRec
  <2>7. roll'.got \in StatRec
    BY <2>4, <2>5, <2>6 DEF StatRec
  <2>8. QED
    BY <2>1, <2>6, <2>7 DEF FiguresInv, from, to
<1>3. CASE RollupWrite
  <2> DEFINE from == DayStart(roll.day)
             to == DayEnd(roll.day, roll.at)
             on == {r \in Window(samples, from, to) : r.on = 1}
  <2>1. /\ roll.pc = "write" /\ roll.day \in Days
        /\ \A d \in Days \ {roll.day} : UNCHANGED <<stats[d], upTo[d]>>
        /\ upTo'[roll.day] = to
        /\ roll'.pc = "next"
    BY <1>3, RollOfWrite DEF RollupWrite
  <2>2. roll' = [roll EXCEPT !.pc = "next"] /\ roll \in Rollup
    BY <1>3 DEF RollupWrite, RollInv
  <2>3. roll'.got = roll.got
    BY <2>2 DEF Rollup
  <2>4. stats'[roll.day] = [roll.got EXCEPT !.apps = Cardinality(on)]
    BY <1>3, <2>1 DEF RollupWrite, RollInv
  <2>5. Cardinality(on) \in Nat
    <3>1. from \in Int /\ to \in Int /\ from <= to
      <4>1. roll.day \in Int /\ roll.at \in Int /\ roll.at > from
        BY <2>1, ClockTypes DEF ClockInv
      <4>2. QED
        BY <4>1, WindowOfDay
    <3>2. QED
      BY <3>1, TablesHold, CountFits
  <2>6. roll.got \in StatRec /\ roll.got.monitor <= to - from
    BY <2>1 DEF FiguresInv
  <2> HIDE DEF from, to, on
  <2>7. stats'[roll.day] \in StatRec /\ stats'[roll.day].monitor <= to - from
    BY <2>4, <2>5, <2>6 DEF StatRec
  <2>8. ASSUME NEW d \in Days
        PROVE  stats'[d] \in StatRec /\ stats'[d].monitor <= upTo'[d] - DayStart(d)
    <3>1. CASE d = roll.day
      BY <2>1, <2>7, <3>1 DEF from
    <3>2. CASE d # roll.day
      BY <2>1, <3>2 DEF FiguresInv
    <3>3. QED
      BY <3>1, <3>2
  <2>9. QED
    BY <2>1, <2>3, <2>6, <2>8 DEF FiguresInv
<1>4. CASE RollupTick \/ Restart
  <2>1. roll'.pc = "next" /\ UNCHANGED <<stats, upTo>>
    BY <1>4, RollOfTick, RollOfRestart DEF RollupTick, Restart, tables, history
  <2>2. roll'.got = Zero
    BY <1>4 DEF RollupTick, Restart, Idle
  <2>3. QED
    BY <2>1, <2>2, ZeroTyped DEF FiguresInv
<1>5. ASSUME NEW d \in Days, RollupFails(d)
      PROVE  FiguresInv'
  <2>1. UNCHANGED <<stats, upTo>> /\ roll'.pc = "next"
    BY <1>5, RollOfFails DEF RollupFails, tables, history
  <2>2. roll' = [roll EXCEPT !.pc = "next", !.todo = @ \ {d}] /\ roll \in Rollup
    BY <1>5 DEF RollupFails, RollInv
  <2>3. roll'.got = roll.got
    BY <2>2 DEF Rollup
  <2>4. QED
    BY <2>1, <2>3 DEF FiguresInv
<1>6. CASE /\ ~RollupTick /\ ~RollupReadEvents /\ ~RollupWrite /\ ~Restart
           /\ \A d \in Days : ~RollupDay(d) /\ ~RollupFails(d)
  <2>1. /\ roll' = roll \/ roll' = Idle
        /\ UNCHANGED upTo
        /\ stats' = stats \/ stats' = [d \in Days |-> Zero]
    BY <1>6, RollElsewhere
  <2>2. ASSUME NEW d \in Days
        PROVE  stats'[d] \in StatRec /\ stats'[d].monitor <= upTo'[d] - DayStart(d)
    <3>1. stats'[d] \in {stats[d], Zero}
      BY <2>1
    <3>2. 0 <= upTo[d] - DayStart(d)
      BY ClockTypes DEF ClockInv, RolledUp
    <3>3. QED
      BY <2>1, <3>1, <3>2, ZeroTyped DEF FiguresInv
  <2>3. QED
    BY <2>1, <2>2, ZeroTyped DEF FiguresInv
<1>7. QED
  BY <1>1, <1>2, <1>3, <1>4, <1>5, <1>6

-----------------------------------------------------------------------------
(* The rest of the types, and the theorem about what is stored.                   *)

OthersInv ==
    /\ lastOn \in {-1, 0, 1}
    /\ device \in {"present", "deleting", "gone"}
    /\ phase \in {"down", "catchup", "up"}
    /\ failures \in 0 .. MaxFailures /\ crashes \in 0 .. MaxCrashes
    /\ early \subseteq {"sample", "event"} \X Row

LEMMA OthersStep ==
    ASSUME RowsInv, OthersInv, [Next]_vars
    PROVE  OthersInv'
<1> USE DEF OthersInv
<1>1. MaxFailures \in Nat /\ MaxCrashes \in Nat
  BY RollupAssumption
<1>2. failures' \in 0 .. MaxFailures /\ crashes' \in 0 .. MaxCrashes
  <2>1. /\ failures' = failures \/ (failures < MaxFailures /\ failures' = failures + 1)
        /\ crashes' = crashes \/ (crashes < MaxCrashes /\ crashes' = crashes + 1)
    BY DEF Next, Reading, PassTime, Receive, InsertSamples, InsertMonitorEvents, IngestFails,
           MarkDirty, RollupTick, RollupDay, RollupReadEvents, RollupWrite, RollupFails,
           RollupDone, Crash, Restart, RestartBlind, DeleteDevice, ForgetDirtyDevice, vars,
           Refused
  <2>2. QED
    BY <1>1, <2>1
<1>3. lastOn' \in {-1, 0, 1}
  <2>1. lastOn' = lastOn \/ lastOn' \in {0, 1}
    BY DEF Next, Reading, PassTime, Receive, InsertSamples, InsertMonitorEvents, IngestFails,
           MarkDirty, RollupTick, RollupDay, RollupReadEvents, RollupWrite, RollupFails,
           RollupDone, Crash, Restart, RestartBlind, DeleteDevice, ForgetDirtyDevice, vars,
           agentVars
  <2>2. QED
    BY <2>1
<1>4. /\ device' \in {"present", "deleting", "gone"}
      /\ phase' \in {"down", "catchup", "up"}
  <2>1. /\ device' \in {device, "deleting", "gone"}
        /\ phase' \in {phase, "down", "catchup", "up"}
    BY DEF Next, Reading, PassTime, Receive, InsertSamples, InsertMonitorEvents, IngestFails,
           MarkDirty, RollupTick, RollupDay, RollupReadEvents, RollupWrite, RollupFails,
           RollupDone, Crash, Restart, RestartBlind, DeleteDevice, ForgetDirtyDevice, vars
  <2>2. QED
    BY <2>1
<1>5. early' \subseteq {"sample", "event"} \X Row
  <2>1. ASSUME NEW d \in Days, RollupDay(d)
        PROVE  early' \subseteq {"sample", "event"} \X Row
    <3>1. early' = early \cup ({"sample"} \X From(samples, d, roll.at))
                         \cup ({"event"} \X From(events, d, roll.at))
      BY <2>1 DEF RollupDay
    <3>2. /\ {"sample"} \X From(samples, d, roll.at) \subseteq {"sample", "event"} \X Row
          /\ {"event"} \X From(events, d, roll.at) \subseteq {"sample", "event"} \X Row
      <4>1. /\ From(samples, d, roll.at) \subseteq Row
            /\ From(events, d, roll.at) \subseteq Row
        BY ReportedRows DEF From, RowsInv
      <4>2. QED
        BY <4>1
    <3>3. QED
      BY <3>1, <3>2
  <2>2. CASE UNCHANGED early
    BY <2>2
  <2>3. QED
    BY <2>1, <2>2
       DEF Next, Reading, PassTime, Receive, InsertSamples, InsertMonitorEvents, IngestFails,
           MarkDirty, RollupTick, RollupReadEvents, RollupWrite, RollupFails, RollupDone, Crash,
           Restart, RestartBlind, DeleteDevice, ForgetDirtyDevice, vars, history
<1>6. QED
  BY <1>2, <1>3, <1>4, <1>5

\* What is stored of a day has its type and could have happened: no aggregate counts
\* more than the day has, or time that has not been, though the integral runs to the end
\* of its window whatever state the last transition left (store.go RollupDay).
THEOREM AggregatesHold == Spec => []AggregatesAreSound
<1>1. Init => FiguresInv /\ OthersInv
  <2> SUFFICES ASSUME Init PROVE FiguresInv /\ OthersInv
    OBVIOUS
  <2>1. \A d \in Days : DayStart(d) \in Int /\ upTo[d] = DayStart(d) /\ stats[d] = Zero
    BY DaysAreInts, DayTimes DEF Init, DayStart
  <2>2. FiguresInv
    BY <2>1, ZeroTyped DEF Init, FiguresInv
  <2>3. OthersInv
    BY RollupAssumption DEF Init, OthersInv
  <2>4. QED
    BY <2>2, <2>3
<1>2. (RollupsInv /\ UniqueInv) /\ (FiguresInv /\ OthersInv) /\ [Next]_vars
          => (FiguresInv /\ OthersInv)'
  BY FiguresStep, OthersStep DEF RollupsInv
<1>3. (RollupsInv /\ UniqueInv) /\ (FiguresInv /\ OthersInv) => AggregatesAreSound
  <2> SUFFICES ASSUME RollupsInv, FiguresInv, OthersInv PROVE AggregatesAreSound
    OBVIOUS
  <2>1. RowsInv /\ RollInv /\ ClockInv
    BY DEF RollupsInv
  <2>2. TypeOK
    <3>1. /\ now \in Nat /\ held \subseteq Row /\ heldEv \subseteq Row
          /\ samples \subseteq Row /\ events \subseteq Row
          /\ dirty \subseteq Days /\ missed \subseteq Days /\ upTo \in [Days -> Int]
      BY <2>1, ReportedRows DEF RowsInv, RollInv
    <3>2. stats \in [Days -> StatRec]
      BY <2>1 DEF RollInv, FiguresInv
    <3>3. roll \in [pc : {"idle", "next", "events", "write"}, todo : SUBSET Days,
                    day : Int, at : Nat, got : StatRec]
      BY <2>1 DEF RollInv, Rollup, FiguresInv
    <3>4. hs \in [Handlers -> [stage : {"free", "read", "half", "stored"},
                              samples : SUBSET Row, events : SUBSET Row,
                              at : Nat, days : SUBSET Days]]
      BY <2>1 DEF RowsInv, Request
    <3>5. QED
      BY <3>1, <3>2, <3>3, <3>4 DEF TypeOK, OthersInv
  <2>3. MinutesFitTheDay
    <3> SUFFICES ASSUME NEW d \in Days
                 PROVE  /\ stats[d].monitor <= DayLen
                        /\ stats[d].monitor > 0 => stats[d].monitor <= now - DayStart(d)
      BY DEF MinutesFitTheDay
    <3>1. /\ stats[d].monitor \in Nat /\ stats[d].monitor <= upTo[d] - DayStart(d)
          /\ upTo[d] \in Int /\ DayStart(d) \in Int /\ now \in Int /\ roll.at \in Int
          /\ DayLen \in Int
      BY <2>1, ClockTypes DEF FiguresInv, StatRec
    <3>2. /\ upTo[d] <= DayStart(d) + DayLen
          /\ upTo[d] = DayStart(d) \/ upTo[d] <= now
      <4>1. Latest \in {now, roll.at} /\ roll.at <= now /\ RolledUp(d)
        BY <2>1 DEF Latest, ClockInv
      <4>2. upTo[d] <= DayStart(d) + DayLen /\ (upTo[d] = DayStart(d) \/ upTo[d] <= Latest)
        BY <4>1 DEF RolledUp
      <4> HIDE DEF Latest
      <4>3. QED
        BY <3>1, <4>1, <4>2
    <3>3. QED
      BY <3>1, <3>2
  <2>4. QED
    BY <2>2, <2>3 DEF AggregatesAreSound
<1>4. QED
  BY <1>1, <1>2, <1>3, UniqueHolds, PTL DEF Spec
=============================================================================
