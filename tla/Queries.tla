------------------------------- MODULE Queries -------------------------------
(***************************************************************************)
(* The dashboard's queries over one device's rows (store.go) and the       *)
(* windows their handlers ask for (server.go).                             *)
(*                                                                         *)
(* A row is a sample: `on' and `idle' are its monitor_on and is_idle, an   *)
(* exe is a number in alphabetical order, 0 for an empty or missing name,  *)
(* titled says whether it has a window title and which.  A query's LIMIT   *)
(* and ORDER BY, and the search text of the titles page, are left out.     *)
(* The server's zone has a fixed offset: no day is longer than another.    *)
(***************************************************************************)
EXTENDS MonitorTime

CONSTANTS
    HourLen,        \* length of an hour
    DayHours        \* hours of a day

ASSUME QueryAssumption == HourLen \in Nat \ {0} /\ DayHours \in Nat \ {0}

DayLen == HourLen * DayHours
DayUTC(t) == t \div DayLen
DayStart(d) == d * DayLen

NoTitle == 0
NoExe == 0
Unknown == 1        \* '(unknown)', which also sorts before any letter
ExeName(row) == IF row.exe = NoExe THEN Unknown ELSE row.exe

On(rows) == {r \in rows : r.on = 1}

\* The minutes of the signals: monitor on, on and not idle, input while off, any.
Tally(rows) ==
    [monitor |-> Cardinality(On(rows)),
     active  |-> Cardinality({r \in On(rows) : ~r.idle}),
     macro   |-> Cardinality({r \in rows \ On(rows) : ~r.idle}),
     session |-> Cardinality(rows)]

-----------------------------------------------------------------------------
(* The queries.                                                            *)

Summary(rows, since, until) == Tally(Window(rows, since, until))

\* Hours are relative to the start the handler passes.
DeviceTimeline(rows, dayStart) ==
    [h \in 0 .. DayHours - 1 |->
        Tally({r \in Window(rows, dayStart, dayStart + DayLen) :
                  (r.ts - dayStart) \div HourLen = h})]

\* Mutant: samples without a process name are left out.
TopAppsNamed(rows, from, to) ==
    LET on == {r \in On(Window(rows, from, to)) : r.exe # NoExe}
    IN  [e \in {r.exe : r \in on} |-> Cardinality({r \in on : r.exe = e})]

DeviceTopApps(rows, from, to) ==
    LET on == On(Window(rows, from, to))
    IN  [e \in {ExeName(r) : r \in on} |-> Cardinality({r \in on : ExeName(r) = e})]

Titled(rows, from, to) == {r \in On(Window(rows, from, to)) : r.title # NoTitle}

\* exe = NoExe: no filter.
DeviceTitles(rows, from, to, exe) ==
    LET hits == {r \in Titled(rows, from, to) : exe = NoExe \/ ExeName(r) = exe}
        Key(r) == <<r.title, ExeName(r)>>
    IN  [k \in {Key(r) : r \in hits} |->
            [minutes |-> Cardinality({r \in hits : Key(r) = k}),
             last |-> Last(ByTime({r \in hits : Key(r) = k})).ts]]

\* Mutant: the names as stored, without the placeholder.
TitleAppsStored(rows, from, to) == {r.exe : r \in Titled(rows, from, to)}

DeviceTitleApps(rows, from, to) == {ExeName(r) : r \in Titled(rows, from, to)}

\* Sparse in the code; the handler fills the other days with zeros.
DeviceSignals(rows, from, to) ==
    [d \in {DayUTC(r.ts) : r \in Window(rows, from, to)} |->
        Tally({r \in Window(rows, from, to) : DayUTC(r.ts) = d})]

\* Dense: a line for each day from the one of `from' on.
DeviceHeatmap(rows, from, to) ==
    [d \in {t \in DayUTC(from) .. DayUTC(to) : DayStart(t) < to} |->
        [h \in 0 .. DayHours - 1 |->
            Cardinality({r \in On(Window(rows, from, to)) :
                            DayUTC(r.ts) = d /\ (r.ts % DayLen) \div HourLen = h})]]

\* RollupDay where no transition was recorded, and the row Trend sums.
RollupStats(rows, d, now) ==
    LET end == IF now < DayStart(d) + DayLen THEN now ELSE DayStart(d) + DayLen
    IN  Tally(Window(rows, DayStart(d), end))

-----------------------------------------------------------------------------
(* The handlers' windows.                                                  *)

\* Midnight of now's day in a zone `offset' ahead of UTC.
LocalMidnight(now, offset) == DayStart((now + offset) \div DayLen) - offset

\* Mutant: a rolling 24 hours.
RangeStartRolling(now, offset, days) == now - days * DayLen

\* The last `days' calendar days, today included.
RangeStart(now, offset, days) == LocalMidnight(now, offset) - (days - 1) * DayLen

Fill(sparse, axis, zero) == [d \in axis |-> IF d \in DOMAIN sparse THEN sparse[d] ELSE zero]

HandleSummary(rows, now, offset, days) ==
    Summary(rows, RangeStart(now, offset, days), now)

HandleTimeline(rows, now, offset) == DeviceTimeline(rows, LocalMidnight(now, offset))

HandleTopApps(rows, now, offset, days) ==
    DeviceTopApps(rows, RangeStart(now, offset, days), now)

HandleTitles(rows, now, offset, days, exe) ==
    [titles |-> DeviceTitles(rows, RangeStart(now, offset, days), now, exe),
     apps |-> DeviceTitleApps(rows, RangeStart(now, offset, days), now)]

\* The axis of the charts that bucket by UTC day: from the day a range ago.
Axis(now, days) == DayUTC(now - days * DayLen) .. DayUTC(now)

\* Mutant: the first day begins a range ago, not at its midnight.
HandleSignalsRolling(rows, now, days) ==
    Fill(DeviceSignals(rows, now - days * DayLen, now), Axis(now, days), Tally({}))

HandleSignals(rows, now, days) ==
    Fill(DeviceSignals(rows, DayStart(DayUTC(now - days * DayLen)), now),
         Axis(now, days), Tally({}))

HandleHeatmap(rows, now, days) ==
    DeviceHeatmap(rows, DayStart(DayUTC(now - (days - 1) * DayLen)), now)

Screen(tally) == [monitor |-> tally.monitor, active |-> tally.active]

\* stats: the device's daily_stats rows, by day.
HandleTrend(stats, now, days) ==
    Fill([d \in DOMAIN stats |-> Screen(stats[d])], Axis(now, days), Screen(Tally({})))
=============================================================================
