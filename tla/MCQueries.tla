------------------------------- MODULE MCQueries -------------------------------
(* Small tables of one device, and every window of a short time line.       *)
EXTENDS Queries

CONSTANTS
    Horizon,    \* bound: transitions and their windows lie in 0 .. Horizon
    MaxRows,    \* bound: samples in the table
    Offsets,    \* zones
    Ranges      \* numbers of days the dashboard asks for

ASSUME TablesAssumption ==
    /\ Horizon \in Nat /\ MaxRows \in Nat
    /\ Offsets \subseteq Int /\ Ranges \subseteq Nat \ {0}

VARIABLES
    evs, from, to,      \* a set of transitions and a window
    rows, now, offset   \* a table of samples, the server's clock and zone

vars == <<evs, from, to, rows, now, offset>>

Times == 0 .. Horizon
\* Three days, so that a range starts at a time that is not negative.
Stamps == DayLen + 1 .. 3 * DayLen
Kinds == [on : {0, 1}, idle : BOOLEAN, exe : {NoExe, Unknown, 2}, title : {NoTitle, 7}]
Sample(t, k) == [ts |-> t, on |-> k.on, idle |-> k.idle, exe |-> k.exe, title |-> k.title]

\* (device_id, ts) is the primary key of both tables: one row per instant.
InitEvents ==
    /\ \E stamps \in SUBSET Times : \E f \in [stamps -> {0, 1}] :
           evs = {[ts |-> t, on |-> f[t]] : t \in stamps}
    /\ from \in Times /\ to \in Times
    /\ rows = {} /\ now = 2 * DayLen /\ offset = 0

InitSamples ==
    /\ evs = {} /\ from = 0 /\ to = 0
    /\ \E stamps \in kSubset(MaxRows, Stamps) : \E f \in [stamps -> Kinds] :
           rows = {Sample(t, f[t]) : t \in stamps}
    /\ now = 2 * DayLen
    /\ offset \in Offsets

Init == InitEvents \/ InitSamples

\* The window moves on.
MoveWindow ==
    /\ rows = {}
    /\ to < Horizon /\ from < Horizon
    /\ to' = to + 1 /\ from' = from + 1
    /\ UNCHANGED <<evs, rows, now, offset>>

\* The dashboard is looked at again later.
PassTime ==
    /\ rows # {} /\ now < 3 * DayLen
    /\ now' = now + 1
    /\ UNCHANGED <<evs, from, to, rows, offset>>

Next == MoveWindow \/ PassTime

Spec == Init /\ [][Next]_vars

-----------------------------------------------------------------------------
Total(f) == FoldFunction(LAMBDA a, b : a + b, 0, f)

\* The walk over the sorted transitions (MonitorOnSeconds) counts exactly the
\* instants at which the monitor was on, whatever precedes the window, repeats a
\* state or falls on a border of it.
IntegralIsExact == MonitorOnSeconds(evs, from, to) = OnInstants(evs, from, to)

\* The panels of a page say the same: the applications' minutes add up to the
\* device's (overview, top apps), and so do the hours of a day in the heatmap and
\* the day of the signals chart, though each query groups and cuts on its own.
ViewsAgree ==
    \A days \in Ranges :
        LET signals == HandleSignals(rows, now, days)
            heat == HandleHeatmap(rows, now, days)
        IN  /\ HandleSummary(rows, now, offset, days).monitor
                   = Total(HandleTopApps(rows, now, offset, days))
            /\ \A d \in DOMAIN heat : /\ d \in DOMAIN signals
                                      /\ Total(heat[d]) = signals[d].monitor
            /\ Total([d \in DOMAIN signals |-> signals[d].session])
                   = Summary(rows, DayStart(DayUTC(now - days * DayLen)), now).session

\* "Today" on the overview is the device page's day, in any zone: the 24 hour
\* window is the calendar day so far and the hour buckets fall into it.  A sample
\* stamped ahead of the server's clock shows in the timeline alone.
TodayReadsAlike ==
    (\A r \in rows : r.ts < now) =>
        LET hours == HandleTimeline(rows, now, offset)
            today == HandleSummary(rows, now, offset, 1)
        IN  \A m \in {"monitor", "active"} :
                Total([h \in DOMAIN hours |-> hours[h][m]]) = today[m]

\* The titles page offers exactly the applications that have titles to show, and
\* filtering by each of them in turn shows every line of the unfiltered list once.
TitleFilterIsComplete ==
    \A days \in Ranges :
        LET page(exe) == HandleTitles(rows, now, offset, days, exe)
            all == page(NoExe)
        IN  /\ \A exe \in all.apps : DOMAIN page(exe).titles # {}
            /\ \A k \in DOMAIN all.titles :
                   {e \in all.apps : k \in DOMAIN page(e).titles
                                     /\ page(e).titles[k] = all.titles[k]} = {k[2]}

\* Once every day is rolled up the permanent record and the raw samples tell the
\* same story: the trend's days are the days of the signals chart.
TrendAgrees ==
    \A days \in Ranges :
        LET stats == [d \in {DayUTC(r.ts) : r \in rows} |-> RollupStats(rows, d, now)]
            signals == HandleSignals(rows, now, days)
        IN  HandleTrend(stats, now, days) = [d \in DOMAIN signals |-> Screen(signals[d])]

\* The panels never contradict one another: within a page, between pages, between
\* the zones and days they are cut by, and between raw rows and daily record.
PanelsAgree == ViewsAgree /\ TodayReadsAlike /\ TitleFilterIsComplete /\ TrendAgrees
=============================================================================
