-------------------------------- MODULE Rollups --------------------------------
(***************************************************************************)
(* How the server turns a device's rows into permanent daily aggregates.   *)
(*                                                                         *)
(* An ingest handler commits samples, then transitions, then marks the     *)
(* UTC days it touched as dirty, in memory.  A ticker swaps the dirty set  *)
(* away and recomputes each day in several statements, while handlers keep *)
(* committing rows.  The database may refuse any transaction, the process  *)
(* may die between any two steps, and the operator may delete the device.  *)
(* A restart re-marks the days that have recent samples.                   *)
(*                                                                         *)
(* One device: days of different devices share nothing but the dirty map.  *)
(* The agent is what UploadPath shows of it: it holds its rows and sends   *)
(* all of them, in order, until an answer it receives acknowledges them.   *)
(* One unit of time is a minute: a sample stands for one unit.             *)
(***************************************************************************)
EXTENDS MonitorTime

CONSTANTS
    DayLen,         \* length of a UTC day
    MaxBackdate,    \* maxBackdateSecs
    MaxFuture,      \* maxFutureSecs
    CatchUpSpan,    \* CatchUpRollups(3), in time units
    Skew,           \* the device clock minus the server clock
    Handlers,       \* ingest requests that can be at work at a time
    MaxTime,        \* bound: time stops there
    MaxFailures,    \* bound on refused database statements
    MaxCrashes      \* bound on server crashes

ASSUME RollupAssumption ==
    /\ DayLen \in Nat \ {0}
    /\ MaxBackdate \in Nat /\ MaxFuture \in Nat /\ CatchUpSpan \in Nat
    /\ Skew \in Int
    /\ MaxTime \in Nat /\ MaxFailures \in Nat /\ MaxCrashes \in Nat

VARIABLES
    now,        \* the clock
    held,       \* samples the agent holds, unacknowledged
    heldEv,     \* transitions it holds
    lastOn,     \* the monitor state it reported last
    device,     \* the devices row: "present", "deleting" (its rows are gone,
                \* the dirty set not yet cleaned) or "gone"
    samples,    \* its rows in samples
    events,     \* and in monitor_events
    stats,      \* its rows in daily_stats and daily_app_stats, by day
    phase,      \* the server: "down", "catchup" (before it listens) or "up"
    dirty,      \* Server.dirty
    roll,       \* what RunRollups is at
    hs,         \* the ingest handlers
    failures, crashes,
    \* History, never read by an action:
    upTo,       \* the end of the window a day was last rolled up with
    early,      \* rows a rollup of their day left out as later than its clock
    missed      \* days whose mark a failed handler or a crash lost for good, or
                \* that no mark was made for, see Overtaken

agentVars == <<held, heldEv, lastOn>>
tables == <<samples, events, stats>>
history == <<upTo, early, missed>>
vars == <<now, agentVars, device, tables, phase, dirty, roll, hs,
          failures, crashes, history>>

Row == [ts : Int, on : {0, 1}]
DayUTC(ts) == ts \div DayLen
DaysOf(rows) == {DayUTC(r.ts) : r \in rows}

Present == device = "present"

Days == DayUTC(Skew) .. DayUTC(MaxTime + Skew)

\* What daily_stats and daily_app_stats say of a day; no row reads as zeros.
Zero == [session |-> 0, monitor |-> 0, apps |-> 0]
Idle == [pc |-> "idle", todo |-> {}, day |-> 0, at |-> 0, got |-> Zero]
Free == [stage |-> "free", samples |-> {}, events |-> {}, at |-> 0, days |-> {}]

Init ==
    /\ now = 0
    /\ held = {} /\ heldEv = {} /\ lastOn = -1
    /\ device = "present"
    /\ samples = {} /\ events = {}
    /\ stats = [d \in Days |-> Zero]
    /\ phase = "up"
    /\ dirty = {}
    /\ roll = Idle
    /\ hs = [h \in Handlers |-> Free]
    /\ failures = 0 /\ crashes = 0
    /\ upTo = [d \in Days |-> d * DayLen]
    /\ early = {}
    /\ missed = {}

-----------------------------------------------------------------------------
(* The agent and the clock.                                                *)

\* A minute of the device: a sample unless the sampler fails, and a transition
\* if the monitor changed.
Reading(on, sampled) ==
    /\ now < MaxTime
    /\ sampled \/ on # lastOn
    /\ LET row == {[ts |-> now + Skew, on |-> on]}
       IN  /\ held' = IF sampled THEN held \cup row ELSE held
           /\ heldEv' = IF on # lastOn THEN heldEv \cup row ELSE heldEv
    /\ lastOn' = on
    /\ now' = now + 1
    /\ UNCHANGED <<device, tables, phase, dirty, roll, hs, failures, crashes,
                   history>>

PassTime ==
    /\ now < MaxTime
    /\ now' = now + 1
    /\ UNCHANGED <<agentVars, device, tables, phase, dirty, roll, hs, failures,
                   crashes, history>>

\* A request with everything held reaches the handler: the token names the
\* device, the time is taken once.
Receive(h) ==
    /\ Present /\ phase = "up"
    /\ hs[h].stage = "free"
    /\ held # {} \/ heldEv # {}
    /\ hs' = [hs EXCEPT ![h] = [stage |-> "read", samples |-> held,
                                events |-> heldEv, at |-> now, days |-> {}]]
    /\ UNCHANGED <<now, agentVars, device, tables, phase, dirty, roll,
                   failures, crashes, history>>

-----------------------------------------------------------------------------
(* handleIngest.                                                           *)

InWindow(ts, at) == ts >= at - MaxBackdate /\ ts <= at + MaxFuture

\* INSERT OR IGNORE: the rows that are in the window and have a new timestamp.
NewRows(table, rows, at) ==
    {r \in rows : InWindow(r.ts, at) /\ \A q \in table : q.ts # r.ts}

\* Mutant: foreign keys are not enforced.
InsertSamplesUnchecked(h) ==
    LET new == NewRows(samples, hs[h].samples, hs[h].at)
    IN  /\ hs[h].stage = "read"
        /\ samples' = samples \cup new
        /\ hs' = [hs EXCEPT ![h].stage = "half", ![h].days = DaysOf(new)]
        /\ UNCHANGED <<now, agentVars, device, events, stats, phase, dirty, roll,
                       failures, crashes, history>>

\* The first transaction.  Without the devices row the foreign key refuses it.
InsertSamples(h) ==
    LET new == NewRows(samples, hs[h].samples, hs[h].at)
    IN  /\ hs[h].stage = "read"
        /\ Present \/ new = {}
        /\ samples' = samples \cup new
        /\ hs' = [hs EXCEPT ![h].stage = "half", ![h].days = DaysOf(new)]
        /\ UNCHANGED <<now, agentVars, device, events, stats, phase, dirty, roll,
                       failures, crashes, history>>

\* The days that have transitions of their own and begin in another state than they
\* were integrated from, once these are stored: only those of the new rows are marked.
Overtaken(new) ==
    DaysOf({e \in events : \E r \in new : DayUTC(r.ts) < DayUTC(e.ts)})

\* The second one.
InsertMonitorEvents(h) ==
    LET new == NewRows(events, hs[h].events, hs[h].at)
    IN  /\ hs[h].stage = "half"
        /\ Present \/ new = {}
        /\ events' = events \cup new
        /\ hs' = [hs EXCEPT ![h].stage = "stored", ![h].days = @ \cup DaysOf(new)]
        /\ missed' = missed \cup Overtaken(new)
        /\ UNCHANGED <<now, agentVars, device, samples, stats, phase, dirty, roll,
                       failures, crashes, upTo, early>>

\* Mutant: only the samples' days are marked.
MarkDirtySamples(h, received) ==
    /\ hs[h].stage = "stored"
    /\ dirty' = dirty \cup (hs[h].days \cap DaysOf(hs[h].samples))
    /\ missed' = missed \ hs[h].days
    /\ held' = IF received THEN held \ hs[h].samples ELSE held
    /\ heldEv' = IF received THEN heldEv \ hs[h].events ELSE heldEv
    /\ hs' = [hs EXCEPT ![h] = Free]
    /\ UNCHANGED <<now, lastOn, device, tables, phase, roll, failures, crashes, upTo, early>>

\* markDirty, then the 200, which the agent receives or not.
MarkDirty(h, received) ==
    /\ hs[h].stage = "stored"
    /\ dirty' = dirty \cup hs[h].days
    /\ missed' = missed \ hs[h].days
    /\ held' = IF received THEN held \ hs[h].samples ELSE held
    /\ heldEv' = IF received THEN heldEv \ hs[h].events ELSE heldEv
    /\ hs' = [hs EXCEPT ![h] = Free]
    /\ UNCHANGED <<now, lastOn, device, tables, phase, roll, failures, crashes, upTo, early>>

\* The database refuses a statement: a fault, or the foreign key once the
\* devices row is gone (not counted against the bound).
Refused ==
    IF Present THEN /\ failures < MaxFailures
                    /\ failures' = failures + 1
               ELSE UNCHANGED failures

\* A transaction is refused: 500.  Days already committed are not marked, and a
\* retry finds their rows in the table.
IngestFails(h) ==
    /\ hs[h].stage \in {"read", "half"}
    /\ Refused
    /\ missed' = missed \cup hs[h].days
    /\ hs' = [hs EXCEPT ![h] = Free]
    /\ UNCHANGED <<now, agentVars, device, tables, phase, dirty, roll, crashes, upTo, early>>

-----------------------------------------------------------------------------
(* RunRollups.                                                             *)

\* The ticker fires: take the dirty set, leave an empty one, read the clock.
RollupTick ==
    /\ phase = "up" /\ roll.pc = "idle"
    /\ dirty # {}
    /\ roll' = [Idle EXCEPT !.pc = "next", !.todo = dirty, !.at = now]
    /\ dirty' = {}
    /\ UNCHANGED <<now, agentVars, device, tables, phase, hs, failures, crashes,
                   history>>

DayStart(d) == d * DayLen
\* Mutant: a day still running is rolled up to its end.
DayEndFull(d, at) == DayStart(d) + DayLen

\* A day still running is rolled up to the clock.
DayEnd(d, at) == IF at < DayStart(d) + DayLen THEN at ELSE DayStart(d) + DayLen

\* The rows of day d at or after t.
From(rows, d, t) == {r \in rows : DayUTC(r.ts) = d /\ r.ts >= t}

\* Mutant: the rollup does not check that the device exists.
RollupDayUnchecked(d) ==
    /\ roll.pc = "next"
    /\ d \in roll.todo
    /\ LET rows == Window(samples, DayStart(d), DayEnd(d, roll.at))
           got == [session |-> Cardinality(rows),
                   monitor |-> Cardinality({r \in rows : r.on = 1}), apps |-> 0]
           next == [roll EXCEPT !.todo = @ \ {d}]
       IN  roll' = IF roll.at > DayStart(d)
                   THEN [next EXCEPT !.pc = "events", !.day = d, !.got = got]
                   ELSE next
    /\ early' = early \cup ({"sample"} \X From(samples, d, roll.at))
                     \cup ({"event"} \X From(events, d, roll.at))
    /\ UNCHANGED <<now, agentVars, device, tables, phase, dirty, hs, failures,
                   crashes, upTo, missed>>

\* RollupDay(d): no such device, or the day has not begun: nothing to do.
\* Otherwise count the day's samples.
RollupDay(d) ==
    /\ roll.pc = "next"
    /\ d \in roll.todo
    /\ LET rows == Window(samples, DayStart(d), DayEnd(d, roll.at))
           got == [session |-> Cardinality(rows),
                   monitor |-> Cardinality({r \in rows : r.on = 1}), apps |-> 0]
           next == [roll EXCEPT !.todo = @ \ {d}]
       IN  roll' = IF Present /\ roll.at > DayStart(d)
                   THEN [next EXCEPT !.pc = "events", !.day = d, !.got = got]
                   ELSE next
    /\ early' = early \cup ({"sample"} \X From(samples, d, roll.at))
                     \cup ({"event"} \X From(events, d, roll.at))
    /\ UNCHANGED <<now, agentVars, device, tables, phase, dirty, hs, failures,
                   crashes, upTo, missed>>

\* With transitions in the day, the exact time replaces the count of samples.  The code
\* asks in several statements; what is committed between two of them is here committed
\* after the step, and its handler marks the day afterwards either way.  The rounding to
\* minutes is left out, since times are whole minutes.
RollupReadEvents ==
    /\ roll.pc = "events"
    /\ LET from == DayStart(roll.day)
           to == DayEnd(roll.day, roll.at)
       IN  roll' = [roll EXCEPT !.pc = "write", !.got.monitor =
                       IF Window(events, from, to) = {} THEN @
                       ELSE MonitorOnSeconds(events, from, to)]
    /\ UNCHANGED <<now, agentVars, device, tables, phase, dirty, hs, failures,
                   crashes, history>>

\* One transaction: upsert the day's stats and recount its apps.
RollupWrite ==
    LET d == roll.day
        rows == Window(samples, DayStart(d), DayEnd(d, roll.at))
    IN  /\ roll.pc = "write" /\ Present
        /\ stats' = [stats EXCEPT ![d] =
               [roll.got EXCEPT !.apps = Cardinality({r \in rows : r.on = 1})]]
        /\ upTo' = [upTo EXCEPT ![d] = DayEnd(d, roll.at)]
        /\ roll' = [roll EXCEPT !.pc = "next"]
        /\ UNCHANGED <<now, agentVars, device, samples, events, phase, dirty, hs,
                       failures, crashes, early, missed>>

\* The days a refused statement of the rollup can belong to.
InHand == CASE roll.pc = "idle" -> {}
            [] roll.pc = "next" -> roll.todo
            [] OTHER -> {roll.day}

\* Mutant: a day whose rollup failed is forgotten.
RollupForgets(d) ==
    /\ d \in InHand
    /\ Present \/ roll.pc = "write"
    /\ Refused
    /\ roll' = [roll EXCEPT !.pc = "next", !.todo = @ \ {d}]
    /\ UNCHANGED <<now, agentVars, device, tables, phase, dirty, hs, crashes,
                   history>>

\* A statement is refused (the upsert always is, once the device is gone): the
\* day is marked again.
RollupFails(d) ==
    /\ d \in InHand
    /\ Present \/ roll.pc = "write"
    /\ Refused
    /\ dirty' = dirty \cup {d}
    /\ roll' = [roll EXCEPT !.pc = "next", !.todo = @ \ {d}]
    /\ UNCHANGED <<now, agentVars, device, tables, phase, hs, crashes, history>>

\* All days done.  The start's own run is over: the server begins to listen.
RollupDone ==
    /\ roll.pc = "next" /\ roll.todo = {}
    /\ roll' = Idle
    /\ phase' = "up"
    /\ UNCHANGED <<now, agentVars, device, tables, dirty, hs, failures, crashes,
                   history>>

-----------------------------------------------------------------------------
(* Crash, restart, deletion.                                               *)

\* The days whose recomputation only the process's memory still asks for.
Marked == dirty \cup roll.todo \cup InHand \cup UNION {hs[h].days : h \in Handlers}

\* The process dies.
Crash ==
    /\ phase # "down" /\ crashes < MaxCrashes
    /\ crashes' = crashes + 1
    /\ phase' = "down"
    /\ missed' = missed \cup Marked
    /\ dirty' = {} /\ roll' = Idle
    /\ hs' = [h \in Handlers |-> Free]
    /\ device' = IF Present THEN device ELSE "gone"
    /\ UNCHANGED <<now, agentVars, tables, failures, upTo, early>>

\* RecentSampleDays, then RunRollups over them before the server listens.  What
\* is found again is no longer missed.
Restart ==
    LET found == DaysOf({r \in samples : r.ts >= now - CatchUpSpan})
    IN  /\ phase = "down"
        /\ phase' = "catchup"
        /\ roll' = [Idle EXCEPT !.pc = "next", !.todo = found, !.at = now]
        /\ missed' = missed \ found
        /\ UNCHANGED <<now, agentVars, device, tables, dirty, hs, failures,
                       crashes, upTo, early>>

\* The scan of RecentSampleDays fails: the server starts without it.
RestartBlind ==
    /\ phase = "down" /\ failures < MaxFailures
    /\ failures' = failures + 1
    /\ phase' = "up"
    /\ UNCHANGED <<now, agentVars, device, tables, dirty, roll, hs, crashes,
                   history>>

\* DeleteDevice: one transaction over all tables.
DeleteDevice ==
    /\ phase = "up" /\ Present
    /\ device' = "deleting"
    /\ samples' = {} /\ events' = {}
    /\ stats' = [d \in Days |-> Zero]
    /\ UNCHANGED <<now, agentVars, phase, dirty, roll, hs, failures, crashes,
                   history>>

\* Then forgetDirtyDevice.
ForgetDirtyDevice ==
    /\ device = "deleting"
    /\ device' = "gone"
    /\ dirty' = {}
    /\ UNCHANGED <<now, agentVars, tables, phase, roll, hs, failures, crashes,
                   history>>

-----------------------------------------------------------------------------
Next ==
    \/ \E on \in {0, 1}, sampled \in BOOLEAN : Reading(on, sampled)
    \/ PassTime
    \/ \E h \in Handlers : \/ Receive(h) \/ InsertSamples(h)
                           \/ InsertMonitorEvents(h) \/ IngestFails(h)
                           \/ \E received \in BOOLEAN : MarkDirty(h, received)
    \/ RollupTick
    \/ \E d \in Days : RollupDay(d) \/ RollupFails(d)
    \/ RollupReadEvents \/ RollupWrite \/ RollupDone
    \/ Crash \/ Restart \/ RestartBlind
    \/ DeleteDevice \/ ForgetDirtyDevice

Spec == Init /\ [][Next]_vars

\* Handlers and the rollup loop run, the ticker fires, the service is restarted.
Fairness ==
    /\ \A h \in Handlers :
          /\ WF_vars(InsertSamples(h) \/ InsertMonitorEvents(h) \/ IngestFails(h))
          /\ WF_vars(\E received \in BOOLEAN : MarkDirty(h, received))
    /\ WF_vars(RollupTick)
    /\ WF_vars((\E d \in Days : RollupDay(d) \/ RollupFails(d))
               \/ RollupReadEvents \/ RollupWrite \/ RollupDone)
    /\ WF_vars(Restart \/ RestartBlind)
    /\ WF_vars(ForgetDirtyDevice)

FairSpec == Spec /\ Fairness

-----------------------------------------------------------------------------
(* What the aggregates promise.                                            *)

StatRec == [session : Nat, monitor : Nat, apps : Nat]

TypeOK ==
    /\ now \in Nat
    /\ held \subseteq Row /\ heldEv \subseteq Row /\ lastOn \in {-1, 0, 1}
    /\ device \in {"present", "deleting", "gone"}
    /\ samples \subseteq Row /\ events \subseteq Row
    /\ stats \in [Days -> StatRec]
    /\ phase \in {"down", "catchup", "up"}
    /\ dirty \subseteq Days
    /\ roll \in [pc : {"idle", "next", "events", "write"}, todo : SUBSET Days,
                 day : Int, at : Nat, got : StatRec]
    /\ hs \in [Handlers -> [stage : {"free", "read", "half", "stored"},
                           samples : SUBSET Row, events : SUBSET Row,
                           at : Nat, days : SUBSET Days]]
    /\ failures \in 0 .. MaxFailures /\ crashes \in 0 .. MaxCrashes
    /\ upTo \in [Days -> Int] /\ missed \subseteq Days
    /\ early \subseteq {"sample", "event"} \X Row

\* What a day's aggregates should say of the window they were computed over, the
\* monitor's time counted instant by instant.
Expected(d) ==
    LET rows == Window(samples, DayStart(d), upTo[d])
        on == Cardinality({r \in rows : r.on = 1})
    IN  [session |-> Cardinality(rows),
         monitor |-> IF Window(events, DayStart(d), upTo[d]) = {} THEN on
                     ELSE OnInstants(events, DayStart(d), upTo[d]),
         apps |-> on]

\* Nothing in the window has changed since, and nothing after it was overlooked.
Agrees(d) ==
    /\ stats[d] = Expected(d)
    /\ {"sample"} \X From(samples, d, upTo[d]) \subseteq early
    /\ {"event"} \X From(events, d, upTo[d]) \subseteq early

\* A day whose aggregates are out of date is always known to be: it is dirty, a
\* rollup has it in hand, or a handler is about to mark it, however commits, swaps
\* of the dirty set, reads and writes of a rollup, failures and restarts
\* interleave.  The exception is written down in missed.
StaleIsMarked ==
    Present => \A d \in Days : Agrees(d) \/ d \in Marked \/ d \in missed

\* No aggregate counts time that has not been: a monitor left on is not integrated
\* into the rest of the day.
MinutesFitTheDay ==
    \A d \in Days : /\ stats[d].monitor <= DayLen
                    /\ stats[d].monitor > 0 => stats[d].monitor <= now - DayStart(d)

\* What is stored of a day has its type and could have happened.
AggregatesAreSound == TypeOK /\ MinutesFitTheDay

\* Deletion is final: no handler or rollup that was under way writes the device's
\* rows back.
DeletedLeavesNothing ==
    ~Present => /\ samples = {} /\ events = {}
                /\ \A d \in Days : stats[d] = Zero

\* The agent has its 200 for everything, and the server runs.
AllAcknowledged == Present /\ phase = "up" /\ held = {} /\ heldEv = {}

\* Every stored sample is counted in its day, or its day is due for a rollup.
NoMinuteVanishes ==
    AllAcknowledged =>
        \A d \in Days \ Marked :
            stats[d].session = Cardinality({r \in samples : DayUTC(r.ts) = d})

\* An out-of-date day is recomputed.
StaleHeals ==
    \A d \in Days : [](~Agrees(d) => <>(Agrees(d) \/ d \in missed \/ ~Present))

\* The rollup ticker does not go on for ever about a device that is gone.
GoneIsForgotten == <>[](device = "gone" => dirty = {})

\* The rollups come to rest, with everything recomputed that has to be.
RollupsSettle == StaleHeals /\ GoneIsForgotten
=============================================================================
