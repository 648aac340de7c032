# fabscreentime, specified

TLA+ modules, TLC configurations and TLAPS proofs for fabscreentime: Windows
agents that log screen time once a minute, and a Go server with an SQLite
database that stores, aggregates and shows it. This file says what the system
is, which part of it each module models, what the runs and the proofs show, and
what is left out. Paths are relative to the repository (`internal/agent/core.go`
and so on).

## 1. The system

    Windows PC (one agent process, several goroutines)         server (one process, SQLite)
    -------------------------------------------------          -----------------------------
    sampler --> Tick --> Queue (memory + queue.json)
                  |                                  POST /api/ingest
                  +--> flush ------------------------------->  handleIngest
    monitorPollLoop --> pendingEvents (memory) --^               DeviceByToken, TouchDevice,
                                                                 DeviceLogTitles,
                                                                 InsertSamples  (transaction)
                                                                 InsertMonitorEvents (transaction)
                                                                 markDirty (memory)
                  <----- 200 + update manifest --------------    answer
    SelfUpdater: verify, rename, write, relaunch               RunRollups ticker --> daily_stats
    EvaluateStartup / RollbackToOld at every start             CatchUpRollups at start
    enroll.json --> Enroll --> credentials.json <-----------   handleEnroll (one-time secret)
                                                               operator: prepare, revoke, opt out,
                                                               clear titles, rename, delete

### Inventory

| component | state | operations | correct when |
|---|---|---|---|
| sample cycle, queue, upload (`core.go`, `queue.go`, `uploader.go`) | `Queue.buf` and `queue.json`; `pendingEvents`, `lastMonitorOn` in memory; one cycle at a time (`tickBusy`) | `Tick`, `flush`, `Enqueue`, `Ack`, `ackEvents`, `recordTransition`, load at start | nothing is lost on a path not meant to lose it, nothing overtakes, the backlog drains |
| ingest handler (`server.go`, `store.go`) | rows of `samples`, `monitor_events`; `Server.dirty` | body cap, token, two insert transactions, `markDirty`, answer | a retry or a late duplicate is harmless; every commit marks its days |
| daily rollup (`server.go`, `store.go`) | `daily_stats`, `daily_app_stats`; the swapped-out dirty set | `RunRollups`, `RollupDay`, `CatchUpRollups`, `forgetDirtyDevice` | an aggregate that is out of date is known to be, and is recomputed |
| monitor-on time (`MonitorOnSeconds`) | none | integrate on/off transitions over a window | it is the number of instants the monitor was on |
| self-update and rollback (`selfupdate.go`, `rollback.go`, `main.go`) | `agent.exe`, `.old`, `.bad`; `update-state.json`; the process | `EvaluateStartup`, `RollbackToOld`, `MarkCheckedIn`, `prepare`, `applyUpdateAt`, `Relaunch`, `MarkCleanExit` | a working binary survives, a bad build is left and not taken again |
| enrollment and device registry (`enroll.go`, `creds.go`, `store.go`, `main.go`) | `devices` row; `enroll.json`, `credentials.json`; identity in memory | prepare, enroll with retry, save, revoke, opt out, clear titles, delete, the lookups of an ingest | one computer per identity; rows belong to who sent them; an opt-out holds |
| run loop, watchdog, single instance (`core.go` `Run`, `singleton_windows.go`, `main.go`) | `tickBusy`, `tickStarted`, the ticker, the named mutex, the scheduled task | tick, skip, stall detection, relaunch, give up | a stuck cycle is replaced, a slow one is not, there is an agent again |
| system information (`sysinfo.go`, `core.go`, `server/sysinfo.go`, `TouchDevice`) | `sysInfo`, `sysInfoSent` with its time; `agent_build` and `system_info` of the row; `device_events` | collect, attach, mark as sent; read, update, log and store at the server; the parsing of firmware tables | what the agent holds for known is in the row; the server ends up with the inventory; every change of build is on record |
| alerts (`alerts.go`) | `alerted`, `alertSeeded` in memory | periodic check, notify, dead-man ping | one alert per outage, one recovery per alert |
| rate limiter (`server.go`) | stamps of admitted attempts per address | `allow` | at most max in a window, and no refusal without as many admissions |
| dashboard queries (`store.go`) | none | summary, trend, timeline, heatmap, signals, top apps, titles | they agree with each other and with the rows |
| update signing (`internal/update`, `cmd/fst-sign`) | keys | sign, verify | library cryptography |
| DDC and monitor probes, sampler (`ddc_windows.go`, `sampler_windows.go`, `core.go` `deriveMonitorOn`) | `ddcWatcher.power`, `.armed` (two atomics) | probe, arm, read; derive "on"; idle time from two tick counts | a display that cannot answer is on, one that said it is off is off |
| installer and autostart (`install_windows.go`, `main.go`) | the scheduled task, files in two directories, agent processes | install, uninstall, `EnsureAutostart` | an uninstallation leaves nothing that runs, enrolls or reports, whatever starts meanwhile |
| log file (`logfile.go`) | `agent.log`, `agent.log.1`, bytes since the last check | open, rotate, write, reopen | the recent lines are kept, the size is bounded |
| web dashboard, `cmd/montest` | - | DOM, Win32 | pure I/O |

### What is hard in it

* Two goroutines of the agent share the event buffer; an acknowledgement removes
  entries **by count** while the other goroutine appends and drops.
* Every upload can be cut: a request carried out after its sender gave up, an
  answer lost after a commit, half a request committed. The agent then sends
  everything again, perhaps while the first request is still at work.
* The queue lives in memory and in a file whose write may fail; the process may
  die at any moment.
* The ingest handler is four to six database accesses, not one transaction; the
  rollup ticker, the operator and other ingests run in between. The set of days
  to recompute is in memory only.
* The agent replaces its own binary by a rename and a write, and decides at each
  start, from a small file whose errors are ignored, whether to undo that.
* Enrollment issues a credential in an answer that may be lost.
* A watchdog that restarts the process judges by a clock; the new process races
  the old one, the scheduled task's probe and perhaps a second relaunch for one
  mutex. Whether a wedge ends before the server calls the device offline depends on
  four constants in two programs.
* A request's build and inventory are applied in four statements, two of whose errors
  are swallowed; an abandoned request may be carried out after newer ones.
* Handlers take the limiter's lock in another order than they read the clock.
* The DDC watcher publishes power and "armed" in two stores, read by two goroutines.
* The task fires, and agents repair it or enroll, in the middle of an uninstallation,
  which ignores that a removal is refused.
* Firmware tables break off or lie about their lengths; counts overflow into escape
  values and longer fields.
* Eight dashboard queries cut and group the same rows on their own: by local
  midnight, by UTC day, by hours from a given start.

`PROJECT.json` lists each hazard at its line, with the properties that watch it.

## 2. The modules

| module | models | composed with |
|---|---|---|
| `BoundedBuffer` | append with drop-oldest, drop-first-n | used by `UploadPath` |
| `Delivery` | the abstract specification of an upload path: taken, stored, given up | implemented by `UploadPath`, twice |
| `UploadPath` | one agent's sample cycle and poll goroutine, the network, the ingest handler, one device's rows | - |
| `MonitorTime` | `MonitorOnSeconds` and the windows of the queries, with a reference count | used by `Rollups` |
| `Rollups` | ingest commits, dirty set, ticker, `RollupDay`, crash and catch-up, deletion | the agent side is what `UploadPath` shows of it |
| `SelfUpdate` | the three binaries, the state file, the process, releases | the ingest answer is its `CheckIn` |
| `Registry` | slots, secrets, tokens, the files on the computer, the database accesses of an ingest, the operator | - |
| `Queries` | the dashboard's queries and their handlers' windows | extends `MonitorTime` |
| `AgentLoop` | the agent's processes and mutex, the ticker, a cycle's phases and time-outs, the watchdog | in `Presence` |
| `Alerts` | the server's offline check, its map and its notes | in `Presence` |
| `Presence` | one computer and the server in one time | composes the two |
| `Profile` | the inventory and the build: the agent's side, requests, `TouchDevice` and `SetSystemInfo` by statement | its ingest is the one of `UploadPath` and `Registry`, seen from two other columns |
| `RateLimiter` | `allow`, for one address | guards `Registry`'s enrollment |
| `Inventory` | `parseSMBIOS`, memory, cores, the board's identity, `clip` | computes what `Profile` sends |
| `LogFile` | `agent.log` and its rotation | - |
| `MonitorProbe` | the DDC watcher and its readers, the rule for "off", `idleMS` | computes what `UploadPath` records |
| `Autostart` | the task, install, uninstall, repair, the agents alive meanwhile | `AgentLoop` has the life of one agent |
| `UploadPathProofs` | lemmas on the buffers, the upload path's theorems, its refinement of `Delivery` | extends `UploadPath` |
| `MonitorTimeProofs`, `RollupsProofs` | the integral is exact; what the rollup's tables and marks promise | the second extends `Rollups` and the first |
| `SelfUpdateProofs`, `RegistryProofs`, `ProfileProofs`, `PresenceProofs` | lemmas and theorems | each extends its module |
| `FunctionsProofs` | the theorems of the parts that share no state | extends `MCFunctions` and `MonitorTimeProofs` |
| `MC*` | symmetry sets, budgets; `MCQueries` enumerates tables and windows and states what the panels must agree on; `MCFunctions` runs the parts that share no state side by side | - |

### UploadPath

`buf`, `disk`, `pend`, `lastOn`, `tick`, `conn` are the agent's: `Queue.buf`,
`queue.json`, `pendingEvents`, `lastMonitorOn`, where the one sample cycle is,
and its connection. `reqs` holds a request per connection with its handler's
progress (`sent`, `read`, `half` between the two transactions, `ok`, `err`), also
when the agent has left. `samples` and `events` are the device's rows. A sample
is its timestamp. Clock units are the spacing of the readings, so `(device, ts)`
is unique as the primary key wants.

One action per step of the code: `TickSample` is `Tick` up to the enqueue with
its write of the file (which may fail and leave the old file), `BeginUpload` the
snapshot and send of `flush`, `AckSamples` then `AckEvents` the two
acknowledgements, which are separate because the poll goroutine may record a
transition in between, `RecordTransition` the poll goroutine, `Stop` any end of
the process, `Start` with a readable or unreadable file. The server has
`Receive`, `InsertSamples`, `InsertMonitorEvents`, `HandlerFails`.

`recorded`, `excused`, `overrun` and their twins for events are history that no
action reads: what was taken in, and what was given up where the code means to
(drop-oldest, timestamps outside the server's window, memory at a crash).

### Delivery

Three sets: what was taken, what is stored, what was given up. `Take` adds a reading
younger than all before; `Store` adds a batch and may refuse some of it, but nothing
may be stored ahead of an older reading that is neither stored nor given up. There
is no queue, request, retry, process or file in it. `UploadPath` implements it with
`taken <- recorded, stored <- samples, dropped <- excused`, and again with its
transitions, where everything taken so far counts as given up once the event buffer
has overflowed during an upload (`overrun`).

### MonitorTime and Rollups

`MonitorOnSeconds` is the fold over sorted transitions that the code does: the
state the window begins in (`StateAt`, the last row of `UpTo`) and the rows `Between`
its ends, put in order by the number of earlier ones (`ByTime`).
`OnInstants` counts, instant by instant, whether the last transition so far says
on. `Rollups` takes a rollup apart into the reads and the write of `RollupDay`,
with ingest handlers committing in between, and reads `now` where the code does:
once per handler, once per rollup. The statements that read a day's transitions are one
step (`RollupReadEvents`): what is committed between two of them is here committed after
all of them, and its handler marks the day afterwards either way. The rounding to minutes
is left out, since times are whole minutes. `missed` and `early` are history: days whose
mark a failed handler or a crash lost or nobody made (`Overtaken`: a transition
stored after a later one changes the state a later day begins in, and only its own
day is marked), and rows a rollup left out because they
were stamped later than its clock. `StaleIsMarked` is stated up to `missed`, so
that it says precisely in which cases an aggregate stays wrong.

### SelfUpdate

`exe`, `old`, `bad` are the contents of the three files: a build, nothing, or a
part (`Torn`). `proc` is the process with the name under which its image lies on
disk: on Windows a running image can be renamed, not removed or overwritten, and
that is the guard of `SwapOut`. `EvaluateStartup` is split by its returns
(`StartTrial`, `StartCommitted`, `StartAfterCleanExit`, `StartAfterCrash`,
`StartRollback`), `RollbackToOld` by its renames. `Save` is `saveUpdateState`:
it may do nothing, or truncate the file, which is then read as the zero state.
`proven`, `latest`, `cut`, `spoiled` are history; `cut` says that a rollback was cut between
its two renames, which leaves no `agent.exe`; `spoiled` says that an agent that went on
running as `agent.exe.bad`, because the relaunch after its rollback failed, has updated
twice, whereby an unproven binary becomes the backup (`Spoils`).

### Registry

A slot's secret and token are named by its UUID. `devs` is the table by row id;
SQLite's `INTEGER PRIMARY KEY` without `AUTOINCREMENT` hands out the largest id
plus one, so the id of a deleted last device is used again (`NextId`). Each
computer has `file` (enroll.json), `creds` (credentials.json), `got` (an
identity in memory between the answer and the write). `strays` are requests
whose sender no longer waits. An ingest is `DeviceByToken`, `TouchDevice`,
`DeviceLogTitles`, `InsertSamples`, with every operator action possible between
them. `lost`, `inherited`, `cleared`, `leaks` are history that names the
exceptions.

`DeviceStatus` is the status in the device list, which `scanDeviceStatus` derives by
conditions of its own; `StatusIsTrue` says that a slot shown as pending, and only such
a slot, can be enrolled with its secret, so the list and `ConsumeEnrollment` must
agree on the instant of expiry, and the same for active devices and their tokens.

### Profile

`inv`, `build` are the computer's hardware and the agent's build; `info`, `sent`,
`sentAge` the agent's `sysInfo`, `sysInfoSent` and the time since; `row`, `log` the
device's columns and `device_events`. An inventory is a value and its own
fingerprint; a collection one of whose probes failed is `Partial`. A request goes
through `TouchReads`, `TouchUpdates`, `TouchLogs`, `SetSystemInfo`, `Finish`, in the
order of the handler, and others come between. `TouchLogs` and `SetSystemInfo` may fail
and be answered 200 all the same. `doubt`, `writer`, `moves`, `wentBack`, `strayed` are history that
names the exceptions.

### The parts of MCFunctions

`RateLimiter`: stamps are taken in `Arrive` and used in `Allow`, up to `MaxDelay`
later and in any order. `Inventory`: operators only; `MCFunctions` writes tables,
memory arrays, sockets, bus functions and texts and compares what is read with what
was written, for tables also when they break off at any byte or have a wrong one.
Words are a few values wide, which keeps every escape and border. `LogFile`: sizes are
lines; a subset of the file calls is refused at each step. `MonitorProbe`: the two
stores of the watcher and the two loads of a reader are steps; `Displays` is every list
of answers. Ticks wrap at 4; the call for the last input may fail, and the user is then
held for active (`InputUnknown`). `Autostart`: the tool's steps, those of each agent from
the mutex to its end, and the task firing. Of the files there are the credentials, the
secret to enroll with and the rest (`folder`). An installation may bring a secret, which
an agent that finds no credentials turns into some, at its own pace (`Enroll`); each
removal of a file by the uninstaller may be refused. `gone`, `missed`, `undeleted`, `late`
are history. None shares state with another, so one
behaviour has one of them as its `subject`.

### Queries

Pure operators, one per query, over a set of rows; the handlers are the windows
they ask for, from the server's clock and zone. `MCQueries` starts from every
table of two samples (monitor, idle, process name including the empty one and one
called `(unknown)`, title) on three days of two hours of two instants, and every
set of transitions, and moves the clock. It states no query's result: it compares
queries that were written apart. `LIMIT`, `ORDER BY` and the search text are left
out; a zone has a fixed offset.

### AgentLoop, Alerts and Presence

Time is in half minutes and the constants are the code's own: a tick every 2, a
stall at 10, uploads time out after 1, downloads after 10, a device is offline
after 30, the check comes every 2. `PassTime` lets half a minute go by; it waits
for everything that takes well under that (a start, the 7.5 seconds of tries for
the mutex, a check) and no time-out or ticker is late. A cycle is `phase`, `age`
and `left` (until the phase's time-out); `Hang` makes a call of it never return.
At exactly five minutes the watchdog may see either side (`StallSeen`), as two
ticks of a real clock may. `lock` is what the process holding the mutex does;
`probes` counts processes that do not hold it: the task's, and children started by
a relaunch. The updater and the watchdog may both relaunch before the process is
gone. `Trouble` is everything that may go wrong apart from a hang: deaths, failed
cycles, server crashes and failed checks, the operator.

`Alerts` splits `checkOffline` at the lock: `CheckRead` is the snapshot,
`CheckApply` the comparison with the map and the notes. A note stands for a call of
`Send`, whose failure is only logged. `heard` (the last two notes of one life of the
server), `told` (the present silence was announced, by whichever server), `disturbed`,
`hangs` and `troubles` are history.

## 3. The runs

| run | question | instance |
|---|---|---|
| `upload` | can a sample or a transition be lost or overtaken, also when acknowledging by count? does the path implement `Delivery`? checks the inductive invariant of the proofs too | queue of 2, event buffer of 2, 2 connections, 3 readings |
| `upload_liveness` | does the backlog drain? | bodies under the cap, fairness below |
| `upload_oversize` | the same without the assumption on bodies | violation |
| `functions` | is the integral exact? do the panels agree with each other and with the rollup? the limiter, the inventory, the log, the probes, the autostart | transitions and windows on 0..5; 2 samples on 3 days, 3 zones, ranges of 1 and 2 days; limit 2, 5 attempts; tables of 2 structures; logs of 2 lines, 12 lines in all; 2 displays; 2 builds, 2 processes |
| `rollups` | is an out-of-date day always known? do deleted rows come back? | days of 2 minutes, 2 handlers, 1 failure, 1 crash |
| `rollups_liveness` | is it recomputed? does the ticker come to rest? | a clock ahead by 1 |
| `rollups_partial` | samples committed, events refused, retry | violation |
| `selfupdate` | do backups stay good, does a copy survive, is a bad build left? | 3 builds, the newest one broken, threshold 3, one failed write |
| `registry` | one computer per identity? where may an issued token go? do rows belong to their sender? does the opt-out hold? is the status shown the truth? | 3 computers with one secret, 2 attempts, expiry, or one computer with 2 slots for one row id and one handler; one failure |
| `profile` | is what the agent holds for known in the row? is every change of build logged, and no downgrade made up? does the inventory arrive? | 2 inventories, 3 builds, 2 connections; budgets of changes, restarts and faults |
| `presence` | does a wedge heal before it is an outage? is an outage announced, once, and taken back? does the agent come back? | the code's durations, two troubles, one update |
| `presence_slow` | does the watchdog only kill what is stuck? | violation |

Several of the properties are conjunctions of named parts, each with a comment of its
own: `PanelsAgree`, `InventoryIsExact`, `LogIsKept`, `SampleIsTrue`,
`AggregatesAreSound`, `RollupsSettle`, `WayBackHolds`, `UploadInv` (which contains the
type invariant and the order properties `NoSampleOvertakes`, `NoEventOvertakes`).

### Why these bounds

The behaviours of interest need few actors. *Upload*: a late duplicate needs one
abandoned and one live request, hence 2 connections; drop-oldest needs one more
reading than the capacity; the acknowledgement race needs an event buffer that
overflows during one upload. Both orders of old and new request at the server
occur. The proofs then lift safety to every capacity, skew and number of
connections. *Rollups*: an interleaving of a handler with the swap, the reads
and the write needs one handler; the second shows handlers racing each other;
days of two minutes put rows on both sides of a border and on it. There is one day, so
a day out of date because of an older one's transition (`Overtaken`) is the proof's alone. *SelfUpdate*:
the installed build, a bad one and a good one are the smallest set in which a
rollback can land on a wrong build and the next update can be the quarantined or
another one; the threshold is the code's own 3. *Registry*: three computers with
one secret are two racing and one late; two slots are what reuse of a row id
takes. Both at once are out of reach: `Bounded` keeps either one slot for many
computers, none of which reports, or one computer for many slots, with no time to
lose. *Profile*: an inventory and a build meet only in the order of the handler's
statements, so each behaviour varies one of the two (`MCInit`: an agent whose build
varies has no collector). `Budgets` says how many changes, restarts and faults may meet;
two faults let a lost answer meet a failed store, and two connections an abandoned
request with the one that follows it. *Functions*: a limit of 2 with a delay of 1 in a
window of 3 has every order of two stamps on both sides of its edge; 12 lines of
log are several rotations; two processes are an agent and its replacement or the one
the task starts meanwhile. *Queries*: two
samples are enough to disagree about a border, a group or a filter; the days are
shorter than the code's, their borders are all there. *Presence*: two troubles let
a hang meet a crash, a restart of the server meet an outage, a revocation meet a
check; with two hangs in a row the device does go quiet long enough to alert, so
the bound in `WedgeStaysQuiet` is not met by luck. Everywhere else
times are small because each window of the code (`enrollTTL`, crash
window, backdate) is compared, never added up.

Every bound is a constant in a guard: `MaxTime`, `MaxFailures`, `MaxFaults`,
`MaxCrashes`, `MaxTroubles`, `MaxUpdates`, `MaxRows`, `Horizon`, `MaxAttempts`,
`MaxClock`, `MaxDelay`, `MaxLines`, `MaxDisplays`, `MaxTicks`, `Budgets`, `Attempts` (the last
is the program's own bound), and the constraint `Bounded` of `MCRegistry`. Symmetry is used
for connections, handlers, UUIDs and computers in safety runs only.

### Fairness

*Upload*. The ticker keeps firing and the scheduled task restarts the agent
(weak fairness of `Start`, strong of the tick, which a crash disables). Strong
fairness of the steps of one upload says that some process lives long enough and
some attempt is carried through while the agent still waits: without it no
delivery can be promised. A request times out after 30 s (`UploadFails`).
*Rollups*. Handlers and the rollup loop are goroutines that run; the ticker
fires; the service manager restarts the server. *SelfUpdate*. The task starts
the agent again and again and some start reaches its decision; a broken build
crashes sooner or later; renames that can succeed do not fail for ever.
*Presence*. Time goes on (strong, since a step that takes no time disables it);
the task fires while no agent runs; what is not hung ends; the service manager
restarts the server. Troubles are finite, so the promise is: after the last one.
*Profile*. The collector and the sample cycle are goroutines that run, time goes on
and the handler of a request is carried out; weak fairness is enough, because lost
uploads, failed statements and restarts are spent from the budgets.

### Deadlock

Checked for `UploadPath`, `SelfUpdate`, `Profile` and `Presence`. It is off for
`MCFunctions` (operators have no next step, and the clocks reach their bounds), `Rollups` (the device is deleted and the
clock at its bound) and `Registry` (no clock left, and no slot).

## 4. What is proved

`UploadPathProofs` proves, for every capacity, body cap, window, skew and set of
connections that `UploadAssumption` allows:

* `TypeCorrect`: `Spec => []TypeOK`, with both buffers within their capacity;
* `UploadInvariant`: `Spec => []UploadInv`, the inductive invariant;
* `SampleCustodyHolds`, `EventCustodyHolds`, `NothingOvertakes`: its
  consequences that a user cares about.

The custody and order properties are not inductive. Why nothing overtakes: a
late request may insert an old batch after a new one. It is harmless because
*every* unfinished request carries everything that is older than its newest
entry and not yet stored (`RequestHasNoHole`). That rests on `BatchInFlight`
(while the cycle waits, its batch is the whole queue, and the events it sent are
still the head of the buffer unless the buffer overflowed), on
`CommittedIsStored` (a request past a transaction has its rows in the table) and
on `AllRecorded` (timestamps grow). `upload` checks the whole conjunction
with TLC; the proof has one lemma per conjunct and in it one step per action
that can disturb it. It begins with the lemmas on the two buffer operations: type,
entries, which prefix is kept. It ends with the refinement, under the same assumption:

* `SamplesDelivered`: `Spec => DeliversSamples`, and `TransitionsDelivered`:
  `Spec => DeliversTransitions`. A step of `UploadPath` is a `Take`, a `GiveUp`, a
  `Store` or no step of `Delivery`. The one that has to be argued is `InsertSamples`: the
  batch must not overtake, which is `NoSampleOvertakes` after the step, taken from
  the inductive invariant above in both states. For transitions the step in which
  `overrun` comes true gives up everything taken so far.

`ProfileProofs` proves, for all inventories, builds, connections and budgets:

* `TypeCorrect`: `Spec => []TypeOK`.
* `AuditIsComplete`: `Spec => []AuditComplete`, inductive together with the types: a
  move is either in the log or owed by a handler past its update, and only that
  handler's own next step, which logs it or is excused, takes the debt away.
* `KnownInventoryIsStored`: `Spec => []KnownIsStored`. It is not inductive: the
  fingerprint is marked as sent on the strength of an answer, for what an
  upload carried some steps ago. `WriterVouches` is the missing half: the request whose
  answer is awaited and which wrote the row, wrote what it carries.
* `DowngradesHaveCause`: `Spec => []DowngradeHasCause`. `RiseInv`: as long as the agent
  never went back to an older build and no abandoned request was carried out late, the row
  is no newer than the agent, a request no newer than the agent, the build a handler
  has read no newer than the row, and the build a handler is about to log as the old
  one no newer than the new one.

`FunctionsProofs` proves, of the limiter, for every limit, window, delay below the window and
any number of attempts:

* `CapAlwaysHolds`: `LimiterSpec => []CapHolds`, and `RefusalAlwaysHasCause`:
  `LimiterSpec => []RefusalHasCause`. `LimiterInv` says that hits are admissions, that
  a stamp is never ahead of the clock, and that every admission less than a window old
  by the clock is among the hits: an attempt forgets only what is a window older than
  its stamp. A stamp that waits is late by `MaxDelay` at most. Hence the cap over a window less the delay, and
  not over a whole one.

of the autostart, for any set of task templates and agents:

* `UninstallFinal`: `AutostartSpec => []UninstallHolds`, and `LastOnesLeave`:
  `AutostartSpec => LastOneOut`. `AutostartInv` says that from the deletion of the task to
  the end of the uninstall, and after it, there is neither a task nor an agent alive,
  unless one was alive at the deletion (`missed`): only a task or an agent starts an agent,
  and only an agent or an install registers a task. And it accounts for what is there of
  the files after their removal: it was refused (`undeleted`), or an agent was there to
  write them, or to save the credentials of an enrollment that had begun before (`late`).
  Where neither credentials nor secret are left, an agent that has not looked for them by
  then finds none.

of the monitor probes, for any number of displays, tick counter and bound:

* `SamplesTrue`: `ProbeSpec => []SampleIsTrue`. `DDCInv` says that nothing is armed, and no
  reader has seen it armed, before a display answered. For the idle time `IdleInv` says that
  the two tick counts are read from one clock (where the first call fails, the answer is 0,
  which never overstates); `WrappedDifference` is the lemma that the
  difference of two wrapped counters is the true one modulo their size, hence the true one
  as long as that is smaller.

of the log, for any size, frequency of looking, number of restarts and of refused calls:

* `LogKept`: `LogSpec => []LogIsKept`. `KeptInv` says that the lines of both generations
  together are the last ones, without a gap, and a generation or all of them at least; it
  is not inductive without the place of the handle, which is on the old generation
  only while the new one is empty. `BoundInv` bounds the log by its limit and what has been
  written since the size was last looked at. `RotationKeeps` and `RotationBounds` say what a
  rotation preserves, `LineAdded` what a line does.

of the dashboard's queries:

* `PanelsNeverContradict`: `PanelsAgree` of any finite table of samples, any clock and zone, any
  length of an hour and number of hours (`SamplesTyped`); with `PanelsAlwaysAgree`, the same
  of every state of the model. Two facts carry it. Whatever a query groups by, the
  groups add up to what it groups (`SharesAddUp`, by induction over how many groups
  have been added, since the sum is a fold). And each window holds whole days: a time lies in
  the day whose start is the last one not after it (`DaysAre`, from `Division`), so a window that
  begins at a day's start or earlier has all of that day (`DayOfWindow`), which is what each
  chart's line for that day counts (`SignalsAre`, `HeatmapIs`, `RecordIs`). `MidnightIs` says the same of
  the local day, for any offset.
* `IntegralAlwaysExact`: `IntegralIsExact` in every state of the model, from `IntegralExact` below.

of the inventory:

* `IdentityNeverVaries`: `IdentityIsStable` of a bus of any length, if vendor 0 is taken for
  unprogrammed, as the code does (`InventoryAssumption`); with `IdentityAlwaysStable` for the model's.
  `Beats` orders stamps by count and then by number; there is one leader
  (`LeaderExists`, `LeaderIs`), a step of the loop makes the leader of the stamps met so far that of
  one more (`LeaderNext`), so the loop ends with the leader of all, in any order
  (`LoopReaches`, `OrdersMeetAll`).

`PresenceProofs` proves, for all durations and bounds:

* `WatchdogInTime`: `Spec => []StuckIsReplaced`. The bound on the age of a cycle
  is not inductive by itself: time may make it older. `WatchInv` adds the ticker:
  while the loop runs, `age + due <= StallAfter + Interval`. A skipped tick sets
  `due` to `Interval`, but only having seen an age of at most `StallAfter`; what
  ages the cycle is taken from `due`.
* `PresenceTyped`: `Spec => []TypeOK`. The number of processes that wait for the mutex
  needs an argument: one started by the watchdog and one by the updater, and time (with
  it the ticker and the task) waits for those that try (`ProbesInv`).
* `NotesAlwaysAlternate`: `Spec => NotesAlternate`: the notes of one life of the server come
  in turn, and no silence is announced twice, be it by two servers. `NoteInv` ties the map
  to the notes (it says "alerted" just where "offline" was the last word) and to the
  announced silence: it is longer than the threshold, so that no check finds the device
  online before it reports, and only the first one after a start, which announces nothing,
  finds it untracked.
* `OutagesAnnounced`: `Spec => []OutageAnnounced`, under `ChecksAreFrequent`
  (`CheckEvery <= OfflineAfter`: one minute and a quarter of an hour by default,
  though `-offline-after` accepts less). `AlertInv` has the same shape: until the
  outage is announced, `silence + checkDue <= OfflineAfter + CheckEvery`
  (`AlertInTime`). A check may reset `checkDue` without announcing for two
  reasons: the device was not overdue when the snapshot was read (`SnapFresh`), or
  the pass only seeded the map. The second needs `SeedingInTime`: a device that
  reported to this server is looked at again before it could be seeded as offline.
  This is where the assumption is needed: without it a device may report once,
  fall silent, be seeded as offline by the first pass and never be announced.
* `WedgesStayQuiet`: `Spec => []WedgeStaysQuiet`, under `DurationsFit`: a report is in before a
  cycle counts as stalled (`ReportTime < StallAfter`), and twice the watchdog's reach (`StallAfter` and
  the tick on which it looks) and one report are no longer than `OfflineAfter`. `WedgeInv` accounts for
  the silence as long as at most one call has hung and nothing else has gone wrong (`Orderly`): a
  cycle that is not hung reports within `ReportTime` of its start (`CycleInTime`), and `SilenceInTime`
  bounds, phase by phase, how long the server has heard nothing: a `Reach` up to the tick that starts a
  cycle, another one (`Spent`) if that cycle hung, and the age of the one at work.
  The bound is exact: at 26 half
  minutes, where it holds with equality for the shipped `StallAfter`, `Interval` and time-outs, TLC finds
  no wedge announced, and at 25 it does; the code's default is 30.

`MonitorTimeProofs` proves, for every finite table of transitions with unique times (the
primary key) and every window:

* `IntegralExact`: `MonitorOnSeconds(evs, from, to) = OnInstants(evs, from, to)`. `ByTime` is
  shown to be the strictly increasing enumeration of the table (`ByTimeSorted`, by
  counting earlier rows). `Reached` gives the fold's state after some of
  the rows in closed form: the seconds on up to the last one's time, that time, and its state. `WalkReaches` shows by
  induction that the fold goes through these states, `ReachedNext` being the step: in a stretch
  between two consecutive rows the state does not change (`Stretch`). `InsideAndBefore` adds what
  the rows at or before `from` contribute. The induction is over the natural numbers, by a
  least counterexample (`LeastNat`, from the library's theorem on well-founded
  relations), since a theorem with an operator as a parameter cannot be instantiated.

`RollupsProofs` proves, for every length of a day, window, skew, set of handlers and
number of failures and crashes that `RollupAssumption` allows:

* `DeletionIsFinal`: `Spec => []DeletedLeavesNothing`; inductive as it stands, because
  every insert and the upsert need the device's row.
* `StaleDaysAreMarked`: `Spec => []StaleIsMarked`. The invariant is `RollupsInv`: `MarkInv`
  says that a day's aggregates are those of its tables (`Current`), or the day is known to
  somebody (dirty, with a handler, in `missed`), or the loop has it before it or in hand;
  `InHandInv` what the loop holds of the day it has in hand: the tables' figures, or the day has been
  marked since (`Held`). `ClockInv` says that no rollup has counted beyond the clock of its run, so that a
  later one sees at least as much; `StageInv` that a request has days to mark only between its commit and
  its marks; `IdleInv` that no rollup outlives its process. Three lemmas carry the
  argument: `FigureOrMark` (new rows leave a day's figures alone or mark it, or the day
  is `Overtaken`), `KnownKept` (a mark is passed on, never dropped), `AskedKept` (a day
  the loop took from the dirty set stays with it until it is current or marked
  anew). From what `MonitorOnSeconds` makes of the tables to the count of instants in
  `StaleIsMarked` it is `IntegralExact`, whose premise of unique times is `UniqueInv`.
* `AggregatesHold`: `Spec => []AggregatesAreSound`. `FiguresInv` bounds each figure by
  the window it was taken over, by `IntegralExact` and the size of the window.

`SelfUpdateProofs` proves, for every set of builds, crash threshold, window and bound:

* `BackupsAreProven`: `Spec => []WayBackHolds`. That the backup is proven depends on
  which binary an update moves there. `FilesInv` says where the running image lies and
  that its file holds its build (`ImageInPlace`), which names it can have at which
  step (`ImageFits`: at a start and in a rollback it is `agent.exe`), and that whoever
  checks for updates has checked in (`UpdaterProven`).
* `QuarantineHolds`: `Spec => []LatestStaysOut`. `QuarantineInv`: without a failed write
  the file has the latest bad build, whatever trial it tracks, and every process past
  its start has read it from there.

`RegistryProofs` proves, for any number of slots, computers and handlers:

* `RegistryTyped`: `Spec => []TypeOK`. That the table of row ids suffices is `IdsInUse` (no id
  exceeds the number of slots prepared); a computer's type needs the order in which it
  passes the steps of an enrollment (`EnrollInOrder`).
* `StatusHolds`: `Spec => []StatusIsTrue`, from `SlotsInv`: a slot has at most one row and
  either an open secret or a token.
* `IdentityUnique`, `TokensInCustody`: `Spec => []OneIdentity`, `Spec => []IdentityCustody`. Each
  needs the other's half: a secret not yet spent has no holder and nothing lost
  (`CustodyInv`), so the one that spends it is the first and only holder (`HoldersInv`).
* `RowsNeverStray`: `Spec => []RowsBelongToSender`; `RequestsBelong` says that a request's row id
  and its sender belong together unless the id was inherited.
* `OptOutKept`: `Spec => []OptOutHolds`; `TitlesInv` adds the handlers that have decided to
  store a title and have not yet.

Only model-checked, and why:

* Liveness (`QueueDrains`, `RollupsSettle`, `BadBuildIsLeft`, `ProfileCatchesUp`,
  `AgentComesBack`, `AlertResolves`): fairness and `ENABLED` are beyond the prover.
* `InventoryIsExact`: what recursive walks compute of byte sequences and lists of
  structures; it would take an induction for each walk.

## 5. What the code does that its words do not say

Shown by a run that TLC refutes:

1. `upload_oversize`: `flush` sends the whole queue in one request. A backlog
   whose JSON is over 1 MiB is answered 400 and sent again unchanged, for ever;
   `PLAN.md` says a backlog uploads in one call safely.
2. `rollups_partial`: when the samples commit and the events do not, the handler
   returns before `markDirty`; the retry inserts nothing new and marks nothing.
3. `presence_slow`: the watchdog is said to trip on a cycle that has stopped
   returning only. The cycle includes the download of an update, whose client waits
   five minutes, and begins before it with the upload: a slow download that is
   still within its time-out is killed with the process, and begun anew by the next.

Met while modelling, and kept out of the properties by history variables or left
as notes:

* A row stamped up to five minutes ahead is accepted and marks its day, but a
  rollup before that time leaves it out and clears the mark (`early`).
* `RecentSampleDays` looks at `samples`: a day touched by transitions alone is
  not found after a restart (`missed`).
* A transition that is stored after a later one, by an older request still at work, changes
  the state in which a later day begins. Only the transition's own day is marked,
  so the later day's monitor-on time stays wrong until something else marks it (`Overtaken`). It came out of
  the proof of `StaleIsMarked`, which could not be closed without it.
* When the relaunch after a rollback fails, the agent goes on as `agent.exe.bad`. An update it
  applies then moves the restored binary to `agent.exe.old`; if that relaunch fails as
  well, the next update removes this backup and puts the first update, which has
  never run, in its place (`spoiled`). It came out of the proof of `WayBackHolds`.
* After a rollback that finds nothing to restore the state file tracks no build,
  so the next check-in commits nothing and later restarts count as crashes.
* The quarantine has one slot. A restored build that is offline and killed three
  times is deemed crash-looping itself, takes the slot, and applies the known-bad
  build again once it is online; `LatestStaysOut` therefore speaks of the latest.
* A process that hangs between taking the mutex and `Run` is watched by nobody and
  holds the mutex; `AgentLoop` lets a start fail, not hang.
* A server restarted during an outage seeds the device as offline and never
  announces that outage (`disturbed`), as its comment says. Nor does it announce the end of
  one that its predecessor announced: the household waits for "back online", and the next
  note may be "offline" again. `NotesAlternate` therefore speaks of one life of the server,
  and of one silence.
* On a local day of 25 hours the timeline (`dayStart + 86400`) misses the last hour,
  which the overview counts. A row stamped ahead of the server's clock shows in the
  timeline alone (`TodayReadsAlike` assumes there is none).
* Power lost between the rename and the write, or between the two renames of a rollback
  (or a refusal of the second and of its undoing), leaves no `agent.exe`; the copy is
  there (`CopySurvives`) but nothing puts it back (`cut`).
* The crash window is measured from the first start and never moves; a build that
  outlives it is never rolled back (`BadBuildIsLeft` excepts this, a rollback that was `cut`,
  and the spoiled backup).
* A device deleted during one of its ingests, and another prepared at once, get
  the same row id: the rows of the first land under the second (`inherited`).
* A failing query for the title preference keeps the titles (`leaks`).
* A rollback logs a "downgrade", which the comment on `device_events` (`store.go`) says
  should never happen; a late duplicate from before an update logs one that did not
  take place (`strayed`).
* The limiter is described as a fixed window and is a log of the last window; a stamp
  that comes late is held against hits a newer one has thinned out, so a whole window may
  admit a few more than the limit. Addresses are never removed from its map.
* `clip` may leave a space at the end of what it cuts.
* The log's writer goes silent when both of its attempts to reopen are refused, though
  `logfile.go` reopens "rather than dying silently". The old generation is removed before
  a rename that may fail. When the log can be neither looked at nor opened, its order
  is lost. `-install` and `-uninstall` open the log without the mutex.
* A reader of the DDC watcher may see the power of before the first answer with the
  "armed" of after it and report one "off" that was not.
* Uninstall: `/End` does not reach an agent that its predecessor relaunched; a firing
  between `/End` and `/Delete` starts an agent that registers the task again
  (`missed`). A failed `/Delete`, of a task that is already gone too, returns before the
  files are removed, although `PLAN.md` says the uninstaller must remove them. An agent
  still alive may write `queue.json` once more. Removals that are refused are ignored, and
  the uninstaller itself holds `agent.log` open; what stays is left to the detached cleanup.
  An agent that is enrolling, with waits of up to 20 seconds, saves its credentials after
  the old ones were removed and goes on reporting (`late`).
* A credentials file cut short is a JSON error and fatal, although the comment
  beside it treats a partial file as not enrolled. An answer to an enrollment that
  is lost leaves the slot consumed and the computer without an identity (`lost`).

## 6. Mutants

Each property of a passing run has a mutant in the module it breaks, and a
conjunction has one for most of its parts: an operator before the definition it
stands for (`\* Mutant: ...`): an acknowledgement of any answer, a swapped order of
binaries, a dropped check. TLC must find the property violated when the definition is
replaced.

## 7. Not modelled

* Update signing (`internal/update`, `cmd/fst-sign`): Ed25519 and SHA-256 are library
  calls; `SelfUpdate` takes a verified manifest as given.
* The web dashboard, `cmd/montest`, `nlm_windows.go`: no state of the system.
* The Win32, EDID and registry reads of the inventory and the tables of names
  (`sysinfo_windows.go`, parts of `sysinfo.go`): they map one text to another.
* A device's display name, `LIMIT`, `ORDER BY` and the search text of the dashboard's
  lists, and the dead-man ping, which keeps no state.
* A table that changes between the queries of one page: `Queries` reads one state.
* Power failure under SQLite: a committed transaction is taken to be durable.

## 8. Plan

1. *Done*: upload path and its proofs; monitor time and queries; rollups;
   self-update; registry; run loop, watchdog and alerts in `Presence`; `Delivery` with
   its refinement checked and proved; `Profile` and `RateLimiter` with proofs;
   `Inventory`, `LogFile`, `MonitorProbe`, `Autostart`.
2. *Done*: the invariants of `Registry`, `SelfUpdate` and `Rollups`, the integral,
   `DowngradeHasCause`, the types and notes of `Presence`; the theorems of
   `Autostart`, `MonitorProbe` and `LogFile`.
3. *Done*: `WedgeStaysQuiet` under the assumption on the durations that it needs, the
   panels of `Queries`, the board's identity.
4. `Outages`: the abstract specification of `Alerts` (an outage is open or not; it is
   announced once and closed once), implemented by `Presence`.
5. The state file and the quarantine beside a hang: `SelfUpdate` composed with
   `AgentLoop`'s start.
