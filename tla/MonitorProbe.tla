----------------------------- MODULE MonitorProbe -----------------------------
(***************************************************************************)
(* What the agent says of the monitor and of the user: the DDC watcher,    *)
(* whose two atomics other goroutines read (ddc_windows.go), the rule for  *)
(* "off" (core.go ddcSaysOff, deriveMonitorOn; sampler_windows.go          *)
(* MonitorOn) and the milliseconds of idleness (idleMS).  The Win32 calls  *)
(* are external: a display answers or it does not.                         *)
(***************************************************************************)
EXTENDS Integers, Sequences

CONSTANTS
    MaxDisplays,    \* bound on displays
    TickMod,        \* GetTickCount wraps at it: 2^32
    MaxTicks        \* bound on time

ASSUME ProbeAssumption ==
    MaxDisplays \in Nat /\ TickMod \in Nat \ {0} /\ MaxTicks \in Nat

VARIABLES
    watcher,        \* the poll loop: "asleep", "arming", or "absent" without dxva2
    power, armed,   \* ddcWatcher
    reading,        \* a caller of read has loaded power and not yet armed
    loaded,         \* the power it has loaded
    report,         \* what the last reading led to
    \* History, never read by an action:
    latest,         \* of the probes' answers
    replied         \* some probe got a power reply

ddcVars == <<watcher, power, armed, reading, loaded, report, latest, replied>>

DDCNoHandle == -1
DDCQueryFailed == -2
DDCNotSampled == -3

-----------------------------------------------------------------------------
(* The rule. *)

DDCSaysOff(p, a) == p \in 2 .. 5 \/ (p = DDCNoHandle /\ a)

DeriveMonitorOn(monitorsActive, displayPower, p, a) ==
    /\ ~DDCSaysOff(p, a)
    /\ \/ monitorsActive < 0 /\ displayPower < 0
       \/ monitorsActive # 0 /\ displayPower # 0

\* Mutant: the poller takes a missing handle for off, armed or not.
MonitorOnUnarmed(monitorCount, p, a) == monitorCount > 0 /\ ~DDCSaysOff(p, TRUE)

\* winSampler.MonitorOn.
MonitorOn(monitorCount, p, a) == monitorCount > 0 /\ ~DDCSaysOff(p, a)

-----------------------------------------------------------------------------
(* The watcher. *)

PowerReply == 1 .. 5

\* A display is what it answers: no physical monitor, a failing query, a VCP reply.
Displays == UNION {[1 .. n -> {DDCNoHandle, DDCQueryFailed} \cup 0 .. 6] : n \in 0 .. MaxDisplays}

\* queryDDCPower asks the first display that has a physical monitor.
QueryDDCPower(displays) ==
    LET monitors == SelectSeq(displays, LAMBDA d : d # DDCNoHandle)
    IN  IF monitors = <<>> THEN DDCNoHandle ELSE Head(monitors)

\* newDDCWatcher: the first probe is done before anyone reads.
DDCInit ==
    /\ \/ \E displays \in Displays :
              /\ latest = QueryDDCPower(displays) /\ power = latest
              /\ armed = (latest \in PowerReply) /\ replied = armed
              /\ watcher = "asleep"
       \/ watcher = "absent" /\ power = DDCNotSampled /\ latest = power
          /\ armed = FALSE /\ replied = FALSE
    /\ reading = FALSE /\ loaded = DDCNotSampled
    /\ report = [monitors |-> 1, sampled |-> TRUE, polled |-> TRUE]

\* Mutant: any answer of a monitor arms the rule.
ProbeArmingAlways(displays) ==
    LET answer == QueryDDCPower(displays)
    IN  /\ watcher = "asleep"
        /\ power' = answer /\ latest' = answer
        /\ watcher' = IF answer = DDCNoHandle THEN "asleep" ELSE "arming"
        /\ replied' = (replied \/ answer \in PowerReply)
        /\ UNCHANGED <<armed, reading, loaded, report>>

\* loop and observe, up to the store of power.
Probe(displays) ==
    LET answer == QueryDDCPower(displays)
    IN  /\ watcher = "asleep"
        /\ power' = answer /\ latest' = answer
        /\ watcher' = IF answer \in PowerReply THEN "arming" ELSE "asleep"
        /\ replied' = (replied \/ answer \in PowerReply)
        /\ UNCHANGED <<armed, reading, loaded, report>>

\* Mutant: armed follows the reply, as a connection's state would.
ArmFollowing ==
    /\ watcher = "arming"
    /\ watcher' = "asleep" /\ armed' = (power = 1)
    /\ UNCHANGED <<power, reading, loaded, report, latest, replied>>

\* The rest of observe.
Arm ==
    /\ watcher = "arming"
    /\ watcher' = "asleep" /\ armed' = TRUE
    /\ UNCHANGED <<power, reading, loaded, report, latest, replied>>

\* read, its first half.
LoadPower ==
    /\ ~reading
    /\ reading' = TRUE /\ loaded' = power
    /\ UNCHANGED <<watcher, power, armed, report, latest, replied>>

\* Its second half, and what the sampler and the transition poller make of it.
LoadArmed(monitorCount) ==
    /\ reading
    /\ reading' = FALSE
    /\ report' = [monitors |-> monitorCount,
                  sampled |-> DeriveMonitorOn(monitorCount, -1, loaded, armed),
                  polled |-> MonitorOn(monitorCount, loaded, armed)]
    /\ UNCHANGED <<watcher, power, armed, loaded, latest, replied>>

DDCNext ==
    \/ \E displays \in Displays : Probe(displays)
    \/ Arm
    \/ LoadPower
    \/ \E monitorCount \in 0 .. MaxDisplays : LoadArmed(monitorCount)

-----------------------------------------------------------------------------
(* Idleness: the input is asked for, then the time, and both go on meanwhile. *)

VARIABLES
    ticks, lastInput,       \* true time, and that of the last input
    asking,                 \* idleMS is between its two calls
    dwTime,                 \* the input it was told of
    idle,                   \* its last answer
    \* History, never read by an action:
    told                    \* the true time of the input it was told of

idleVars == <<ticks, lastInput, asking, dwTime, idle, told>>
probeVars == <<ddcVars, idleVars>>

IdleInit ==
    /\ ticks = 0 /\ lastInput = 0 /\ asking = FALSE /\ dwTime = 0 /\ told = 0
    /\ idle = [ms |-> 0, answered |-> TRUE, least |-> 0, most |-> 0]

PassTick ==
    /\ ticks < MaxTicks
    /\ ticks' = ticks + 1
    /\ UNCHANGED <<lastInput, asking, dwTime, idle, told>>

Input == lastInput' = ticks /\ UNCHANGED <<ticks, asking, dwTime, idle, told>>

AskInput ==
    /\ ~asking
    /\ asking' = TRUE /\ dwTime' = lastInput % TickMod /\ told' = lastInput
    /\ UNCHANGED <<ticks, lastInput, idle>>

\* GetLastInputInfo fails: the user counts as active.
InputUnknown ==
    /\ ~asking
    /\ idle' = [ms |-> 0, answered |-> FALSE,
                least |-> ticks - lastInput, most |-> ticks - lastInput]
    /\ UNCHANGED <<ticks, lastInput, asking, dwTime, told>>

\* Mutant: the subtraction is done in a wider type.
AskTickWide ==
    /\ asking
    /\ asking' = FALSE
    /\ idle' = [ms |-> (ticks % TickMod) - dwTime, answered |-> TRUE,
                least |-> ticks - lastInput, most |-> ticks - told]
    /\ UNCHANGED <<ticks, lastInput, dwTime, told>>

\* All but "ms" is history: the input was known; the idleness when the call returned
\* and, of the input it was told of, the most it may say.
AskTick ==
    /\ asking
    /\ asking' = FALSE
    /\ idle' = [ms |-> ((ticks % TickMod) - dwTime) % TickMod, answered |-> TRUE,
                least |-> ticks - lastInput, most |-> ticks - told]
    /\ UNCHANGED <<ticks, lastInput, dwTime, told>>

IdleNext == PassTick \/ Input \/ AskInput \/ InputUnknown \/ AskTick

\* The watcher's and its readers' goroutines, and the one that asks for idleness.
ProbeSpec ==
    /\ DDCInit /\ IdleInit
    /\ [][\/ DDCNext /\ UNCHANGED idleVars
          \/ IdleNext /\ UNCHANGED ddcVars]_probeVars

-----------------------------------------------------------------------------
\* On hardware that never answers a query for its power, a virtual machine or a quirky
\* panel, whatever else comes and goes a display that is there counts as on.
SilentDisplayCounts == ~replied /\ report.monitors > 0 => report.sampled /\ report.polled

\* Once such a query has been answered, a monitor that is gone is off, for good and
\* not only until the next answer; a reply is believed at once.
SwitchOffIsSeen ==
    watcher = "asleep" =>
        (DDCSaysOff(power, armed) <=> latest \in 2 .. 5 \/ (latest = DDCNoHandle /\ replied))

\* The sampler and the transition poller, each with a rule of its own, agree.
PollAgreesWithSample == report.sampled = report.polled

\* The idleness is that of some moment of the call, before and after the tick count
\* wraps, for any idleness shorter than a whole turn of it.  When Windows does not tell
\* the last input the user is held for active: never is he held for idle for longer than
\* since the input it told of, or, untold, since the last there was.
IdleIsElapsed ==
    idle.most < TickMod => /\ idle.ms \in 0 .. idle.most
                           /\ idle.answered => idle.ms >= idle.least

\* What a sample says of screen and user is so: no display is held for off that never
\* tells, none for on that has said it is off, and idleness is measured where Windows
\* tells the input, and never overstated.
SampleIsTrue ==
    SilentDisplayCounts /\ SwitchOffIsSeen /\ PollAgreesWithSample /\ IdleIsElapsed
=============================================================================
