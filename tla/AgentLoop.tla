------------------------------- MODULE AgentLoop -------------------------------
(***************************************************************************)
(* The life of the agent's process (cmd/agent/main.go, singleton_windows), *)
(* its sample cycles and the watchdog over them (core.go Run, startTick).  *)
(*                                                                         *)
(* Durations are counted in units of half a minute.  A cycle runs through  *)
(* the phases sample (Win32 probes, queue file), upload, ack (queue file,  *)
(* check-in) and update (download, swap; then applied); `left' is the time a phase may   *)
(* still take, by its time-out.  A call into Win32 or the file system may  *)
(* also never return: the cycle is hung.                                   *)
(***************************************************************************)
EXTENDS Integers

CONSTANTS
    Interval,           \* Config.Interval
    StallAfter,         \* defaultStallAfter
    SampleTime,         \* what the probes take at most, unless they hang
    UploadTimeout,      \* HTTPUploader's client
    DownloadTimeout,    \* SelfUpdater's client
    MaxTroubles,        \* bound: failures, hangs and operator's commands
    MaxUpdates          \* bound: newer builds that are published

ASSUME LoopAssumption ==
    /\ {Interval, StallAfter, UploadTimeout, DownloadTimeout} \subseteq Nat \ {0}
    /\ {SampleTime, MaxTroubles, MaxUpdates} \subseteq Nat

VARIABLES
    lock,       \* the process that holds the named mutex: what it is doing
    probes,     \* processes started that do not hold it (yet)
    phase,      \* of the cycle in flight, "idle" without one
    age,        \* how long that cycle has been in flight, tickStalledFor
    left, hung, \* of that cycle
    due,        \* until the loop's ticker fires
    updates,    \* builds applied
    hangs,      \* history: cycles that hung
    troubles    \* history: everything else that went wrong, see Trouble

process == <<lock, probes, updates>>
cycle == <<phase, age, left, hung>>
agentVars == <<lock, probes, phase, age, left, hung, due, updates, hangs, troubles>>

LoopInit ==
    /\ lock = "free" /\ probes = 0
    /\ phase = "idle" /\ age = 0 /\ left = 0 /\ hung = FALSE
    /\ due = 0 /\ updates = 0 /\ hangs = 0 /\ troubles = 0

Trouble ==
    /\ hangs + troubles < MaxTroubles
    /\ troubles' = troubles + 1
    /\ UNCHANGED hangs

NoTrouble == UNCHANGED <<hangs, troubles>>

\* os.Exit does not stop the other goroutines before the process is gone.
Running == lock \in {"run", "exiting"}

InPhase(p) == Running /\ phase = p /\ ~hung

EnterPhase(p, time) == phase' = p /\ left' = time /\ UNCHANGED <<age, hung>>

CycleEnds == phase' = "idle" /\ age' = 0 /\ left' = 0 /\ hung' = FALSE

StartCycle == phase' = "sample" /\ age' = 0 /\ left' = SampleTime /\ hung' = FALSE

-----------------------------------------------------------------------------
(* Processes.                                                              *)

\* The scheduled task: at logon, every 15 minutes, and again after a failure,
\* whether or not an agent is running.
Fire ==
    /\ probes = 0
    /\ probes' = 1
    /\ UNCHANGED <<lock, updates, cycle, due>> /\ NoTrouble

\* SingleInstance succeeds.
TakeLock ==
    /\ probes > 0 /\ lock = "free"
    /\ probes' = probes - 1 /\ lock' = "boot"
    /\ UNCHANGED <<updates, cycle, due>> /\ NoTrouble

\* Mutant: no second try.
GiveUpAtOnce ==
    /\ probes > 0 /\ lock # "free"
    /\ probes' = probes - 1
    /\ UNCHANGED <<lock, updates, cycle, due>> /\ NoTrouble

\* Thirty tries over 7.5 seconds outlast the exit of a parent that has started
\* its replacement, not a healthy agent.
GiveUp ==
    /\ probes > 0 /\ lock \in {"boot", "run"}
    /\ probes' = probes - 1
    /\ UNCHANGED <<lock, updates, cycle, due>> /\ NoTrouble

\* Run: the first cycle starts at once.
Boot ==
    /\ lock = "boot"
    /\ lock' = "run" /\ due' = Interval
    /\ StartCycle
    /\ UNCHANGED <<probes, updates>> /\ NoTrouble

\* The process is gone and its handles with it.
Gone == lock' = "free" /\ due' = 0 /\ CycleEnds /\ UNCHANGED <<probes, updates>>

\* log.Fatal during start-up; a crash, a kill, a logoff or a shutdown.
Die == lock # "free" /\ Gone /\ Trouble

Exit == lock = "exiting" /\ Gone /\ NoTrouble

\* Mutant: the retries do not end with the first child that starts.
RelaunchEachTry == lock' = "exiting" /\ probes' = probes + 3

\* A child is started, then this process exits.
Relaunch == lock' = "exiting" /\ probes' = probes + 1

-----------------------------------------------------------------------------
(* The loop.                                                               *)

TickDue == Running /\ due = 0

\* Mutant: the cycle is given one more tick.
StallSeenLate ==
    IF age < StallAfter + Interval THEN {FALSE}
    ELSE IF age > StallAfter + Interval THEN {TRUE} ELSE BOOLEAN

\* Whether stuck >= stallAfter: at exactly StallAfter a delay of either tick decides.
StallSeen ==
    IF age < StallAfter THEN {FALSE} ELSE IF age > StallAfter THEN {TRUE} ELSE BOOLEAN

TickStart ==
    /\ TickDue /\ phase = "idle"
    /\ due' = Interval
    /\ StartCycle
    /\ UNCHANGED process /\ NoTrouble

\* Mutant: the start of the cycle is stamped before tickBusy is looked at.
TickSkipRestamping ==
    /\ TickDue /\ phase # "idle" /\ FALSE \in StallSeen
    /\ due' = Interval /\ age' = 0
    /\ UNCHANGED <<process, phase, left, hung>> /\ NoTrouble

TickSkip ==
    /\ TickDue /\ phase # "idle" /\ FALSE \in StallSeen
    /\ due' = Interval
    /\ UNCHANGED <<process, cycle>> /\ NoTrouble

Stalled == TickDue /\ phase # "idle" /\ TRUE \in StallSeen

\* restartWedged.
TickStall ==
    /\ Stalled
    /\ due' = Interval
    /\ Relaunch
    /\ UNCHANGED <<updates, cycle>> /\ NoTrouble

\* No replacement could be started: log.Fatal, for the scheduled task to see.
TickStallFatal == Stalled /\ Gone /\ Trouble

Tick == TickStart \/ TickSkip \/ TickStall \/ TickStallFatal

-----------------------------------------------------------------------------
(* The cycle.                                                              *)

\* Sample, Enqueue, Snapshot.
SampleDone ==
    /\ InPhase("sample")
    /\ EnterPhase("upload", UploadTimeout)
    /\ UNCHANGED <<process, due>> /\ NoTrouble

\* Nothing to flush, or a panic: recovered, the deferred function clears tickBusy.
CycleFails ==
    /\ Running /\ phase \notin {"idle", "applied"} /\ ~hung
    /\ CycleEnds
    /\ UNCHANGED <<process, due>> /\ Trouble

\* The server's part of a good upload is Alerts' Report.
Uploaded ==
    /\ InPhase("upload")
    /\ EnterPhase("ack", 0)
    /\ UNCHANGED <<process, due>> /\ NoTrouble

\* No server to answer, or one that refuses the token.
UploadRefused ==
    /\ InPhase("upload")
    /\ CycleEnds
    /\ UNCHANGED <<process, due>> /\ NoTrouble

\* Ack; no update to apply.
AckDone ==
    /\ InPhase("ack")
    /\ CycleEnds
    /\ UNCHANGED <<process, due>> /\ NoTrouble

\* Ack; Maybe finds a newer build in the answer.
UpdateBegins ==
    /\ InPhase("ack")
    /\ EnterPhase("update", DownloadTimeout)
    /\ UNCHANGED <<process, due>> /\ NoTrouble

\* The download or the swap fails, or Relaunch after it.
UpdateFails ==
    /\ InPhase("update")
    /\ CycleEnds
    /\ UNCHANGED <<process, due>> /\ NoTrouble

UpdateApplied ==
    /\ InPhase("update") /\ updates < MaxUpdates
    /\ updates' = updates + 1
    /\ Relaunch
    /\ EnterPhase("applied", 0)
    /\ UNCHANGED due /\ NoTrouble

Hang ==
    /\ phase \in {"sample", "ack", "update"} /\ ~hung
    /\ hangs + troubles < MaxTroubles
    /\ hung' = TRUE /\ hangs' = hangs + 1
    /\ UNCHANGED <<process, phase, age, left, due, troubles>>

-----------------------------------------------------------------------------
(* Time.                                                                   *)

\* What takes well under half a minute is done before time goes on; a time-out
\* and the ticker are not late.
LoopWaits ==
    /\ probes = 0 /\ lock \in {"free", "run"}
    /\ lock = "run" => due > 0
    /\ phase = "idle" \/ hung \/ left > 0

LoopTime ==
    /\ LoopWaits
    /\ due' = IF lock = "run" THEN due - 1 ELSE due
    /\ age' = IF phase = "idle" THEN 0 ELSE age + 1
    /\ left' = IF phase = "idle" \/ hung THEN left ELSE left - 1
    /\ UNCHANGED <<process, phase, hung>> /\ NoTrouble
=============================================================================
