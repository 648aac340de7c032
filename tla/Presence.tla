------------------------------- MODULE Presence -------------------------------
(***************************************************************************)
(* One computer and the server watching over it: the agent's process, its  *)
(* watchdog (AgentLoop) and the server's alerts (Alerts), in one time.     *)
(***************************************************************************)
EXTENDS AgentLoop, Alerts

vars == <<agentVars, serverVars>>

Init == LoopInit /\ AlertsInit

\* An upload that is answered, and one whose answer is lost.
Upload == Report /\ Uploaded
AnswerLost == Report /\ phase = "upload" /\ CycleFails

\* 401, or nobody listens.
Refused ==
    /\ ~up \/ status # "active"
    /\ UploadRefused /\ UNCHANGED serverVars

AgentStep ==
    /\ \/ Fire \/ TakeLock \/ GiveUp \/ Boot \/ Die \/ Exit \/ Tick
       \/ SampleDone \/ CycleFails \/ AckDone \/ UpdateBegins \/ UpdateFails
       \/ UpdateApplied \/ Hang
    /\ UNCHANGED serverVars

Check ==
    /\ CheckRead \/ CheckApply
    /\ UNCHANGED agentVars

ServerTrouble ==
    /\ CheckFails \/ ServerCrash \/ Command
    /\ Trouble /\ UNCHANGED <<process, cycle, due>>

Restart == ServerStart /\ UNCHANGED agentVars

PassTime == LoopTime /\ CheckTime

Next ==
    Upload \/ AnswerLost \/ Refused \/ AgentStep \/ Check \/ ServerTrouble \/ Restart \/ PassTime

\* Time goes on; the scheduled task replaces an agent that is gone; what is not
\* hung ends, by its time-out if need be.
Fairness ==
    /\ SF_vars(PassTime)
    /\ WF_vars(Fire /\ lock = "free" /\ UNCHANGED serverVars)
    /\ WF_vars(TakeLock /\ UNCHANGED serverVars)
    /\ WF_vars(GiveUp /\ UNCHANGED serverVars)
    /\ WF_vars(Boot /\ UNCHANGED serverVars)
    /\ WF_vars(Exit /\ UNCHANGED serverVars)
    /\ WF_vars(Tick /\ UNCHANGED serverVars)
    /\ WF_vars((SampleDone \/ AckDone \/ UpdateFails) /\ UNCHANGED serverVars)
    /\ WF_vars(Upload \/ Refused)
    /\ WF_vars(Check)
    /\ WF_vars(Restart)

Spec == Init /\ [][Next]_vars /\ Fairness

-----------------------------------------------------------------------------
TypeOK ==
    /\ lock \in {"free", "boot", "run", "exiting"}
    /\ probes \in 0 .. 3
    /\ phase \in {"idle", "sample", "upload", "ack", "update", "applied"}
    /\ hung \in BOOLEAN
    /\ due \in 0 .. Interval
    /\ left \in UNION {0 .. time : time \in {SampleTime, UploadTimeout, DownloadTimeout}}
    /\ updates \in 0 .. MaxUpdates
    /\ hangs + troubles \in 0 .. MaxTroubles
    /\ up \in BOOLEAN /\ seeded \in BOOLEAN /\ disturbed \in BOOLEAN
    /\ status \in {"active", "revoked", "deleted"}
    /\ silence \in Never .. SilenceCap
    /\ alert \in {"untracked", "seeded", "alerted"}
    /\ checkDue \in 0 .. CheckEvery
    /\ snap \in {NoSnap, "offline", "online", "skipped"}
    /\ heard \in {"nothing", "offline", "online"} \X {"nothing", "offline", "online"}
    /\ told \in BOOLEAN

\* The watchdog's reach: no cycle outlasts the stall threshold by more than one
\* tick of the loop, whether it hangs, is slow or is skipped over (core.go Run).
StuckIsReplaced == age <= StallAfter + Interval

\* The longest a healthy device is silent: a report right after the start of a cycle
\* that then uses up the watchdog's patience, a cycle that hangs before its report,
\* and the time the next one needs for its own.
ReportTime == SampleTime + UploadTimeout
Reach == StallAfter + Interval
DurationsFit == ReportTime < StallAfter /\ 2 * Reach + ReportTime <= OfflineAfter

\* One wedged call, and nothing else going wrong, is healed by the watchdog before
\* the server takes the device for offline: the hand-over of the mutex, the first
\* cycle of the new process and the tick that noticed fit into OfflineAfter.
WedgeStaysQuiet == hangs <= 1 /\ troubles = 0 => heard[2] # "offline"

\* The watchdog restarts the agent for a cycle "that has genuinely stopped
\* returning" only, never for one that still waits for an answer (core.go:16-19).
OnlyTheStuckAreKilled ==
    [][lock = "run" /\ lock' = "exiting" /\ updates' = updates => hung \/ left = 0]_vars

\* A device silent for longer than the threshold and a check is on record as
\* announced, unless the server was restarted, failed to look or was told to change
\* the device since it last reported.
OutageAnnounced == silence = SilenceCap /\ up /\ ~disturbed => alert = "alerted"

HeardInTurn ==
    heard \in {Nothing, <<"nothing", "offline">>, <<"offline", "online">>,
               <<"online", "offline">>}
ToldOnce == alert # "alerted" /\ alert' = "alerted" => ~told

\* Until the server forgets the device, in a restart or by pruning it, the household
\* hears "offline" once and then no note but "back online", and that only of a device
\* it was told is offline.  After a restart it may wait in vain for "back online"; but
\* one and the same silence is never announced twice, restarts included, unless the
\* operator has intervened.
NotesAlternate == [][HeardInTurn' /\ ToldOnce]_vars

\* After any number of crashes, hangs and failures the device reports again, and
\* again: the task, the mutex and the watchdog never leave it without an agent.
AgentComesBack == []<>(silence = 0 \/ status # "active")

\* An alert is taken back once the device reports, is revoked or deleted.
AlertResolves == alert = "alerted" ~> alert = "untracked"
=============================================================================
