------------------------------- MODULE Autostart -------------------------------
(***************************************************************************)
(* The scheduled task that starts the agent: installed and removed by      *)
(* one-shot runs of the program, repaired by every agent that starts, and  *)
(* fired by Windows all the while (install_windows.go; main.go 58-129).    *)
(*                                                                         *)
(* schtasks /End stops the processes that the task started; one that was   *)
(* relaunched by its predecessor (an update, a rollback, the watchdog) is  *)
(* no longer the task's.  A template of the task is named by the build     *)
(* that writes it.  The files are the device's credentials, the secret it  *)
(* enrolls with (enroll.json), and its data: the queue and the update's    *)
(* state.  What the server says to an enrollment is Registry's, and the    *)
(* predecessor of a relaunched process is gone at once (AgentLoop).        *)
(***************************************************************************)
EXTENDS Naturals

CONSTANTS
    Templates,      \* builds of the agent, by the task's template they carry
    NoTemplate,
    Procs           \* agent processes alive at a time

ASSUME AutostartAssumption == NoTemplate \notin Templates

VARIABLES
    task,           \* the template it was registered with, or none
    exe,            \* agent.exe in the install directory
    folder,         \* of credentials, enrollment and data, those that are there
    procs,          \* the agents
    tool,           \* where the one-shot run is, if there is one
    \* History, without effect on the rest:
    gone,           \* the last one-shot run that came through was an uninstallation
    missed,         \* an agent was alive when its task was deleted
    undeleted,      \* the files whose removal was refused
    late            \* credentials were saved after the others' removal

pastRuns == <<gone, missed, undeleted, late>>
autostartVars == <<task, exe, folder, procs, tool, pastRuns>>

None == [pc |-> "none", owned |-> FALSE, build |-> NoTemplate]
Alive == {p \in Procs : procs[p].pc # "none"}

AutostartInit ==
    /\ task = NoTemplate /\ exe = NoTemplate /\ folder = {}
    /\ procs = [p \in Procs |-> None]
    /\ tool = "idle" /\ gone = FALSE /\ missed = FALSE /\ undeleted = {} /\ late = FALSE

-----------------------------------------------------------------------------
(* The agents. *)

Goes(p, pc) == procs' = [procs EXCEPT ![p].pc = pc]
Ends(p) == procs' = [procs EXCEPT ![p] = None]

Start(p) ==
    /\ task # NoTemplate /\ exe # NoTemplate /\ p \notin Alive
    /\ procs' = [procs EXCEPT ![p] = [pc |-> "born", owned |-> TRUE, build |-> exe]]
    /\ UNCHANGED <<task, exe, folder, tool, pastRuns>>

Locked == \E p \in Alive : procs[p].pc # "born"

\* The mutex, or a probe gives up.
Enter(p) ==
    /\ procs[p].pc = "born"
    /\ IF Locked THEN Ends(p) ELSE Goes(p, "locked")
    /\ UNCHANGED <<task, exe, folder, tool, pastRuns>>

\* LoadCredentials, or else ReadEnrollFile; with neither the process ends.
Resolve(p) ==
    /\ procs[p].pc = "locked"
    /\ \/ "credentials" \in folder /\ Goes(p, "known")
       \/ "credentials" \notin folder /\ "enrollment" \in folder /\ Goes(p, "enrolling")
       \/ "credentials" \notin folder /\ "enrollment" \notin folder /\ Ends(p)
    /\ UNCHANGED <<task, exe, folder, tool, pastRuns>>

\* The uninstaller has been at the credentials.
Removed == tool \in {"stripped", "emptied"} \/ gone

\* enrollWithRetry, after up to four waits, and SaveCredentials.  (If either fails, Exit.)
Enroll(p) ==
    /\ procs[p].pc = "enrolling"
    /\ folder' = folder \cup {"credentials"}
    /\ late' = (late \/ Removed)
    /\ Goes(p, "saved")
    /\ UNCHANGED <<task, exe, tool, gone, missed, undeleted>>

\* RemoveEnrollFile, whose error is dropped.
ForgetSecret(p) ==
    /\ procs[p].pc = "saved"
    /\ folder' \in {folder, folder \ {"enrollment"}}
    /\ Goes(p, "known")
    /\ UNCHANGED <<task, exe, tool, pastRuns>>

\* taskIsCurrent: a task it cannot read wants repair as well.
Query(p) ==
    /\ procs[p].pc = "known"
    /\ \/ task = procs[p].build /\ Goes(p, "runs")
       \/ Goes(p, "repair")
    /\ UNCHANGED <<task, exe, folder, tool, pastRuns>>

\* registerTask, which may fail.
Repair(p) ==
    /\ procs[p].pc = "repair"
    /\ task' \in {task, procs[p].build}
    /\ Goes(p, "runs")
    /\ UNCHANGED <<exe, folder, tool, pastRuns>>

\* The queue is written, into the directory that the program itself keeps there.
Persist(p) ==
    /\ procs[p].pc = "runs"
    /\ folder' = folder \cup {"data"}
    /\ UNCHANGED <<task, exe, procs, tool, pastRuns>>

\* The process replaces itself, after an update, a rollback or a stall.
Succeed(p, build) ==
    /\ procs[p].pc = "runs" /\ exe # NoTemplate
    /\ exe' = build
    /\ procs' = [procs EXCEPT ![p] = [pc |-> "born", owned |-> FALSE, build |-> build]]
    /\ UNCHANGED <<task, folder, tool, pastRuns>>

Exit(p) ==
    /\ p \in Alive
    /\ Ends(p)
    /\ UNCHANGED <<task, exe, folder, tool, pastRuns>>

-----------------------------------------------------------------------------
(* The one-shot runs. *)

\* The installer may bring a secret.  Install copies the program, unless it is the one
\* installed; over one that runs the copy fails.
InstallCopy(build) ==
    /\ tool = "idle"
    /\ folder' \in {folder, folder \cup {"enrollment"}}
    /\ \/ (Alive = {} \/ build = exe) /\ exe' = build /\ tool' = "copied"
       \/ UNCHANGED <<exe, tool>>
    /\ gone' = FALSE /\ missed' = FALSE /\ undeleted' = {} /\ late' = FALSE
    /\ UNCHANGED <<task, procs>>

InstallRegister ==
    /\ tool = "copied"
    /\ task' \in {task, exe}
    /\ tool' = "idle"
    /\ UNCHANGED <<exe, folder, procs, pastRuns>>

\* Uninstall: the task's processes are ended, unless that fails.
UninstallEnd ==
    /\ tool = "idle"
    /\ \/ procs' = [p \in Procs |-> IF procs[p].owned THEN None ELSE procs[p]]
       \/ UNCHANGED procs
    /\ tool' = "ended"
    /\ UNCHANGED <<task, exe, folder, pastRuns>>

\* Mutant: an error does not end it.
UninstallDeleteUnchecked ==
    /\ tool = "ended"
    /\ tool' = "deleted" /\ task' \in {task, NoTemplate}
    /\ gone' = FALSE /\ missed' = (Alive # {}) /\ undeleted' = {} /\ late' = FALSE
    /\ UNCHANGED <<exe, folder, procs>>

\* Then the task is deleted.  An error, a missing task included, ends the run.
UninstallDelete ==
    /\ tool = "ended"
    /\ \/ /\ task # NoTemplate
          /\ task' = NoTemplate /\ tool' = "deleted"
          /\ gone' = FALSE /\ missed' = (Alive # {}) /\ undeleted' = {} /\ late' = FALSE
       \/ tool' = "idle" /\ UNCHANGED <<task, pastRuns>>
    /\ UNCHANGED <<exe, folder, procs>>

\* Then the files, one by one; each removal may be refused, and the run goes on.
UninstallFiles ==
    /\ tool = "deleted"
    /\ \E refused \in SUBSET (folder \ {"enrollment"}) :
          /\ folder' = (folder \cap {"enrollment"}) \cup refused
          /\ undeleted' = refused
    /\ tool' = "stripped"
    /\ UNCHANGED <<task, exe, procs, gone, missed, late>>

\* Mutant: the secret is not among the files to remove.
UninstallEnrollmentForgotten ==
    /\ tool = "stripped"
    /\ tool' = "emptied" /\ gone' = TRUE
    /\ UNCHANGED <<task, exe, folder, procs, missed, undeleted, late>>

UninstallEnrollment ==
    /\ tool = "stripped"
    /\ \/ folder' = folder \ {"enrollment"} /\ UNCHANGED undeleted
       \/ undeleted' = undeleted \cup (folder \cap {"enrollment"}) /\ UNCHANGED folder
    /\ tool' = "emptied" /\ gone' = TRUE
    /\ UNCHANGED <<task, exe, procs, missed, late>>

\* scheduleCleanup: whatever nothing holds goes, perhaps the directory with it.
Cleanup ==
    /\ tool = "emptied"
    /\ tool' = "idle"
    /\ exe' \in {NoTemplate, exe} /\ folder' \in SUBSET folder
    /\ UNCHANGED <<task, procs, pastRuns>>

AutostartNext ==
    \/ \E p \in Procs : \/ Start(p) \/ Enter(p) \/ Resolve(p) \/ Enroll(p) \/ ForgetSecret(p)
                        \/ Query(p) \/ Repair(p) \/ Persist(p) \/ Exit(p)
                        \/ \E build \in Templates : Succeed(p, build)
    \/ \E build \in Templates : InstallCopy(build)
    \/ InstallRegister
    \/ UninstallEnd \/ UninstallDelete \/ UninstallFiles \/ UninstallEnrollment \/ Cleanup

AutostartSpec == AutostartInit /\ [][AutostartNext]_autostartVars

-----------------------------------------------------------------------------
\* An uninstallation leaves no task, no agent, and no file but those whose removal was
\* refused, though Windows fires the task and the agents repair it and enroll meanwhile,
\* unless an agent was alive when the task was deleted: fired since the others were
\* ended, or not the task's.
UninstallHolds ==
    gone /\ ~missed => task = NoTemplate /\ Alive = {} /\ folder \subseteq undeleted

\* No agent is past its look at the credentials.
NoneKnows == \A p \in Procs : procs[p].pc \in {"none", "born", "locked"}

\* Even then those already on their way are the last.  They may register the task again;
\* but once they have ended it stays as they left it, and no agent that it starts finds
\* credentials or enrolls, unless one of them was enrolling and saved what it got, or the
\* removal of the credentials or of the secret was refused.
LastOneOut ==
    [][gone /\ gone' /\ ~late /\ undeleted \subseteq {"data"} /\ NoneKnows
        => NoneKnows' /\ task' = task]_autostartVars
=============================================================================
