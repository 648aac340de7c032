------------------------------ MODULE SelfUpdate ------------------------------
(***************************************************************************)
(* The agent replacing its own binary, and taking a bad replacement back.  *)
(*                                                                         *)
(* After every check-in the agent may swap agent.exe for a newer signed    *)
(* build (selfupdate.go): rename the running image to agent.exe.old, write *)
(* the new bytes, relaunch.  At every start it counts, in a small state    *)
(* file, the starts of a build that has not checked in yet; a crash loop   *)
(* quarantines the build and renames agent.exe.old back (rollback.go,      *)
(* cmd/agent/main.go).  The process may die between any two steps, a write *)
(* of the state file may fail unnoticed, the operator publishes and        *)
(* withdraws releases, and some builds never manage to check in.           *)
(*                                                                         *)
(* The signature, origin and hash checks of package update reject what is  *)
(* not a genuine release: here only genuine releases are offered.          *)
(***************************************************************************)
EXTENDS Integers

CONSTANTS
    Builds,         \* build numbers
    Installed,      \* the build the installer put there
    Broken,         \* builds that never check in
    CrashThreshold, \* crashThreshold: starts that make a crash loop
    CrashWindow,    \* crashWindowSecs
    MaxTime,        \* bound on the clock
    MaxFaults       \* bound on failed writes of the state file

None == 0
Torn == -1

ASSUME UpdateAssumption ==
    /\ Builds \subseteq Nat \ {0} /\ Installed \in Builds \ Broken
    /\ CrashThreshold \in Nat \ {0} /\ CrashWindow \in Nat
    /\ MaxTime \in Nat /\ MaxFaults \in Nat

VARIABLES
    now,
    exe, old, bad,  \* what agent.exe, agent.exe.old and agent.exe.bad hold
    st,             \* update-state.json
    proc,           \* the one agent process (the named mutex admits no second)
    release,        \* the build in the server's manifest, None without one
    \* History, never read by an action:
    proven,         \* builds that have checked in on this machine
    latest,         \* the build found crash-looping last
    spoiled,        \* an agent running as .bad gave its backup away
    cut,            \* a rollback ended between its two renames
    faults          \* failed writes of the state file

files == <<exe, old, bad>>
history == <<proven, latest, spoiled, cut>>
vars == <<now, files, st, proc, release, history, faults>>

File == Builds \cup {None, Torn}
StateFile == [build : Builds \cup {None}, first : Nat, count : 0 .. CrashThreshold,
              committed : BOOLEAN, quarantined : Builds \cup {None}, clean : BOOLEAN]
Zero == [build |-> None, first |-> 0, count |-> 0, committed |-> FALSE,
         quarantined |-> None, clean |-> FALSE]
\* image: the name under which the running binary lies on disk.
Process == [pc : {"none", "start", "run", "update", "write", "rollback", "restore",
                  "relaunch"},
            build : Builds \cup {None}, image : {"exe", "old", "bad"},
            quarantined : Builds \cup {None}, checkedIn : BOOLEAN,
            target : Builds \cup {None}]
NoProc == [pc |-> "none", build |-> None, image |-> "exe", quarantined |-> None,
           checkedIn |-> FALSE, target |-> None]

Init ==
    /\ now = 0
    /\ exe = Installed /\ old = None /\ bad = None
    /\ st = Zero
    /\ proc = NoProc
    /\ release = None
    /\ proven = {} /\ latest = None /\ spoiled = FALSE /\ cut = FALSE
    /\ faults = 0

-----------------------------------------------------------------------------
(* The surroundings.                                                       *)

PassTime ==
    /\ now < MaxTime
    /\ now' = now + 1
    /\ UNCHANGED <<files, st, proc, release, history, faults>>

\* The operator signs a release, or goes back to an earlier one.
Publish(b) ==
    /\ release' = b
    /\ UNCHANGED <<now, files, st, proc, history, faults>>

\* The process dies: a crash, a kill, a power cut.
Crash ==
    /\ proc.pc \notin {"none", "write"}
    /\ proc' = NoProc
    /\ cut' = (cut \/ proc.pc = "restore")
    /\ UNCHANGED <<now, files, st, release, proven, latest, spoiled, faults>>

\* It dies while agent.exe is being written: nothing there yet, or a part.
CrashWriting(part) ==
    /\ proc.pc = "write"
    /\ proc' = NoProc
    /\ exe' = part
    /\ UNCHANGED <<now, old, bad, st, release, history, faults>>

\* saveUpdateState ignores every error.  Then the file is as before, or, already
\* truncated, reads as the zero state.
Save(s) ==
    \/ st' = s /\ UNCHANGED faults
    \/ /\ faults < MaxFaults
       /\ faults' = faults + 1
       /\ st' \in {st, Zero}

-----------------------------------------------------------------------------
(* Startup.                                                                *)

\* The scheduled task, a logon or a relaunch starts what lies at agent.exe.
Launch ==
    /\ proc.pc = "none"
    /\ exe \in Builds
    /\ proc' = [NoProc EXCEPT !.pc = "start", !.build = exe]
    /\ UNCHANGED <<now, files, st, release, history, faults>>

Proceed(quarantined) ==
    proc' = [proc EXCEPT !.pc = "run", !.quarantined = quarantined]

\* EvaluateStartup: a build other than the tracked one begins its trial.
StartTrial ==
    /\ proc.pc = "start"
    /\ st.build # proc.build
    /\ Save([Zero EXCEPT !.build = proc.build, !.first = now, !.count = 1,
                         !.quarantined = st.quarantined])
    /\ Proceed(st.quarantined)
    /\ UNCHANGED <<now, files, release, history>>

\* ... a build that has checked in is not policed.
StartCommitted ==
    /\ proc.pc = "start"
    /\ st.build = proc.build /\ st.committed
    /\ Proceed(st.quarantined)
    /\ UNCHANGED <<now, files, st, release, history, faults>>

\* ... a start after a graceful exit does not count.
StartAfterCleanExit ==
    /\ proc.pc = "start"
    /\ st.build = proc.build /\ ~st.committed /\ st.clean
    /\ Save([st EXCEPT !.clean = FALSE])
    /\ Proceed(st.quarantined)
    /\ UNCHANGED <<now, files, release, history>>

\* ... any other start does.
Looping == st.count + 1 >= CrashThreshold /\ now - st.first <= CrashWindow
Counts == proc.pc = "start" /\ st.build = proc.build /\ ~st.committed /\ ~st.clean

\* Mutant: the count is not written back.
StartUncounted ==
    /\ Counts /\ ~Looping
    /\ Proceed(st.quarantined)
    /\ UNCHANGED <<now, files, st, release, history, faults>>

StartAfterCrash ==
    /\ Counts /\ ~Looping
    /\ Save([st EXCEPT !.count = IF @ < CrashThreshold THEN @ + 1 ELSE @])
    /\ Proceed(st.quarantined)
    /\ UNCHANGED <<now, files, release, history>>

\* Mutant: the build is not quarantined.
StartRollbackForgetting ==
    /\ Counts /\ Looping
    /\ Save(Zero)
    /\ proc' = [proc EXCEPT !.pc = "rollback", !.quarantined = proc.build]
    /\ latest' = proc.build
    /\ UNCHANGED <<now, files, release, proven, spoiled, cut>>

\* A crash loop: quarantine the build (nothing else is kept) and roll back.
StartRollback ==
    /\ Counts /\ Looping
    /\ Save([Zero EXCEPT !.quarantined = proc.build])
    /\ proc' = [proc EXCEPT !.pc = "rollback", !.quarantined = proc.build]
    /\ latest' = proc.build
    /\ UNCHANGED <<now, files, release, proven, spoiled, cut>>

-----------------------------------------------------------------------------
(* RollbackToOld.                                                          *)

\* Nothing to restore: stay on the current build.  So too when the first rename
\* fails, with an earlier agent.exe.bad already removed.
RollbackRefused ==
    /\ proc.pc = "rollback"
    /\ bad' \in IF old = None THEN {bad} ELSE {bad, None}
    /\ proc' = [proc EXCEPT !.pc = "run"]
    /\ UNCHANGED <<now, exe, old, st, release, history, faults>>

\* agent.exe -> agent.exe.bad
SetAside ==
    /\ proc.pc = "rollback"
    /\ old # None
    /\ bad' = exe /\ exe' = None
    /\ proc' = [proc EXCEPT !.pc = "restore", !.image = "bad"]
    /\ UNCHANGED <<now, old, st, release, history, faults>>

\* Mutant: the two binaries change places.
RestoreSwapping ==
    /\ proc.pc = "restore"
    /\ exe' = old /\ old' = bad
    /\ proc' = [proc EXCEPT !.pc = "relaunch"]
    /\ UNCHANGED <<now, bad, st, release, history, faults>>

\* agent.exe.old -> agent.exe; the running image agent.exe.bad cannot be removed.
Restore ==
    /\ proc.pc = "restore"
    /\ exe' = old /\ old' = None
    /\ proc' = [proc EXCEPT !.pc = "relaunch"]
    /\ UNCHANGED <<now, bad, st, release, history, faults>>

\* That rename fails: put the current build back, which may fail too.
RestoreFails ==
    /\ proc.pc = "restore"
    /\ \/ /\ exe' = bad /\ bad' = None
          /\ proc' = [proc EXCEPT !.pc = "run", !.image = "exe"]
          /\ UNCHANGED cut
       \/ /\ UNCHANGED <<exe, bad>>
          /\ proc' = [proc EXCEPT !.pc = "run"]
          /\ cut' = TRUE
    /\ UNCHANGED <<now, old, st, release, proven, latest, spoiled, faults>>

\* Relaunch: the new process takes over, or after three tries this one stays.
Relaunch(started) ==
    /\ proc.pc = "relaunch"
    /\ started => exe \in Builds
    /\ proc' = IF started THEN [NoProc EXCEPT !.pc = "start", !.build = exe]
                          ELSE [proc EXCEPT !.pc = "run"]
    /\ UNCHANGED <<now, files, st, release, history, faults>>

-----------------------------------------------------------------------------
(* Running.                                                                *)

\* Mutant: an upload that failed counts.
CheckInUnanswered ==
    /\ proc.pc = "run"
    /\ IF ~proc.checkedIn /\ st.build = proc.build /\ ~st.committed
       THEN Save([st EXCEPT !.committed = TRUE])
       ELSE UNCHANGED <<st, faults>>
    /\ proc' = [proc EXCEPT !.checkedIn = TRUE, !.target = release,
                            !.pc = IF release = None THEN "run" ELSE "update"]
    /\ proven' = proven \cup {proc.build}
    /\ UNCHANGED <<now, files, release, latest, spoiled, cut>>

\* An upload is answered.  The first one commits the build (MarkCheckedIn); the
\* answer carries the current manifest.
CheckIn ==
    /\ proc.pc = "run"
    /\ proc.build \notin Broken
    /\ IF ~proc.checkedIn /\ st.build = proc.build /\ ~st.committed
       THEN Save([st EXCEPT !.committed = TRUE])
       ELSE UNCHANGED <<st, faults>>
    /\ proc' = [proc EXCEPT !.checkedIn = TRUE, !.target = release,
                            !.pc = IF release = None THEN "run" ELSE "update"]
    /\ proven' = proven \cup {proc.build}
    /\ UNCHANGED <<now, files, release, latest, spoiled, cut>>

\* SelfUpdater.prepare's checks.
Wanted(b) == b # proc.quarantined /\ b > proc.build

\* Not wanted, or the download or the swap's first step fails: carry on.
Decline ==
    /\ proc.pc = "update"
    /\ proc' = [proc EXCEPT !.pc = "run"]
    /\ UNCHANGED <<now, files, st, release, history, faults>>

\* The agent runs as agent.exe.bad and its first update, whole or torn, lies at
\* agent.exe: the second drops the backup and takes that for one.
Spoils == proc.image = "bad" /\ exe \notin proven

\* Mutant: agent.exe is replaced in place.
SwapOutDropping ==
    /\ proc.pc = "update"
    /\ Wanted(proc.target)
    /\ old' = None /\ exe' = None
    /\ proc' = [proc EXCEPT !.pc = "write"]
    /\ UNCHANGED <<now, bad, st, release, history, faults>>

\* applyUpdateAt: drop the previous agent.exe.old, rename agent.exe to it.  A
\* running image can be renamed, not removed or overwritten.
SwapOut ==
    /\ proc.pc = "update"
    /\ Wanted(proc.target)
    /\ proc.image # "old" /\ exe # None
    /\ old' = exe /\ exe' = None
    /\ proc' = [proc EXCEPT !.pc = "write",
                            !.image = IF @ = "exe" THEN "old" ELSE @]
    /\ spoiled' = (spoiled \/ Spoils)
    /\ UNCHANGED <<now, bad, st, release, proven, latest, cut, faults>>

\* Removing agent.exe.old may succeed and the rename fail.
SwapHalf ==
    /\ proc.pc = "update"
    /\ Wanted(proc.target)
    /\ proc.image # "old"
    /\ old' = None
    /\ proc' = [proc EXCEPT !.pc = "run"]
    /\ spoiled' = (spoiled \/ Spoils)
    /\ UNCHANGED <<now, exe, bad, st, release, proven, latest, cut, faults>>

\* The new bytes are written.
WriteNew ==
    /\ proc.pc = "write"
    /\ exe' = proc.target
    /\ proc' = [proc EXCEPT !.pc = "relaunch"]
    /\ UNCHANGED <<now, old, bad, st, release, history, faults>>

\* Writing fails: the old binary is renamed back over the part written, which
\* may fail too.
WriteFails ==
    /\ proc.pc = "write"
    /\ \/ /\ exe' = old /\ old' = None
          /\ proc' = [proc EXCEPT !.pc = "run",
                                  !.image = IF @ = "old" THEN "exe" ELSE @]
       \/ /\ exe' \in {None, Torn} /\ UNCHANGED old
          /\ proc' = [proc EXCEPT !.pc = "run"]
    /\ UNCHANGED <<now, bad, st, release, history, faults>>

\* Run returns on a stop, logoff or reboot: MarkCleanExit.
CleanExit ==
    /\ proc.pc = "run"
    /\ IF st.build = proc.build THEN Save([st EXCEPT !.clean = TRUE])
                                ELSE UNCHANGED <<st, faults>>
    /\ proc' = NoProc
    /\ UNCHANGED <<now, files, release, history>>

-----------------------------------------------------------------------------
Next ==
    \/ PassTime \/ Crash \/ Launch
    \/ \E b \in Builds : Publish(b)
    \/ \E part \in {None, Torn} : CrashWriting(part)
    \/ StartTrial \/ StartCommitted \/ StartAfterCleanExit
    \/ StartAfterCrash \/ StartRollback
    \/ RollbackRefused \/ SetAside \/ Restore \/ RestoreFails
    \/ \E started \in BOOLEAN : Relaunch(started)
    \/ CheckIn \/ Decline \/ SwapOut \/ SwapHalf \/ WriteNew \/ WriteFails
    \/ CleanExit

Spec == Init /\ [][Next]_vars

\* The task starts agent.exe again and again and some start gets as far as its
\* decision; a broken build crashes sooner or later; a rename that can succeed
\* does not fail for ever.
Fairness ==
    /\ WF_vars(Launch)
    /\ SF_vars(StartTrial \/ StartCommitted \/ StartAfterCleanExit
               \/ StartAfterCrash \/ StartRollback)
    /\ SF_vars(proc.pc = "run" /\ proc.build \in Broken /\ Crash)
    /\ SF_vars(SetAside)
    /\ SF_vars(Restore)

FairSpec == Spec /\ Fairness

-----------------------------------------------------------------------------
(* What the mechanism promises.                                            *)

TypeOK ==
    /\ now \in Nat
    /\ exe \in File /\ old \in File /\ bad \in File
    /\ st \in StateFile /\ proc \in Process
    /\ release \in Builds \cup {None}
    /\ proven \subseteq Builds \ Broken
    /\ latest \in Builds \cup {None} /\ spoiled \in BOOLEAN /\ cut \in BOOLEAN
    /\ faults \in 0 .. MaxFaults

\* A rollback lands on a build that works here: agent.exe.old is never anything
\* but a whole binary that has checked in on this machine, unless an agent that
\* still runs as agent.exe.bad updates twice (Spoils).
BackupIsProven == old \in proven \cup {None} \/ spoiled

\* However the swaps and rollbacks are cut short, a copy of a proven binary, or
\* of the installed one, stays on the disk, with the same exception.
CopySurvives == (\E f \in {exe, old, bad} : f \in proven \cup {Installed}) \/ spoiled

\* Whatever is cut short, there is a proven way back.
WayBackHolds == TypeOK /\ BackupIsProven /\ CopySurvives

\* The build that was found crash-looping last is not applied again, as long as
\* the state file could be written.
LatestStaysOut == proc.pc = "write" /\ faults = 0 => proc.target # latest

\* A build that crashes before it checks in gives way to a whole build that works,
\* though attempts to rename fail and are undone: unless its trial has outlived the
\* window, the backup is spoiled, or a rollback was cut between its two renames, which
\* leaves no agent.exe, and nothing here puts one back.
BadBuildIsLeft ==
    proc.pc = "run" /\ proc.build \in Broken
        ~> \/ exe \in Builds \ Broken
           \/ cut \/ spoiled
           \/ st.build = exe /\ now - st.first > CrashWindow
=============================================================================
