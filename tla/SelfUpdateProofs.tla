--------------------------- MODULE SelfUpdateProofs ---------------------------
(***************************************************************************)
(* Theorems about SelfUpdate, for every set of builds, crash threshold and *)
(* window, and every bound on the clock and on failed writes.              *)
(***************************************************************************)
EXTENDS SelfUpdate, TLAPS

(* Where the running binary lies, and what lies beside it.  The name under which *)
(* the image runs says which file holds its build; a process that checks for     *)
(* updates has checked in, so the build it runs is proven, and the swap renames  *)
(* just that file to agent.exe.old.                                              *)

ImageInPlace ==
    /\ proc.image = "exe" /\ proc.pc # "none" => exe = proc.build
    /\ proc.image = "old" => old = proc.build /\ old \in proven
    /\ proc.image = "bad" => bad = proc.build

\* Which names the image can have at each point of the process.
ImageFits ==
    /\ proc.pc \in {"none", "start", "rollback"} => proc.image = "exe"
    /\ proc.pc \in {"write", "relaunch"} => proc.image # "exe"
    /\ proc.pc = "restore" => proc.image = "bad" /\ old # None
    /\ proc.pc = "none" \/ proc.build \in Builds

\* What has been written down while the process got there.
UpdaterProven ==
    /\ proc.pc \in {"update", "write"} => proc.build \in proven
    /\ proc.pc \in {"write", "restore"} => exe = None
    /\ proc.pc = "write" => proc.target \in Builds

FilesInv ==
    /\ TypeOK
    /\ ImageInPlace /\ ImageFits /\ UpdaterProven
    /\ BackupIsProven /\ CopySurvives

\* The state file of a fresh machine, and what it may become.
LEMMA ZeroTyped == Zero \in StateFile
BY UpdateAssumption DEF Zero, StateFile

LEMMA SaveTyped ==
    ASSUME TypeOK, NEW s \in StateFile, Save(s)
    PROVE  st' \in StateFile /\ faults' \in 0 .. MaxFaults
BY ZeroTyped, UpdateAssumption DEF Save, TypeOK

\* No process is a process, and 0 stands for no build.
LEMMA NoProcTyped ==
    /\ NoProc \in Process
    /\ None \notin Builds /\ Torn \notin Builds
    /\ Installed \in Builds
BY UpdateAssumption DEF NoProc, Process, None, Torn

LEMMA EnvironmentTyped ==
    ASSUME TypeOK,
           \/ PassTime \/ Crash \/ Launch
           \/ \E b \in Builds : Publish(b)
           \/ \E part \in {None, Torn} : CrashWriting(part)
    PROVE  TypeOK'
<1> USE DEF TypeOK, files, history, File
<1>1. CASE PassTime
  BY <1>1 DEF PassTime
<1>2. CASE Crash
  BY <1>2, NoProcTyped DEF Crash
<1>3. CASE Launch
  <2>1. [NoProc EXCEPT !.pc = "start", !.build = exe] \in Process
    BY <1>3, NoProcTyped DEF Launch, Process
  <2>2. QED
    BY <1>3, <2>1 DEF Launch
<1>4. CASE \E b \in Builds : Publish(b)
  BY <1>4 DEF Publish
<1>5. CASE \E part \in {None, Torn} : CrashWriting(part)
  BY <1>5, NoProcTyped DEF CrashWriting
<1>6. QED
  BY <1>1, <1>2, <1>3, <1>4, <1>5

LEMMA StartTyped ==
    ASSUME TypeOK,
           \/ StartTrial \/ StartCommitted \/ StartAfterCleanExit
           \/ StartAfterCrash \/ StartRollback
    PROVE  TypeOK'
<1> USE DEF TypeOK, files, history, File
<1>1. ASSUME NEW q \in Builds \cup {None}
      PROVE  /\ [proc EXCEPT !.pc = "run", !.quarantined = q] \in Process
             /\ [proc EXCEPT !.pc = "rollback", !.quarantined = q] \in Process
  BY DEF Process
<1>2. st.quarantined \in Builds \cup {None} /\ proc.build \in Builds \cup {None}
  BY DEF StateFile, Process
<1>3. CASE StartTrial
  <2>1. [Zero EXCEPT !.build = proc.build, !.first = now, !.count = 1,
                     !.quarantined = st.quarantined] \in StateFile
    <3>1. 1 \in 0 .. CrashThreshold
      BY UpdateAssumption
    <3>2. QED
      BY <1>2, <3>1, ZeroTyped DEF StateFile
  <2>2. QED
    BY <1>1, <1>2, <1>3, <2>1, SaveTyped DEF StartTrial, Proceed
<1>4. CASE StartCommitted
  BY <1>1, <1>2, <1>4 DEF StartCommitted, Proceed
<1>5. CASE StartAfterCleanExit
  <2>1. [st EXCEPT !.clean = FALSE] \in StateFile
    BY DEF StateFile
  <2>2. QED
    BY <1>1, <1>2, <1>5, <2>1, SaveTyped DEF StartAfterCleanExit, Proceed
<1>6. CASE StartAfterCrash
  <2>1. [st EXCEPT !.count = IF @ < CrashThreshold THEN @ + 1 ELSE @] \in StateFile
    BY UpdateAssumption DEF StateFile
  <2>2. QED
    BY <1>1, <1>2, <1>6, <2>1, SaveTyped DEF StartAfterCrash, Proceed
<1>7. CASE StartRollback
  <2>1. [Zero EXCEPT !.quarantined = proc.build] \in StateFile
    BY <1>2, ZeroTyped, UpdateAssumption DEF StateFile
  <2>2. QED
    BY <1>1, <1>2, <1>7, <2>1, SaveTyped DEF StartRollback
<1>8. QED
  BY <1>3, <1>4, <1>5, <1>6, <1>7

LEMMA RollbackTyped ==
    ASSUME TypeOK,
           \/ RollbackRefused \/ SetAside \/ Restore \/ RestoreFails
           \/ \E started \in BOOLEAN : Relaunch(started)
    PROVE  TypeOK'
<1> USE DEF TypeOK, files, history, File
<1>1. CASE RollbackRefused
  BY <1>1 DEF RollbackRefused, Process
<1>2. CASE SetAside
  BY <1>2 DEF SetAside, Process
<1>3. CASE Restore
  BY <1>3 DEF Restore, Process
<1>4. CASE RestoreFails
  <2>1. proc' = [proc EXCEPT !.pc = "run", !.image = "exe"] \/ proc' = [proc EXCEPT !.pc = "run"]
    BY <1>4 DEF RestoreFails
  <2>2. proc' \in Process
    BY <2>1 DEF Process
  <2>3. cut' \in BOOLEAN
    BY <1>4, Zenon DEF RestoreFails
  <2>4. exe' \in File /\ bad' \in File
    BY <1>4 DEF RestoreFails
  <2>5. QED
    BY <1>4, <2>2, <2>3, <2>4 DEF RestoreFails
<1>5. CASE \E started \in BOOLEAN : Relaunch(started)
  <2>1. PICK started \in BOOLEAN : Relaunch(started)
    BY <1>5
  <2>2. [proc EXCEPT !.pc = "run"] \in Process
    BY DEF Process
  <2>3. ASSUME started
        PROVE  [NoProc EXCEPT !.pc = "start", !.build = exe] \in Process
    BY <2>1, <2>3, NoProcTyped DEF Relaunch, Process
  <2>4. QED
    BY <2>1, <2>2, <2>3 DEF Relaunch
<1>6. QED
  BY <1>1, <1>2, <1>3, <1>4, <1>5

LEMMA RunTyped ==
    ASSUME TypeOK, proc.build \in Builds,
           \/ CheckIn \/ Decline \/ SwapOut \/ SwapHalf \/ WriteNew \/ WriteFails
           \/ CleanExit
    PROVE  TypeOK'
<1> USE DEF TypeOK, files, history, File
<1>1. CASE CheckIn
  <2>1. [st EXCEPT !.committed = TRUE] \in StateFile
    BY DEF StateFile
  <2>2. st' \in StateFile /\ faults' \in 0 .. MaxFaults
    BY <1>1, <2>1, SaveTyped DEF CheckIn
  <2>3. proc' \in Process
    BY <1>1 DEF CheckIn, Process
  <2>4. proven' \subseteq Builds \ Broken
    BY <1>1 DEF CheckIn
  <2>5. QED
    BY <1>1, <2>2, <2>3, <2>4 DEF CheckIn
<1>2. CASE Decline
  BY <1>2 DEF Decline, Process
<1>3. CASE SwapOut
  BY <1>3 DEF SwapOut, Spoils, Process
<1>4. CASE SwapHalf
  BY <1>4 DEF SwapHalf, Spoils, Process
<1>5. CASE WriteNew
  BY <1>5 DEF WriteNew, Process
<1>6. CASE WriteFails
  <2>1. \/ proc' = [proc EXCEPT !.pc = "run", !.image = IF @ = "old" THEN "exe" ELSE @]
        \/ proc' = [proc EXCEPT !.pc = "run"]
    BY <1>6 DEF WriteFails
  <2>2. proc' \in Process
    BY <2>1 DEF Process
  <2>3. exe' \in File /\ old' \in File
    BY <1>6 DEF WriteFails
  <2>4. QED
    BY <1>6, <2>2, <2>3 DEF WriteFails
<1>7. CASE CleanExit
  <2>1. [st EXCEPT !.clean = TRUE] \in StateFile
    BY DEF StateFile
  <2>2. st' \in StateFile /\ faults' \in 0 .. MaxFaults
    BY <1>7, <2>1, SaveTyped DEF CleanExit
  <2>3. QED
    BY <1>7, <2>2, NoProcTyped DEF CleanExit
<1>8. QED
  BY <1>1, <1>2, <1>3, <1>4, <1>5, <1>6, <1>7

-----------------------------------------------------------------------------
(* The files, step by step.                                                *)

\* The surroundings touch agent.exe only while it is being written, when it holds
\* nothing and agent.exe.old or agent.exe.bad is the running image.
LEMMA EnvironmentKeepsFiles ==
    ASSUME FilesInv,
           \/ PassTime \/ Crash \/ Launch
           \/ \E b \in Builds : Publish(b)
           \/ \E part \in {None, Torn} : CrashWriting(part)
    PROVE  FilesInv'
<1> USE DEF FilesInv, ImageInPlace, ImageFits, UpdaterProven, BackupIsProven,
            CopySurvives, files, history
<1>0. TypeOK'
  BY EnvironmentTyped
<1>1. CASE PassTime
  BY <1>0, <1>1 DEF PassTime
<1>2. CASE Crash
  BY <1>0, <1>2 DEF Crash, NoProc
<1>3. CASE Launch
  BY <1>0, <1>3 DEF Launch, NoProc
<1>4. CASE \E b \in Builds : Publish(b)
  BY <1>0, <1>4 DEF Publish
<1>5. CASE \E part \in {None, Torn} : CrashWriting(part)
  BY <1>0, <1>5, UpdateAssumption DEF CrashWriting, NoProc, TypeOK, None
<1>6. QED
  BY <1>1, <1>2, <1>3, <1>4, <1>5

\* A start reads and writes the state file only.
LEMMA StartKeepsFiles ==
    ASSUME FilesInv,
           \/ StartTrial \/ StartCommitted \/ StartAfterCleanExit
           \/ StartAfterCrash \/ StartRollback
    PROVE  FilesInv'
<1>1. TypeOK'
  BY StartTyped DEF FilesInv
<1>2. /\ UNCHANGED <<exe, old, bad, proven, spoiled>>
      /\ proc.pc = "start"
      /\ \/ proc' = [proc EXCEPT !.pc = "run", !.quarantined = st.quarantined]
         \/ proc' = [proc EXCEPT !.pc = "rollback", !.quarantined = proc.build]
  BY DEF StartTrial, StartCommitted, StartAfterCleanExit, StartAfterCrash, StartRollback,
         Counts, Proceed, files, history
<1>3. /\ proc'.pc \in {"run", "rollback"}
      /\ proc'.image = proc.image /\ proc'.build = proc.build
  BY <1>2 DEF FilesInv, TypeOK, Process
<1>4. QED
  BY <1>1, <1>2, <1>3 DEF FilesInv, ImageInPlace, ImageFits, UpdaterProven,
                          BackupIsProven, CopySurvives

\* A rollback gives up agent.exe only when there is a proven agent.exe.old.
LEMMA RollbackKeepsFiles ==
    ASSUME FilesInv,
           \/ RollbackRefused \/ SetAside \/ Restore \/ RestoreFails
           \/ \E started \in BOOLEAN : Relaunch(started)
    PROVE  FilesInv'
<1> USE DEF FilesInv, ImageInPlace, ImageFits, UpdaterProven, BackupIsProven,
            CopySurvives, files, history
<1>0. TypeOK'
  BY RollbackTyped
<1>1. CASE RollbackRefused
  BY <1>0, <1>1 DEF RollbackRefused, TypeOK, Process
<1>2. CASE SetAside
  BY <1>0, <1>2 DEF SetAside, TypeOK, Process
<1>3. CASE Restore
  BY <1>0, <1>3 DEF Restore, TypeOK, Process
<1>4. CASE RestoreFails
  <2>1. /\ proc.pc = "restore" /\ proc.image = "bad" /\ bad = proc.build /\ exe = None
        /\ proc'.pc = "run" /\ proc'.build = proc.build
        /\ UNCHANGED <<old, proven, spoiled>>
    BY <1>4 DEF RestoreFails, TypeOK, Process
  <2>2. CASE exe' = bad /\ bad' = None /\ proc'.image = "exe"
    BY <1>0, <2>1, <2>2, NoProcTyped DEF TypeOK, None
  <2>3. CASE UNCHANGED <<exe, bad>> /\ proc'.image = "bad"
    BY <1>0, <2>1, <2>3
  <2>4. QED
    BY <1>4, <2>2, <2>3 DEF RestoreFails, TypeOK, Process
<1>5. CASE \E started \in BOOLEAN : Relaunch(started)
  BY <1>0, <1>5 DEF Relaunch, NoProc, TypeOK, Process
<1>6. QED
  BY <1>1, <1>2, <1>3, <1>4, <1>5

\* An update makes the binary that runs the backup, and that one has checked in.
LEMMA RunKeepsFiles ==
    ASSUME FilesInv,
           \/ CheckIn \/ Decline \/ SwapOut \/ SwapHalf \/ WriteNew \/ WriteFails
           \/ CleanExit
    PROVE  FilesInv'
<1> USE DEF FilesInv, ImageInPlace, ImageFits, UpdaterProven, BackupIsProven,
            CopySurvives, files, history
<1>0. TypeOK'
  BY RunTyped DEF CheckIn, Decline, SwapOut, SwapHalf, WriteNew, WriteFails, CleanExit
<1>1. CASE CheckIn
  BY <1>0, <1>1 DEF CheckIn, TypeOK, Process
<1>2. CASE Decline
  BY <1>0, <1>2 DEF Decline, TypeOK, Process
<1>3. CASE SwapOut
  <2>1. /\ proc'.pc = "write" /\ proc'.build = proc.build /\ proc'.target = proc.target
        /\ proc'.image = IF proc.image = "exe" THEN "old" ELSE proc.image
    BY <1>3 DEF SwapOut, TypeOK, Process
  <2>2. proc.image \in {"exe", "bad"} /\ proc.build \in proven
    BY <1>3 DEF SwapOut, TypeOK, Process
  <2>3. proc.target \in Builds
    BY <1>3, <2>2, UpdateAssumption DEF SwapOut, Wanted, TypeOK, Process, None
  <2>4. /\ spoiled => spoiled'
        /\ proc.image = "bad" /\ exe \notin proven => spoiled'
    BY <1>3, Zenon DEF SwapOut, Spoils
  <2>5. CASE proc.image = "exe"
    BY <1>0, <1>3, <2>1, <2>2, <2>3, <2>4, <2>5 DEF SwapOut
  <2>6. CASE proc.image = "bad"
    BY <1>0, <1>3, <2>1, <2>2, <2>3, <2>4, <2>6 DEF SwapOut
  <2>7. QED
    BY <2>2, <2>5, <2>6
<1>4. CASE SwapHalf
  <2>1. spoiled => spoiled'
    BY <1>4, Zenon DEF SwapHalf
  <2>2. QED
    BY <1>0, <1>4, <2>1 DEF SwapHalf, TypeOK, Process
<1>5. CASE WriteNew
  BY <1>0, <1>5, NoProcTyped DEF WriteNew, TypeOK, Process
<1>6. CASE WriteFails
  <2>1. /\ proc'.pc = "run" /\ proc'.build = proc.build
        /\ proc.image \in {"old", "bad"} /\ exe = None
    BY <1>6 DEF WriteFails, TypeOK, Process
  <2>2. CASE exe' = old /\ old' = None
    <3>1. proc'.image = IF proc.image = "old" THEN "exe" ELSE proc.image
      BY <1>6, <2>2, NoProcTyped DEF WriteFails, TypeOK, Process, None, Torn
    <3>2. QED
      BY <1>0, <1>6, <2>1, <2>2, <3>1, NoProcTyped DEF WriteFails
  <2>3. CASE UNCHANGED old /\ proc'.image = proc.image
    BY <1>0, <1>6, <2>1, <2>3, NoProcTyped DEF WriteFails
  <2>4. QED
    BY <1>6, <2>2, <2>3 DEF WriteFails, TypeOK, Process
<1>7. CASE CleanExit
  BY <1>0, <1>7 DEF CleanExit, NoProc
<1>8. QED
  BY <1>1, <1>2, <1>3, <1>4, <1>5, <1>6, <1>7

LEMMA FilesInvariant ==
    ASSUME FilesInv, [Next]_vars
    PROVE  FilesInv'
<1>1. CASE UNCHANGED vars
  BY <1>1 DEF vars, files, history, FilesInv, TypeOK, ImageInPlace, ImageFits,
              UpdaterProven, BackupIsProven, CopySurvives
<1>2. CASE Next
  BY <1>2, EnvironmentKeepsFiles, StartKeepsFiles, RollbackKeepsFiles, RunKeepsFiles
     DEF Next
<1>3. QED
  BY <1>1, <1>2

\* At the start the installed binary lies at agent.exe and nothing runs.
LEMMA FilesInit == Init => FilesInv
<1>1. Init => TypeOK
  <2>1. 0 \in 0 .. MaxFaults
    BY UpdateAssumption
  <2>2. Init => spoiled \in BOOLEAN /\ cut \in BOOLEAN
    BY Zenon DEF Init
  <2>3. QED
    BY <2>1, <2>2, NoProcTyped, ZeroTyped DEF Init, TypeOK, File
<1>2. Init => ImageInPlace /\ ImageFits /\ UpdaterProven /\ BackupIsProven /\ CopySurvives
  BY DEF Init, NoProc, ImageInPlace, ImageFits, UpdaterProven, BackupIsProven, CopySurvives
<1>3. QED
  BY <1>1, <1>2 DEF FilesInv

\* Whatever order swaps, rollbacks, crashes and failed writes come in, agent.exe.old
\* is a binary that has checked in on this machine, and a copy of such a binary or of
\* the installed one is on the disk (selfupdate.go applyUpdateAt, rollback.go
\* RollbackToOld), for any number of builds.
THEOREM BackupsAreProven == Spec => []WayBackHolds
<1>1. FilesInv => WayBackHolds
  BY DEF FilesInv, WayBackHolds
<1>2. QED
  BY <1>1, FilesInit, FilesInvariant, PTL DEF Spec

-----------------------------------------------------------------------------
(* The quarantine.  It reaches the updater through the state file: what was found *)
(* looping last stands in the file, whatever trial the file tracks by now, and    *)
(* every process past its start has read it, or is the one that found it.         *)

QuarantineInv ==
    /\ faults = 0 /\ latest # None =>
         /\ st.quarantined = latest
         /\ proc.pc \notin {"none", "start"} => proc.quarantined = latest
    /\ proc.pc = "write" => proc.target # proc.quarantined

\* Without a failed write, the file holds what was saved.
LEMMA SaveFaultless ==
    ASSUME TypeOK, NEW s, Save(s), faults' = 0
    PROVE  st' = s /\ faults = 0
BY UpdateAssumption DEF Save, TypeOK

\* A start carries the quarantine from the file to the process; a crash loop sets both.
LEMMA StartQuarantines ==
    ASSUME FilesInv, QuarantineInv,
           \/ StartTrial \/ StartCommitted \/ StartAfterCleanExit
           \/ StartAfterCrash \/ StartRollback
    PROVE  QuarantineInv'
<1> USE DEF QuarantineInv, FilesInv
<1>0. TypeOK /\ Zero \in StateFile /\ proc.pc = "start"
  BY ZeroTyped DEF StartTrial, StartCommitted, StartAfterCleanExit, StartAfterCrash,
                   StartRollback, Counts
<1>1. CASE StartCommitted
  BY <1>0, <1>1 DEF StartCommitted, Proceed, history, TypeOK, Process
<1>2. CASE StartTrial
  <2> DEFINE trial == [Zero EXCEPT !.build = proc.build, !.first = now, !.count = 1,
                                   !.quarantined = st.quarantined]
  <2>1. faults' = 0 => faults = 0 /\ st'.quarantined = st.quarantined
    <3>1. trial.quarantined = st.quarantined
      BY <1>0 DEF StateFile
    <3>2. Save(trial)
      BY <1>2 DEF StartTrial
    <3>3. faults' = 0 => st' = trial /\ faults = 0
      BY <1>0, <3>2, SaveFaultless
    <3>4. QED
      BY <3>1, <3>3
  <2>2. QED
    BY <1>0, <1>2, <2>1 DEF StartTrial, Proceed, history, TypeOK, Process
<1>3. CASE StartAfterCleanExit
  <2>1. faults' = 0 => faults = 0 /\ st'.quarantined = st.quarantined
    BY <1>0, <1>3, SaveFaultless DEF StartAfterCleanExit, TypeOK, StateFile
  <2>2. QED
    BY <1>0, <1>3, <2>1 DEF StartAfterCleanExit, Proceed, history, TypeOK, Process
<1>4. CASE StartAfterCrash
  <2>1. faults' = 0 => faults = 0 /\ st'.quarantined = st.quarantined
    BY <1>0, <1>4, SaveFaultless DEF StartAfterCrash, TypeOK, StateFile
  <2>2. QED
    BY <1>0, <1>4, <2>1 DEF StartAfterCrash, Proceed, history, TypeOK, Process
<1>5. CASE StartRollback
  <2>1. faults' = 0 => st'.quarantined = proc.build
    BY <1>0, <1>5, SaveFaultless DEF StartRollback, StateFile
  <2>2. QED
    BY <1>0, <1>5, <2>1 DEF StartRollback, TypeOK, Process
<1>6. QED
  BY <1>1, <1>2, <1>3, <1>4, <1>5

\* A running agent keeps what is quarantined, in the file and in memory.
LEMMA RunQuarantines ==
    ASSUME FilesInv, QuarantineInv,
           \/ CheckIn \/ Decline \/ SwapOut \/ SwapHalf \/ WriteNew \/ WriteFails
           \/ CleanExit
    PROVE  QuarantineInv'
<1> USE DEF QuarantineInv, FilesInv
<1>0. TypeOK
  OBVIOUS
<1>1. CASE CheckIn
  <2>1. faults' = 0 => faults = 0 /\ st'.quarantined = st.quarantined
    BY <1>0, <1>1, SaveFaultless DEF CheckIn, TypeOK, StateFile
  <2>2. QED
    BY <1>0, <1>1, <2>1 DEF CheckIn, TypeOK, Process
<1>2. CASE CleanExit
  <2>1. faults' = 0 => faults = 0 /\ st'.quarantined = st.quarantined
    BY <1>0, <1>2, SaveFaultless DEF CleanExit, TypeOK, StateFile
  <2>2. QED
    BY <1>0, <1>2, <2>1 DEF CleanExit, NoProc, history
<1>3. CASE SwapOut
  BY <1>0, <1>3 DEF SwapOut, Wanted, TypeOK, Process
<1>4. CASE Decline \/ SwapHalf \/ WriteNew \/ WriteFails
  <2>1. /\ UNCHANGED <<st, latest, faults>> /\ proc.pc \in {"update", "write"}
        /\ proc'.pc # "write" /\ proc'.quarantined = proc.quarantined
    BY <1>0, <1>4 DEF Decline, SwapHalf, WriteNew, WriteFails, history, TypeOK, Process
  <2>2. QED
    BY <2>1
<1>5. QED
  BY <1>1, <1>2, <1>3, <1>4

LEMMA QuarantineInvariant ==
    ASSUME FilesInv, QuarantineInv, [Next]_vars
    PROVE  QuarantineInv'
<1> USE DEF QuarantineInv, FilesInv
<1>1. CASE UNCHANGED <<st, proc, latest, faults>>
  BY <1>1
<1>2. CASE PassTime \/ (\E b \in Builds : Publish(b)) \/ UNCHANGED vars
  BY <1>1, <1>2 DEF PassTime, Publish, vars, history
<1>3. CASE Crash \/ (\E part \in {None, Torn} : CrashWriting(part))
  BY <1>3 DEF Crash, CrashWriting, NoProc, history
<1>4. CASE Launch
  BY <1>4 DEF Launch, NoProc, history
<1>5. CASE RollbackRefused \/ SetAside \/ Restore \/ RestoreFails
  <2>1. /\ UNCHANGED <<st, latest, faults>> /\ proc.pc \in {"rollback", "restore"}
        /\ proc'.pc # "write" /\ proc'.quarantined = proc.quarantined
    BY <1>5 DEF RollbackRefused, SetAside, Restore, RestoreFails, history, TypeOK, Process
  <2>2. QED
    BY <2>1
<1>6. CASE \E started \in BOOLEAN : Relaunch(started)
  BY <1>6 DEF Relaunch, NoProc, history, TypeOK, Process
<1>7. QED
  BY <1>2, <1>3, <1>4, <1>5, <1>6, StartQuarantines, RunQuarantines DEF Next

\* As long as the state file could be written, no update writes the build that was
\* found crash-looping last (rollback.go EvaluateStartup, selfupdate.go prepare).
THEOREM QuarantineHolds == Spec => []LatestStaysOut
<1>1. Init => QuarantineInv
  BY DEF Init, QuarantineInv, NoProc
<1>2. FilesInv /\ QuarantineInv => LatestStaysOut
  BY NoProcTyped DEF FilesInv, UpdaterProven, QuarantineInv, LatestStaysOut
<1>3. QED
  BY <1>1, <1>2, FilesInit, FilesInvariant, QuarantineInvariant, PTL DEF Spec
=============================================================================
