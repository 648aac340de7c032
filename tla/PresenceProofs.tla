---------------------------- MODULE PresenceProofs ----------------------------
(***************************************************************************)
(* Theorems about Presence, for every choice of its durations and bounds.  *)
(***************************************************************************)
EXTENDS Presence, TLAPS

(* The watchdog.  While the loop runs, the cycle's age and the wait for the next *)
(* tick together stay within the threshold and one interval: a tick that skips   *)
(* the cycle has seen an age of at most StallAfter, and what passes after it is  *)
(* taken from the wait.  No time passes while a process exits.                   *)

LoopType ==
    /\ lock \in {"free", "boot", "run", "exiting"}
    /\ age \in Nat /\ due \in Nat

WatchInv ==
    /\ LoopType
    /\ lock \in {"free", "boot"} => phase = "idle" /\ age = 0
    /\ lock = "run" => age + due <= StallAfter + Interval
    /\ age <= StallAfter + Interval

\* The steps of processes: a cycle begins or ends with its process.
LEMMA ProcessStepsWatched ==
    ASSUME WatchInv,
           Fire \/ TakeLock \/ GiveUp \/ Boot \/ Die \/ Exit
    PROVE  WatchInv'
<1> USE LoopAssumption DEF WatchInv, LoopType, cycle
<1>1. CASE Fire \/ GiveUp
  BY <1>1 DEF Fire, GiveUp
<1>2. CASE TakeLock
  BY <1>2 DEF TakeLock
<1>3. CASE Boot
  BY <1>3 DEF Boot, StartCycle
<1>4. CASE Die \/ Exit
  BY <1>4 DEF Die, Exit, Gone, CycleEnds
<1>5. QED
  BY <1>1, <1>2, <1>3, <1>4

\* The loop: a skipped tick has seen a cycle that is not overdue.
LEMMA TicksWatched ==
    ASSUME WatchInv, Tick
    PROVE  WatchInv'
<1> USE LoopAssumption DEF WatchInv, LoopType, cycle, process, TickDue, Running
<1>1. CASE TickStart
  BY <1>1 DEF TickStart, StartCycle
<1>2. CASE TickSkip
  <2>1. StallAfter \in Nat /\ Interval \in Nat
    OBVIOUS
  <2>2. ASSUME age > StallAfter PROVE StallSeen = {TRUE}
    <3>1. ~(age < StallAfter)
      BY <2>1, <2>2
    <3>2. QED
      BY <2>2, <3>1, Zenon DEF StallSeen
  <2>3. ~(age > StallAfter)
    BY <1>2, <2>2 DEF TickSkip
  <2>4. age <= StallAfter
    BY <2>1, <2>3
  <2>5. QED
    BY <1>2, <2>1, <2>4 DEF TickSkip
<1>3. CASE TickStall
  BY <1>3 DEF TickStall, Stalled, Relaunch
<1>4. CASE TickStallFatal
  BY <1>4 DEF TickStallFatal, Gone, CycleEnds
<1>5. QED
  BY <1>1, <1>2, <1>3, <1>4 DEF Tick

\* The cycle: no step of it moves its age or the ticker, unless it ends.
LEMMA CycleStepsWatched ==
    ASSUME WatchInv,
           \/ SampleDone \/ CycleFails \/ Uploaded \/ UploadRefused \/ AckDone
           \/ UpdateBegins \/ UpdateFails \/ UpdateApplied \/ Hang
    PROVE  WatchInv'
<1> USE LoopAssumption DEF WatchInv, LoopType, process, InPhase, Running, EnterPhase, CycleEnds
<1>1. CASE SampleDone \/ Uploaded \/ UpdateBegins
  BY <1>1 DEF SampleDone, Uploaded, UpdateBegins
<1>2. CASE CycleFails
  BY <1>2 DEF CycleFails
<1>3. CASE UploadRefused \/ AckDone \/ UpdateFails
  BY <1>3 DEF UploadRefused, AckDone, UpdateFails
<1>4. CASE UpdateApplied
  BY <1>4 DEF UpdateApplied, Relaunch
<1>5. CASE Hang
  BY <1>5 DEF Hang
<1>6. QED
  BY <1>1, <1>2, <1>3, <1>4, <1>5

LEMMA TimeWatched ==
    ASSUME WatchInv, LoopTime
    PROVE  WatchInv'
BY LoopAssumption DEF WatchInv, LoopType, LoopTime, LoopWaits, process

\* Any step of the composition, or a stutter.
LEMMA WatchInvariant ==
    ASSUME WatchInv, [Next]_vars
    PROVE  WatchInv'
<1>1. CASE UNCHANGED vars
  BY <1>1 DEF WatchInv, LoopType, vars, agentVars
<1>2. CASE UNCHANGED <<process, cycle, due>>
  BY <1>2 DEF WatchInv, LoopType, process, cycle
<1>3. CASE Upload \/ AnswerLost \/ Refused
  BY <1>3, CycleStepsWatched DEF Upload, AnswerLost, Refused
<1>4. CASE AgentStep
  BY <1>4, ProcessStepsWatched, TicksWatched, CycleStepsWatched DEF AgentStep
<1>5. CASE Check \/ ServerTrouble \/ Restart
  BY <1>5, <1>2 DEF Check, ServerTrouble, Restart, agentVars, process, cycle
<1>6. CASE PassTime
  BY <1>6, TimeWatched DEF PassTime
<1>7. QED
  BY <1>1, <1>3, <1>4, <1>5, <1>6 DEF Next

\* No sample cycle outlasts the stall threshold by more than one tick (core.go Run),
\* whatever the threshold, the interval and the time-outs are.
THEOREM WatchdogInTime == Spec => []StuckIsReplaced
<1>1. Init => WatchInv
  BY LoopAssumption DEF Init, LoopInit, WatchInv, LoopType
<1>2. WatchInv /\ [Next]_vars => WatchInv'
  BY WatchInvariant
<1>3. WatchInv => StuckIsReplaced
  BY DEF WatchInv, StuckIsReplaced
<1>4. QED
  BY <1>1, <1>2, <1>3, PTL DEF Spec

-----------------------------------------------------------------------------
(* The alerts.  While the device is on the server's watch, its silence and the   *)
(* wait for the next check add up to what is due: a check resets the wait only   *)
(* after it has seen the silence.                                                *)

ServerType ==
    /\ up \in BOOLEAN /\ seeded \in BOOLEAN /\ disturbed \in BOOLEAN
    /\ status \in {"active", "revoked", "deleted"}
    /\ alert \in {"untracked", "seeded", "alerted"}
    /\ snap \in {NoSnap, "offline", "online", "skipped"}
    /\ silence \in Int /\ Never <= silence /\ silence <= SilenceCap
    /\ checkDue \in Nat /\ checkDue <= CheckEvery

Watched == up /\ ~disturbed /\ silence # Never

\* A snapshot is of this half minute, unless the device has reported since.
SnapFresh ==
    Watched /\ snap # NoSnap /\ silence # 0
        => snap = IF silence > OfflineAfter THEN "offline" ELSE "online"

\* Unseeded, or seeded as offline before the report: the next check comes while the
\* device still counts as online.
SeedingInTime ==
    Watched /\ (~seeded \/ alert = "seeded") => silence + checkDue <= OfflineAfter

AlertInTime ==
    Watched /\ alert # "alerted" => silence + checkDue <= OfflineAfter + CheckEvery

AlertInv ==
    /\ ServerType
    /\ Watched => status = "active"
    /\ ~seeded => alert = "untracked"
    /\ ~up => alert = "untracked" /\ ~seeded /\ snap = NoSnap /\ checkDue = 0
    /\ SnapFresh
    /\ SeedingInTime
    /\ AlertInTime

LEMMA ReportWatched ==
    ASSUME AlertInv, Report
    PROVE  AlertInv'
<1> USE DEF AlertInv, Watched
<1>1. OfflineAfter \in Nat \ {0} /\ CheckEvery \in Nat \ {0} /\ CheckEvery <= OfflineAfter
  BY AlertAssumption, ChecksAreFrequent
<1>2. /\ up /\ up' = up /\ status = "active" /\ status' = status /\ alert' = alert
      /\ seeded' = seeded /\ snap' = snap /\ checkDue' = checkDue
  BY DEF Report, checker
<1>3. silence' = 0 /\ disturbed' \in BOOLEAN
  BY Zenon DEF Report
<1>4. ServerType'
  BY <1>1, <1>2, <1>3 DEF ServerType, Never, SilenceCap
<1>5. SnapFresh' /\ SeedingInTime' /\ AlertInTime'
  <2>1. checkDue \in Nat /\ checkDue <= CheckEvery
    BY DEF ServerType
  <2>2. silence' + checkDue' <= OfflineAfter /\ silence' + checkDue' <= OfflineAfter + CheckEvery
    BY <1>1, <1>2, <1>3, <2>1
  <2>3. QED
    BY <1>3, <2>2, Zenon DEF SnapFresh, SeedingInTime, AlertInTime
<1>6. QED
  BY <1>2, <1>4, <1>5

LEMMA ReadWatched ==
    ASSUME AlertInv, CheckRead \/ CheckFails
    PROVE  AlertInv'
<1> USE AlertAssumption, ChecksAreFrequent
    DEF AlertInv, ServerType, Watched, SnapFresh, SeedingInTime, AlertInTime,
        Never, SilenceCap, NoSnap
<1>1. CASE CheckRead
  BY <1>1 DEF CheckRead
<1>2. CASE CheckFails
  BY <1>2 DEF CheckFails
<1>3. QED
  BY <1>1, <1>2

\* The update of the map, by what the snapshot says.
LEMMA ApplyWatched ==
    ASSUME AlertInv, CheckApply
    PROVE  AlertInv'
<1> USE AlertAssumption, ChecksAreFrequent
    DEF AlertInv, ServerType, Watched, SnapFresh, SeedingInTime, AlertInTime,
        Never, SilenceCap, NoSnap
<1>1. CASE snap = "skipped"
  BY <1>1 DEF CheckApply, NextAlert
<1>2. CASE snap = "offline"
  BY <1>2 DEF CheckApply, NextAlert, Announces, Recovers
<1>3. CASE snap = "online"
  BY <1>3 DEF CheckApply, NextAlert, Announces, Recovers
<1>4. QED
  BY <1>1, <1>2, <1>3 DEF CheckApply

LEMMA ServerStepsWatched ==
    ASSUME AlertInv, ServerCrash \/ ServerStart \/ Command
    PROVE  AlertInv'
<1> USE AlertAssumption, ChecksAreFrequent
    DEF AlertInv, ServerType, Watched, SnapFresh, SeedingInTime, AlertInTime,
        checker, Never, SilenceCap, NoSnap
<1>1. CASE ServerCrash
  <2>1. ~up' /\ ~seeded' /\ alert' = "untracked" /\ snap' = NoSnap /\ checkDue' = 0
    BY <1>1, Zenon DEF ServerCrash
  <2>2. ServerType'
    <3>1. up' \in BOOLEAN /\ seeded' \in BOOLEAN /\ disturbed' \in BOOLEAN
      BY <1>1, Zenon DEF ServerCrash
    <3>2. QED
      BY <1>1, <3>1 DEF ServerCrash
  <2>3. QED
    BY <2>1, <2>2
<1>2. CASE ServerStart
  BY <1>2 DEF ServerStart
<1>3. CASE Command
  BY <1>3 DEF Command
<1>4. QED
  BY <1>1, <1>2, <1>3

LEMMA CheckTimeWatched ==
    ASSUME AlertInv, CheckTime
    PROVE  AlertInv'
<1> USE DEF AlertInv, Watched, NoSnap
<1>1. OfflineAfter \in Nat \ {0} /\ CheckEvery \in Nat \ {0} /\ CheckEvery <= OfflineAfter
  BY AlertAssumption, ChecksAreFrequent
<1>2. /\ up' = up /\ status' = status /\ alert' = alert /\ seeded' = seeded
      /\ snap' = snap /\ disturbed' = disturbed
  BY DEF CheckTime
<1>3. CASE silence \in {Never, SilenceCap}
  <2>1. silence' = silence
    BY <1>3 DEF CheckTime
  <2>2. CASE up
    <3>1. checkDue > 0 /\ checkDue' = checkDue - 1 /\ snap = NoSnap
      BY <2>2 DEF CheckTime, CheckWaits
    <3>2. ServerType'
      BY <1>1, <1>2, <2>1, <3>1 DEF ServerType, Never, SilenceCap
    <3>3. SnapFresh' /\ SeedingInTime' /\ AlertInTime'
      BY <1>1, <1>2, <2>1, <3>1
         DEF ServerType, SnapFresh, SeedingInTime, AlertInTime, Never
    <3>4. QED
      BY <1>2, <2>1, <2>2, <3>2, <3>3
  <2>3. CASE ~up
    <3>1. checkDue' = checkDue
      BY <2>3 DEF CheckTime
    <3>2. ServerType'
      BY <1>1, <1>2, <2>1, <3>1 DEF ServerType, Never, SilenceCap
    <3>3. QED
      BY <1>2, <2>1, <2>3, <3>1, <3>2 DEF SnapFresh, SeedingInTime, AlertInTime
  <2>4. QED
    BY <2>2, <2>3
<1>4. CASE silence \notin {Never, SilenceCap}
  <2>1. silence' = silence + 1 /\ silence \in Int /\ silence >= 0 /\ silence < SilenceCap
    BY <1>1, <1>4 DEF CheckTime, ServerType, Never, SilenceCap
  <2>2. CASE up
    <3>1. checkDue > 0 /\ checkDue' = checkDue - 1 /\ snap = NoSnap
      BY <2>2 DEF CheckTime, CheckWaits
    <3>2. ServerType'
      BY <1>1, <1>2, <2>1, <3>1 DEF ServerType, Never, SilenceCap
    <3>3. SnapFresh' /\ SeedingInTime' /\ AlertInTime'
      BY <1>1, <1>2, <2>1, <3>1
         DEF ServerType, SnapFresh, SeedingInTime, AlertInTime, Never
    <3>4. QED
      BY <1>2, <2>1, <2>2, <3>2, <3>3 DEF Never
  <2>3. CASE ~up
    <3>1. checkDue' = checkDue
      BY <2>3 DEF CheckTime
    <3>2. ServerType'
      BY <1>1, <1>2, <2>1, <3>1 DEF ServerType, Never, SilenceCap
    <3>3. QED
      BY <1>2, <2>1, <2>3, <3>1, <3>2 DEF SnapFresh, SeedingInTime, AlertInTime
  <2>4. QED
    BY <2>2, <2>3
<1>5. QED
  BY <1>3, <1>4

LEMMA AlertInvariant ==
    ASSUME AlertInv, [Next]_vars
    PROVE  AlertInv'
<1>1. CASE UNCHANGED serverVars
  BY <1>1 DEF AlertInv, ServerType, Watched, SnapFresh, SeedingInTime, AlertInTime,
              serverVars
<1>2. CASE Upload \/ AnswerLost
  BY <1>2, ReportWatched DEF Upload, AnswerLost
<1>3. CASE Refused \/ AgentStep \/ UNCHANGED vars
  BY <1>1, <1>3 DEF Refused, AgentStep, vars, serverVars
<1>4. CASE Check \/ ServerTrouble \/ Restart
  BY <1>4, ReadWatched, ApplyWatched, ServerStepsWatched DEF Check, ServerTrouble, Restart
<1>5. CASE PassTime
  BY <1>5, CheckTimeWatched DEF PassTime
<1>6. QED
  BY <1>2, <1>3, <1>4, <1>5 DEF Next

LEMMA AlertInitially == Init => AlertInv
<1> SUFFICES ASSUME Init PROVE AlertInv
  OBVIOUS
<1>1. OfflineAfter \in Nat /\ CheckEvery \in Nat
  BY AlertAssumption
<1>2. up \in BOOLEAN /\ seeded \in BOOLEAN /\ disturbed \in BOOLEAN /\ up /\ ~seeded
  BY Zenon DEF Init, AlertsInit, Unalerted
<1>3. /\ silence = Never /\ alert = "untracked" /\ snap = NoSnap /\ checkDue = 0
    /\ status = "active"
  BY DEF Init, AlertsInit, Unalerted
<1>4. ServerType
  BY <1>1, <1>2, <1>3 DEF ServerType, Never, SilenceCap
<1>5. QED
  BY <1>2, <1>3, <1>4 DEF AlertInv, Watched, SnapFresh, SeedingInTime, AlertInTime

\* A device silent for longer than the threshold and one check has been announced
\* offline (alerts.go checkOffline), whatever the threshold and the interval are, as
\* long as a check comes before the threshold.
THEOREM OutagesAnnounced == Spec => []OutageAnnounced
<1>1. Init => AlertInv
  BY AlertInitially
<1>2. AlertInv /\ [Next]_vars => AlertInv'
  BY AlertInvariant
<1>3. AlertInv => OutageAnnounced
  BY AlertAssumption
     DEF AlertInv, ServerType, Watched, AlertInTime, OutageAnnounced, SilenceCap, Never
<1>4. QED
  BY <1>1, <1>2, <1>3, PTL DEF Spec

-----------------------------------------------------------------------------
(* What the household is told.  A device on record as announced is one of which    *)
(* "offline" was the last note; and a silence that has been announced is looked at *)
(* as one: it is over the threshold, so while the device is active no check finds  *)
(* it online, and none but the first after a start finds it untracked.             *)

NoteInv ==
    /\ told \in BOOLEAN
    /\ HeardInTurn
    /\ alert = "alerted" <=> heard[2] = "offline"
    /\ told => /\ silence > OfflineAfter
               /\ snap \in {NoSnap, IF status = "active" THEN "offline" ELSE "skipped"}
               /\ status = "active" /\ seeded => alert # "untracked"

\* The notes of a check.
LEMMA ChecksAlternate ==
    ASSUME NoteInv, AlertInv, CheckApply
    PROVE  NoteInv' /\ ToldOnce
<1>1. /\ alert' = NextAlert
      /\ heard' = CASE Announces -> Then("offline")
                    [] Recovers /\ alert = "alerted" -> Then("online")
                    [] snap = "skipped" /\ alert = "alerted" -> Nothing
                    [] OTHER -> heard
      /\ told' = (told \/ (Announces /\ silence > OfflineAfter))
      /\ seeded' = TRUE /\ snap' = NoSnap /\ snap # NoSnap
      /\ UNCHANGED <<status, silence>>
  BY DEF CheckApply
<1>2. /\ told \in BOOLEAN /\ told' \in BOOLEAN
      /\ alert \in {"untracked", "seeded", "alerted"}
      /\ snap \in {"offline", "online", "skipped"}
      /\ ~seeded => alert = "untracked"
  BY <1>1 DEF NoteInv, AlertInv, ServerType, Announces, NoSnap
<1>3. CASE Announces
  <2>1. ~Recovers /\ seeded /\ snap = "offline" /\ alert = "untracked"
    BY <1>3 DEF Announces, Recovers
  <2>2. alert' = "alerted" /\ heard' = <<heard[2], "offline">>
    BY <1>1, <1>3, <2>1 DEF NextAlert, Then
  <2>3. heard \in {Nothing, <<"offline", "online">>}
    <3>1. heard[2] # "offline"
      BY <2>1 DEF NoteInv
    <3>2. QED
      BY <3>1 DEF NoteInv, HeardInTurn
  <2>4. heard' \in {<<"nothing", "offline">>, <<"online", "offline">>}
    BY <2>2, <2>3 DEF Nothing
  <2>5. ~told
    BY <2>1 DEF NoteInv, NoSnap
  <2>6. told' => silence' > OfflineAfter
    BY <1>1, <2>5
  <2>7. QED
    BY <1>1, <1>2, <2>2, <2>4, <2>5, <2>6 DEF NoteInv, HeardInTurn, ToldOnce
<1>4. CASE ~Announces /\ Recovers
  <2>1. alert' = "untracked" /\ snap = "online" /\ told' = told
    BY <1>1, <1>2, <1>4 DEF NextAlert, Recovers
  <2>2. ~told
    BY <2>1 DEF NoteInv, NoSnap
  <2>3. HeardInTurn' /\ heard'[2] # "offline"
    <3>1. CASE alert = "alerted"
      <4>1. heard' = <<heard[2], "online">>
        BY <1>1, <1>4, <2>1, <3>1 DEF Then
      <4>2. heard[2] = "offline"
        BY <3>1 DEF NoteInv
      <4>3. QED
        BY <4>1, <4>2 DEF HeardInTurn
    <3>2. CASE alert # "alerted"
      <4>1. heard' = heard
        BY <1>1, <1>4, <3>2
      <4>2. QED
        BY <3>2, <4>1 DEF NoteInv, HeardInTurn
    <3>3. QED
      BY <3>1, <3>2
  <2>4. ~told' /\ alert' # "alerted"
    BY <2>1, <2>2
  <2>5. alert' = "alerted" <=> heard'[2] = "offline"
    BY <2>3, <2>4
  <2>6. NoteInv'
    BY <1>2, <2>3, <2>4, <2>5, Zenon DEF NoteInv
  <2>7. QED
    BY <2>4, <2>6 DEF ToldOnce
<1>5. CASE ~Announces /\ ~Recovers
  <2>1. told' = told
    BY <1>1, <1>2, <1>5
  <2>2. CASE snap = "skipped"
    <3>1. alert' = "untracked"
      BY <1>1, <1>5, <2>2 DEF NextAlert
    <3>2. heard' = IF alert = "alerted" THEN Nothing ELSE heard
      <4>1. CASE alert = "alerted"
        BY <1>1, <1>5, <2>2, <4>1
      <4>2. CASE alert # "alerted"
        BY <1>1, <1>5, <4>2
      <4>3. QED
        BY <4>1, <4>2
    <3>3. HeardInTurn' /\ heard'[2] # "offline"
      BY <3>2 DEF NoteInv, HeardInTurn, Nothing
    <3>4. told => status # "active"
      BY <2>2 DEF NoteInv, NoSnap
    <3>5. told' => silence' > OfflineAfter /\ snap' = NoSnap /\ status' # "active"
      BY <1>1, <2>1, <3>4 DEF NoteInv
    <3>6. alert' # "alerted"
      BY <3>1
    <3>7. alert' = "alerted" <=> heard'[2] = "offline"
      BY <3>3, <3>6
    <3>8. told' => snap' \in {NoSnap, IF status' = "active" THEN "offline" ELSE "skipped"}
      BY <3>5
    <3>9. NoteInv'
      BY <1>2, <3>3, <3>5, <3>7, <3>8, Zenon DEF NoteInv
    <3>10. QED
      BY <3>6, <3>9 DEF ToldOnce
  <2>3. CASE snap # "skipped"
    <3>1. alert' = IF ~seeded /\ snap = "offline" THEN "seeded" ELSE alert
      BY <1>1, <1>5, <2>3 DEF NextAlert
    <3>2. heard' = heard
      BY <1>1, <1>5, <2>3
    <3>3. alert' = "alerted" <=> alert = "alerted"
      BY <1>2, <3>1
    <3>4. told /\ status = "active" => alert' # "untracked"
      BY <1>2, <2>3, <3>1 DEF NoteInv, NoSnap
    <3>5. QED
      BY <1>1, <1>2, <2>1, <3>2, <3>3, <3>4 DEF NoteInv, HeardInTurn, ToldOnce
  <2>4. QED
    BY <2>2, <2>3
<1>6. QED
  BY <1>3, <1>4, <1>5

LEMMA NotesInvariant ==
    ASSUME NoteInv, AlertInv, [Next]_vars
    PROVE  NoteInv' /\ [ToldOnce]_vars
<1> USE DEF NoteInv, HeardInTurn, ToldOnce
<1>1. OfflineAfter \in Nat /\ silence \in Int
  BY AlertAssumption DEF AlertInv, ServerType
<1>2. CASE UNCHANGED <<status, silence, alert, seeded, snap, heard, told>>
  BY <1>2
<1>3. CASE UNCHANGED vars
  BY <1>2, <1>3 DEF vars, serverVars
<1>4. CASE Refused \/ AgentStep \/ Restart
  BY <1>2, <1>4 DEF Refused, AgentStep, Restart, ServerStart, checker, serverVars
<1>5. CASE Upload \/ AnswerLost
  <2>1. told' = FALSE /\ UNCHANGED <<alert, heard>>
    BY <1>5 DEF Upload, AnswerLost, Report, checker
  <2>2. QED
    BY <2>1
<1>6. CASE Check
  <2>1. CASE CheckRead
    <3>1. snap' = IF status = "active" /\ silence # Never
                  THEN (IF silence > OfflineAfter THEN "offline" ELSE "online")
                  ELSE "skipped"
      BY <2>1 DEF CheckRead
    <3>2. UNCHANGED <<status, silence, alert, seeded, heard, told>>
      BY <2>1 DEF CheckRead
    <3>3. silence > OfflineAfter => silence # Never
      BY <1>1 DEF Never
    <3>4. QED
      BY <3>1, <3>2, <3>3
  <2>2. QED
    BY <1>6, <2>1, ChecksAlternate DEF Check
<1>7. CASE ServerTrouble
  <2>1. CASE ServerCrash
    <3>1. /\ alert' = "untracked" /\ heard' = Nothing /\ snap' = NoSnap
          /\ UNCHANGED <<status, silence, told>>
      BY <2>1 DEF ServerCrash
    <3>2. ~seeded'
      BY <2>1, Zenon DEF ServerCrash
    <3>3. QED
      BY <3>1, <3>2 DEF Nothing
  <2>2. CASE Command
    <3>1. ~told' /\ told' \in BOOLEAN
      BY <2>2, Zenon DEF Command
    <3>2. UNCHANGED <<alert, heard>>
      BY <2>2 DEF Command, checker
    <3>3. QED
      BY <3>1, <3>2
  <2>3. CASE CheckFails
    BY <1>2, <2>3 DEF CheckFails
  <2>4. QED
    BY <1>7, <2>1, <2>2, <2>3 DEF ServerTrouble
<1>8. CASE PassTime
  <2>1. UNCHANGED <<status, alert, seeded, snap, heard, told>> /\ silence' >= silence
    BY <1>1, <1>8 DEF PassTime, CheckTime
  <2>2. silence' \in Int
    BY <1>1, <1>8 DEF PassTime, CheckTime
  <2>3. silence > OfflineAfter => silence' > OfflineAfter
    BY <1>1, <2>1, <2>2
  <2>4. QED
    BY <2>1, <2>3
<1>9. QED
  BY <1>3, <1>4, <1>5, <1>6, <1>7, <1>8 DEF Next

LEMMA NotesInitially == Init => NoteInv
<1> SUFFICES ASSUME Init PROVE NoteInv
  OBVIOUS
<1>1. heard = Nothing /\ alert = "untracked" /\ ~told /\ told \in BOOLEAN
  BY Zenon DEF Init, AlertsInit, Unalerted
<1>2. QED
  BY <1>1 DEF NoteInv, HeardInTurn, Nothing

\* Within one life of the server "offline" and "back online" come in turn, and through
\* all its lives no silence is announced twice, whatever the threshold and the interval
\* of the checks are, and however stale their snapshots (alerts.go checkOffline).
THEOREM NotesAlwaysAlternate == Spec => NotesAlternate
<1>1. Init => NoteInv /\ AlertInv
  BY NotesInitially, AlertInitially
<1>2. NoteInv /\ AlertInv /\ [Next]_vars => (NoteInv /\ AlertInv)' /\ [ToldOnce]_vars
  BY NotesInvariant, AlertInvariant
<1>3. NoteInv' /\ [ToldOnce]_vars => [HeardInTurn' /\ ToldOnce]_vars
  BY DEF NoteInv
<1>4. QED
  BY <1>1, <1>2, <1>3, PTL DEF Spec, NotesAlternate

-----------------------------------------------------------------------------
(* Types, and with them the number of processes.  A process starts at most two    *)
(* others, one as the watchdog and one after an update, and none is started while *)
(* more than two wait: time, and with it the ticker, waits for those that do.     *)

TimeLeft == UNION {0 .. time : time \in {SampleTime, UploadTimeout, DownloadTimeout}}

CycleType ==
    /\ phase \in {"idle", "sample", "upload", "ack", "update", "applied"}
    /\ hung \in BOOLEAN
    /\ due \in 0 .. Interval
    /\ left \in TimeLeft
    /\ updates \in 0 .. MaxUpdates
    /\ hangs \in Nat /\ troubles \in Nat /\ hangs + troubles <= MaxTroubles

ProbesInv ==
    /\ lock \in {"free", "boot", "run", "exiting"}
    /\ probes \in 0 .. 3
    /\ lock \in {"boot", "run"} => probes <= 2
    /\ lock = "run" /\ due = 0 => probes <= 1
    /\ lock = "exiting" /\ (phase # "applied" \/ due = 0) => probes <= 2
    /\ lock = "exiting" /\ due = 0 => phase = "applied"

LEMMA Bounds ==
    /\ Interval \in Nat \ {0} /\ SampleTime \in Nat /\ UploadTimeout \in Nat
    /\ DownloadTimeout \in Nat /\ MaxTroubles \in Nat /\ MaxUpdates \in Nat
BY LoopAssumption

LEMMA TimesAreLeft ==
    /\ TimeLeft \subseteq Nat /\ 0 \in TimeLeft
    /\ SampleTime \in TimeLeft /\ UploadTimeout \in TimeLeft /\ DownloadTimeout \in TimeLeft
    /\ \A t \in TimeLeft : t > 0 => t - 1 \in TimeLeft
<1>1. SampleTime \in Nat /\ UploadTimeout \in Nat /\ DownloadTimeout \in Nat
  BY Bounds
<1>2. \A t : t \in TimeLeft <=> t \in 0 .. SampleTime \/ t \in 0 .. UploadTimeout
                                  \/ t \in 0 .. DownloadTimeout
  BY DEF TimeLeft
<1>3. QED
  BY <1>1, <1>2

LEMMA TroublesCounted ==
    ASSUME CycleType, Trouble \/ NoTrouble
    PROVE  hangs' \in Nat /\ troubles' \in Nat /\ hangs' + troubles' <= MaxTroubles
BY LoopAssumption DEF CycleType, Trouble, NoTrouble

\* Processes come and go.
LEMMA ProcessStepsTyped ==
    ASSUME CycleType, ProbesInv,
           Fire \/ TakeLock \/ GiveUp \/ Boot \/ Die \/ Exit
    PROVE  CycleType' /\ ProbesInv'
<1> USE Bounds DEF CycleType, ProbesInv
<1>1. hangs' \in Nat /\ troubles' \in Nat /\ hangs' + troubles' <= MaxTroubles
  BY TroublesCounted DEF Fire, TakeLock, GiveUp, Boot, Die, Exit
<1>2. CASE Fire \/ TakeLock \/ GiveUp
  <2>1. UNCHANGED <<updates, phase, hung, left, due>>
    BY <1>2 DEF Fire, TakeLock, GiveUp, cycle
  <2>2. ProbesInv'
    BY <1>2, <2>1 DEF Fire, TakeLock, GiveUp
  <2>3. QED
    BY <1>1, <2>1, <2>2
<1>3. CASE Boot
  <2>1. /\ UNCHANGED <<probes, updates>> /\ due' = Interval /\ lock' = "run"
        /\ lock = "boot" /\ phase' = "sample" /\ left' = SampleTime /\ hung' = FALSE
    BY <1>3 DEF Boot, StartCycle
  <2>2. ProbesInv'
    BY <2>1
  <2>3. left' \in TimeLeft /\ hung' \in BOOLEAN
    BY <2>1, TimesAreLeft
  <2>4. due' \in 0 .. Interval /\ updates' \in 0 .. MaxUpdates
    BY <2>1
  <2>5. QED
    BY <1>1, <2>1, <2>2, <2>3, <2>4
<1>4. CASE Die \/ Exit
  <2>1. /\ UNCHANGED <<probes, updates>> /\ due' = 0 /\ lock' = "free"
        /\ phase' = "idle" /\ left' = 0 /\ hung' = FALSE
    BY <1>4 DEF Die, Exit, Gone, CycleEnds
  <2>2. ProbesInv'
    BY <2>1
  <2>3. left' \in TimeLeft /\ hung' \in BOOLEAN
    BY <2>1, TimesAreLeft
  <2>4. due' \in 0 .. Interval /\ updates' \in 0 .. MaxUpdates
    BY <2>1
  <2>5. QED
    BY <1>1, <2>1, <2>2, <2>3, <2>4
<1>5. QED
  BY <1>2, <1>3, <1>4

\* The ticks.
LEMMA TicksTyped ==
    ASSUME CycleType, ProbesInv, Tick
    PROVE  CycleType' /\ ProbesInv'
<1> USE Bounds DEF CycleType, ProbesInv, process
<1>1. hangs' \in Nat /\ troubles' \in Nat /\ hangs' + troubles' <= MaxTroubles
  BY TroublesCounted DEF Tick, TickStart, TickSkip, TickStall, TickStallFatal
<1>2. due = 0 /\ lock \in {"run", "exiting"}
  BY DEF Tick, TickStart, TickSkip, TickStall, TickStallFatal, Stalled, TickDue, Running
<1>3. CASE TickStart
  <2>1. /\ UNCHANGED <<lock, probes, updates>> /\ due' = Interval
        /\ phase = "idle" /\ phase' = "sample" /\ left' = SampleTime /\ hung' = FALSE
    BY <1>3 DEF TickStart, StartCycle
  <2>2. ProbesInv'
    BY <1>2, <2>1
  <2>3. left' \in TimeLeft /\ hung' \in BOOLEAN
    BY <1>2, <2>1, TimesAreLeft
  <2>4. due' \in 0 .. Interval /\ updates' \in 0 .. MaxUpdates
    BY <1>2, <2>1
  <2>5. QED
    BY <1>1, <1>2, <2>1, <2>2, <2>3, <2>4
<1>4. CASE TickSkip
  <2>1. UNCHANGED <<lock, probes, updates, phase, hung, left>> /\ due' = Interval
    BY <1>4 DEF TickSkip, cycle
  <2>2. ProbesInv'
    BY <1>2, <2>1
  <2>3. left' \in TimeLeft /\ hung' \in BOOLEAN
    BY <1>2, <2>1, TimesAreLeft
  <2>4. due' \in 0 .. Interval /\ updates' \in 0 .. MaxUpdates
    BY <1>2, <2>1
  <2>5. QED
    BY <1>1, <1>2, <2>1, <2>2, <2>3, <2>4
<1>5. CASE TickStall
  <2>1. /\ UNCHANGED <<updates, phase, hung, left>> /\ due' = Interval
        /\ lock' = "exiting" /\ probes' = probes + 1
    BY <1>5 DEF TickStall, Relaunch, cycle
  <2>2. probes <= 2 /\ (phase # "applied" => probes <= 1)
    BY <1>2
  <2>3. ProbesInv'
    BY <2>1, <2>2
  <2>4. left' \in TimeLeft /\ hung' \in BOOLEAN
    BY <2>1, <2>2, TimesAreLeft
  <2>5. due' \in 0 .. Interval /\ updates' \in 0 .. MaxUpdates
    BY <2>1, <2>2
  <2>6. QED
    BY <1>1, <2>1, <2>2, <2>3, <2>4, <2>5
<1>6. CASE TickStallFatal
  <2>1. /\ UNCHANGED <<probes, updates>> /\ due' = 0 /\ lock' = "free"
        /\ phase' = "idle" /\ left' = 0 /\ hung' = FALSE
    BY <1>6 DEF TickStallFatal, Gone, CycleEnds
  <2>2. ProbesInv'
    BY <2>1
  <2>3. left' \in TimeLeft /\ hung' \in BOOLEAN
    BY <2>1, TimesAreLeft
  <2>4. due' \in 0 .. Interval /\ updates' \in 0 .. MaxUpdates
    BY <2>1
  <2>5. QED
    BY <1>1, <2>1, <2>2, <2>3, <2>4
<1>7. QED
  BY <1>3, <1>4, <1>5, <1>6 DEF Tick

\* The cycle's phases.
LEMMA CycleStepsTyped ==
    ASSUME CycleType, ProbesInv,
           \/ SampleDone \/ CycleFails \/ Uploaded \/ UploadRefused \/ AckDone
           \/ UpdateBegins \/ UpdateFails \/ UpdateApplied \/ Hang
    PROVE  CycleType' /\ ProbesInv'
<1> USE Bounds DEF CycleType, ProbesInv, process
<1>1. CASE SampleDone \/ Uploaded \/ UpdateBegins
  <2>1. hangs' \in Nat /\ troubles' \in Nat /\ hangs' + troubles' <= MaxTroubles
    BY <1>1, TroublesCounted DEF SampleDone, Uploaded, UpdateBegins
  <2>2. /\ UNCHANGED <<lock, probes, updates, due, hung>> /\ phase # "applied"
        /\ phase' \in {"upload", "ack", "update"}
        /\ left' \in {UploadTimeout, 0, DownloadTimeout}
    BY <1>1 DEF SampleDone, Uploaded, UpdateBegins, InPhase, EnterPhase
  <2>3. ProbesInv'
    BY <2>2
  <2>4. left' \in TimeLeft /\ hung' \in BOOLEAN
    BY <2>2, TimesAreLeft
  <2>5. due' \in 0 .. Interval /\ updates' \in 0 .. MaxUpdates
    BY <2>2
  <2>6. QED
    BY <2>1, <2>2, <2>3, <2>4, <2>5
<1>2. CASE CycleFails \/ UploadRefused \/ AckDone \/ UpdateFails
  <2>1. hangs' \in Nat /\ troubles' \in Nat /\ hangs' + troubles' <= MaxTroubles
    BY <1>2, TroublesCounted DEF CycleFails, UploadRefused, AckDone, UpdateFails
  <2>2. /\ UNCHANGED <<lock, probes, updates, due>> /\ phase # "applied"
        /\ phase' = "idle" /\ left' = 0 /\ hung' = FALSE
    BY <1>2 DEF CycleFails, UploadRefused, AckDone, UpdateFails, InPhase, CycleEnds
  <2>3. ProbesInv'
    BY <2>2
  <2>4. left' \in TimeLeft /\ hung' \in BOOLEAN
    BY <2>2, TimesAreLeft
  <2>5. due' \in 0 .. Interval /\ updates' \in 0 .. MaxUpdates
    BY <2>2
  <2>6. QED
    BY <2>1, <2>2, <2>3, <2>4, <2>5
<1>3. CASE UpdateApplied
  <2>1. hangs' \in Nat /\ troubles' \in Nat /\ hangs' + troubles' <= MaxTroubles
    BY <1>3, TroublesCounted DEF UpdateApplied
  <2>2. /\ lock \in {"run", "exiting"} /\ phase = "update" /\ updates < MaxUpdates
        /\ lock' = "exiting" /\ probes' = probes + 1 /\ updates' = updates + 1
        /\ phase' = "applied" /\ left' = 0 /\ UNCHANGED <<due, hung>>
    BY <1>3 DEF UpdateApplied, InPhase, Running, EnterPhase, Relaunch
  <2>3. probes <= 2 /\ (due = 0 => probes <= 1)
    BY <2>2
  <2>4. ProbesInv'
    BY <2>2, <2>3
  <2>5. left' \in TimeLeft /\ hung' \in BOOLEAN
    BY <2>2, <2>3, TimesAreLeft
  <2>6. due' \in 0 .. Interval /\ updates' \in 0 .. MaxUpdates
    BY <2>2, <2>3
  <2>7. QED
    BY <2>1, <2>2, <2>3, <2>4, <2>5, <2>6
<1>4. CASE Hang
  BY <1>4 DEF Hang
<1>5. QED
  BY <1>1, <1>2, <1>3, <1>4

LEMMA TimeTyped ==
    ASSUME CycleType, ProbesInv, LoopTime
    PROVE  CycleType' /\ ProbesInv'
<1> USE Bounds DEF CycleType, ProbesInv, process
<1>1. hangs' \in Nat /\ troubles' \in Nat /\ hangs' + troubles' <= MaxTroubles
  BY TroublesCounted DEF LoopTime
<1>2. UNCHANGED <<lock, probes, updates, phase, hung>> /\ probes = 0
  BY DEF LoopTime, LoopWaits
<1>3. due' \in 0 .. Interval
  BY DEF LoopTime, LoopWaits
<1>4. left' \in TimeLeft
  <2>1. CASE phase = "idle" \/ hung
    BY <2>1, Zenon DEF LoopTime
  <2>2. CASE phase # "idle" /\ ~hung
    <3>1. left' = left - 1 /\ left > 0
      BY <2>2 DEF LoopTime, LoopWaits
    <3>2. QED
      BY <3>1, TimesAreLeft
  <2>3. QED
    BY <2>1, <2>2
<1>5. lock # "exiting"
  BY DEF LoopTime, LoopWaits
<1>6. ProbesInv'
  BY <1>2, <1>5
<1>7. QED
  BY <1>1, <1>2, <1>3, <1>4, <1>6

LEMMA ProcessesTyped ==
    ASSUME CycleType, ProbesInv, [Next]_vars
    PROVE  CycleType' /\ ProbesInv'
<1>1. CASE UNCHANGED vars
  BY <1>1 DEF CycleType, ProbesInv, vars, agentVars
<1>2. CASE Upload \/ AnswerLost \/ Refused
  BY <1>2, CycleStepsTyped DEF Upload, AnswerLost, Refused
<1>3. CASE AgentStep
  BY <1>3, ProcessStepsTyped, TicksTyped, CycleStepsTyped DEF AgentStep
<1>4. CASE ServerTrouble
  <2>1. UNCHANGED <<lock, probes, updates, phase, left, hung, due>> /\ Trouble
    BY <1>4 DEF ServerTrouble, process, cycle
  <2>2. QED
    BY <2>1, TroublesCounted DEF CycleType, ProbesInv
<1>5. CASE Check \/ Restart
  BY <1>5 DEF Check, Restart, CycleType, ProbesInv, agentVars
<1>6. CASE PassTime
  BY <1>6, TimeTyped DEF PassTime
<1>7. QED
  BY <1>1, <1>2, <1>3, <1>4, <1>5, <1>6 DEF Next

LEMMA PresenceInitially == Init => WatchInv /\ CycleType /\ ProbesInv /\ AlertInv
<1> SUFFICES ASSUME Init PROVE WatchInv /\ CycleType /\ ProbesInv
  BY AlertInitially
<1>1. /\ lock = "free" /\ probes = 0 /\ phase = "idle" /\ age = 0 /\ left = 0 /\ hung = FALSE
      /\ due = 0 /\ updates = 0 /\ hangs = 0 /\ troubles = 0
  BY DEF Init, LoopInit
<1>2. left \in TimeLeft /\ hung \in BOOLEAN
  BY <1>1, TimesAreLeft
<1>3. ProbesInv
  BY <1>1 DEF ProbesInv
<1>4. WatchInv
  BY <1>1, LoopAssumption DEF WatchInv, LoopType
<1>5. QED
  BY <1>1, <1>2, <1>3, <1>4, Bounds DEF CycleType

\* Every variable keeps its type, and however the scheduled task, the watchdog and the
\* updates start processes, never more than three wait for the mutex (main.go).
THEOREM PresenceTyped == Spec => []TypeOK
<1>1. Init => CycleType /\ ProbesInv /\ AlertInv /\ NoteInv
  BY PresenceInitially, NotesInitially
<1>2. CycleType /\ ProbesInv /\ AlertInv /\ NoteInv /\ [Next]_vars
          => (CycleType /\ ProbesInv /\ AlertInv /\ NoteInv)'
  BY ProcessesTyped, AlertInvariant, NotesInvariant
<1>3. CycleType /\ ProbesInv /\ AlertInv /\ NoteInv => TypeOK
  <2> SUFFICES ASSUME CycleType, ProbesInv, AlertInv, NoteInv PROVE TypeOK
    OBVIOUS
  <2>1. hangs + troubles \in 0 .. MaxTroubles
    BY LoopAssumption DEF CycleType
  <2>2. silence \in Never .. SilenceCap /\ checkDue \in 0 .. CheckEvery
    BY AlertAssumption DEF AlertInv, ServerType, Never, SilenceCap
  <2>3. /\ heard \in {"nothing", "offline", "online"} \X {"nothing", "offline", "online"}
        /\ told \in BOOLEAN
    BY DEF NoteInv, HeardInTurn, Nothing
  <2>4. QED
    BY <2>1, <2>2, <2>3 DEF CycleType, ProbesInv, AlertInv, ServerType, TimeLeft, TypeOK
<1>4. QED
  BY <1>1, <1>2, <1>3, PTL DEF Spec

-----------------------------------------------------------------------------
(* One wedged call.  Without other trouble every cycle that does not hang reports. *)
(* From one report to the next tick that starts a cycle it takes a Reach at most,  *)
(* a cycle that hangs before its report costs another, and the one after it        *)
(* reports within ReportTime, which is too early for the watchdog to kill it.      *)

Orderly == hangs <= 1 /\ troubles = 0

\* What the wedged cycle has cost, once it is over.
Spent == IF hangs = 1 /\ ~hung THEN Reach ELSE 0

ServerQuiet == up /\ status = "active" /\ snap # "offline" /\ heard[2] # "offline"

CycleInTime ==
    /\ hung => hangs = 1 /\ phase \in {"sample", "ack", "update"}
    /\ phase = "sample" /\ ~hung => age + left <= SampleTime
    /\ phase = "upload" => age + left <= ReportTime
    /\ lock = "exiting" => probes > 0 /\ (phase \in {"sample", "upload"} => hung \/ age = 0)

SilenceInTime ==
    silence # Never =>
        /\ lock = "free" => probes > 0
        /\ lock \in {"free", "boot"} => silence <= Reach + Spent
        /\ phase \in {"sample", "upload"} => silence <= Reach + age + Spent
        /\ phase \in {"ack", "update", "applied"} => silence <= age
        /\ phase = "idle" /\ lock = "run" => silence + due <= Reach
        /\ phase = "idle" /\ lock = "exiting" => silence <= Reach

WedgeInv == Orderly => ServerQuiet /\ CycleInTime /\ SilenceInTime

\* What the invariants above say of the variables these three speak of.
WedgeTypes ==
    /\ lock \in {"free", "boot", "run", "exiting"}
    /\ phase \in {"idle", "sample", "upload", "ack", "update", "applied"}
    /\ lock \in {"free", "boot"} => phase = "idle"
    /\ lock = "run" => age + due <= Reach
    /\ age \in Nat /\ age <= Reach /\ left \in Nat /\ due \in Nat
    /\ hung \in BOOLEAN /\ probes \in Nat /\ hangs \in Nat /\ troubles \in Nat
    /\ silence \in Int /\ Never <= silence

LEMMA WedgeTyped ==
    ASSUME WatchInv, CycleType, ProbesInv, AlertInv
    PROVE  WedgeTypes
<1>1. left \in Nat
  BY TimesAreLeft DEF CycleType
<1>2. QED
  BY <1>1, Bounds DEF WatchInv, LoopType, CycleType, ProbesInv, AlertInv, ServerType,
                      WedgeTypes, Reach

LEMMA Durations ==
    /\ Interval \in Nat \ {0} /\ StallAfter \in Nat \ {0} /\ SampleTime \in Nat
    /\ UploadTimeout \in Nat \ {0} /\ DownloadTimeout \in Nat
    /\ OfflineAfter \in Nat \ {0} /\ CheckEvery \in Nat \ {0}
    /\ Reach \in Nat /\ StallAfter < Reach /\ ReportTime \in Nat /\ SampleTime <= ReportTime
BY LoopAssumption, AlertAssumption DEF Reach, ReportTime

\* Trouble and hangs are counted for good.
LEMMA StaysOrderly ==
    ASSUME WedgeTypes, [Next]_vars, Orderly'
    PROVE  Orderly /\ (hangs' = hangs \/ Hang) /\ troubles' = troubles
<1>1. NoTrouble \/ Trouble \/ (Hang /\ troubles' = troubles /\ hangs' = hangs + 1)
  BY DEF Next, vars, agentVars, Upload, AnswerLost, Refused, AgentStep, Check, ServerTrouble,
         Restart, PassTime, Fire, TakeLock, GiveUp, Boot, Die, Exit, Tick, TickStart, TickSkip,
         TickStall, TickStallFatal, SampleDone, CycleFails, Uploaded, UploadRefused, AckDone,
         UpdateBegins, UpdateFails, UpdateApplied, Hang, LoopTime, NoTrouble
<1>2. QED
  BY <1>1 DEF WedgeTypes, Orderly, NoTrouble, Trouble

\* Processes come and go.
LEMMA ProcessStepsQuiet ==
    ASSUME WedgeTypes, CycleInTime, SilenceInTime, NoTrouble, UNCHANGED serverVars,
           Fire \/ TakeLock \/ GiveUp \/ Boot \/ Exit
    PROVE  CycleInTime' /\ SilenceInTime'
<1> USE Durations DEF WedgeTypes, CycleInTime, SilenceInTime, Spent, NoTrouble, serverVars
<1>1. CASE Fire \/ GiveUp
  BY <1>1 DEF Fire, GiveUp, cycle
<1>2. CASE TakeLock
  BY <1>2 DEF TakeLock, cycle
<1>3. CASE Boot
  BY <1>3 DEF Boot, StartCycle
<1>4. CASE Exit
  BY <1>4 DEF Exit, Gone, CycleEnds
<1>5. QED
  BY <1>1, <1>2, <1>3, <1>4

\* The loop: only a cycle that hangs, or is past its report, is killed.
LEMMA TicksQuiet ==
    ASSUME WedgeTypes, DurationsFit, CycleInTime, SilenceInTime, NoTrouble,
           UNCHANGED serverVars, TickStart \/ TickSkip \/ TickStall
    PROVE  CycleInTime' /\ SilenceInTime'
<1> USE Durations DEF WedgeTypes, CycleInTime, SilenceInTime, Spent, NoTrouble, serverVars,
                      TickDue, Running
<1>1. CASE TickStart
  BY <1>1 DEF TickStart, StartCycle, process
<1>2. CASE TickSkip
  BY <1>2 DEF TickSkip, process, cycle
<1>3. CASE TickStall
  <2>1. age >= StallAfter
    <3>1. age < StallAfter => StallSeen = {FALSE}
      BY Zenon DEF StallSeen
    <3>2. TRUE \in StallSeen
      BY <1>3, Zenon DEF TickStall, Stalled
    <3>3. ~(age < StallAfter)
      BY <3>1, <3>2, Zenon
    <3>4. QED
      BY <3>3
  <2>2. phase \in {"sample", "upload"} => hung
    BY <2>1 DEF DurationsFit
  <2>3. QED
    BY <1>3, <2>2 DEF TickStall, Stalled, Relaunch, cycle
<1>4. QED
  BY <1>1, <1>2, <1>3

\* The cycle, but for its report.
LEMMA CycleStepsQuiet ==
    ASSUME WedgeTypes, CycleInTime, SilenceInTime, NoTrouble, UNCHANGED serverVars,
           SampleDone \/ AckDone \/ UpdateBegins \/ UpdateFails \/ UpdateApplied
    PROVE  CycleInTime' /\ SilenceInTime'
<1> USE Durations DEF WedgeTypes, CycleInTime, SilenceInTime, Spent, NoTrouble, serverVars,
                      InPhase, Running, EnterPhase, CycleEnds, process
<1>1. CASE SampleDone
  BY <1>1 DEF SampleDone, ReportTime
<1>2. CASE AckDone \/ UpdateFails
  BY <1>2 DEF AckDone, UpdateFails
<1>3. CASE UpdateBegins
  BY <1>3 DEF UpdateBegins
<1>4. CASE UpdateApplied
  BY <1>4 DEF UpdateApplied, Relaunch
<1>5. QED
  BY <1>1, <1>2, <1>3, <1>4

LEMMA HangsQuiet ==
    ASSUME WedgeTypes, CycleInTime, SilenceInTime, Hang, hangs' <= 1, UNCHANGED serverVars
    PROVE  CycleInTime' /\ SilenceInTime'
<1>1. hangs = 0 /\ hangs' = 1 /\ ~hung /\ hung'
  BY DEF Hang, WedgeTypes
<1>2. QED
  BY <1>1, Durations DEF Hang, WedgeTypes, CycleInTime, SilenceInTime, Spent, process, serverVars

LEMMA ReportQuiet ==
    ASSUME WedgeTypes, CycleInTime, SilenceInTime, Upload
    PROVE  CycleInTime' /\ SilenceInTime'
<1>1. silence' = 0 /\ phase' = "ack" /\ age' = age /\ lock' = lock /\ hung' = hung
      /\ ~hung /\ probes' = probes /\ hangs' = hangs /\ left' = 0 /\ lock \in {"run", "exiting"}
  BY DEF Upload, Report, Uploaded, EnterPhase, InPhase, Running, process, NoTrouble
<1>2. QED
  BY <1>1, Durations DEF WedgeTypes, CycleInTime, SilenceInTime, Spent

LEMMA TimeQuiet ==
    ASSUME WedgeTypes, CycleInTime, SilenceInTime, PassTime
    PROVE  CycleInTime' /\ SilenceInTime'
<1>1. /\ probes = 0 /\ lock \in {"free", "run"} /\ (lock = "run" => due > 0)
      /\ phase = "idle" \/ hung \/ left > 0
      /\ UNCHANGED <<lock, probes, phase, hung, hangs>>
      /\ due' = IF lock = "run" THEN due - 1 ELSE due
      /\ age' = IF phase = "idle" THEN 0 ELSE age + 1
      /\ left' = IF phase = "idle" \/ hung THEN left ELSE left - 1
  BY DEF PassTime, LoopTime, LoopWaits, process, NoTrouble
<1>2. silence' = silence \/ (silence # Never /\ silence' = silence + 1)
  BY DEF PassTime, CheckTime
<1>3. silence' = Never => silence = Never
  BY <1>2 DEF WedgeTypes, Never
<1>4. silence = Never => silence' = Never
  BY <1>2 DEF WedgeTypes, Never
<1>5. QED
  BY <1>1, <1>2, <1>3, <1>4, Durations DEF WedgeTypes, CycleInTime, SilenceInTime, Spent, Never

\* The server looks, and does not find the device overdue.
LEMMA SilenceBound ==
    ASSUME WedgeTypes, DurationsFit, Orderly, CycleInTime, SilenceInTime
    PROVE  silence <= OfflineAfter
<1> USE Durations DEF WedgeTypes
<1>1. CASE silence = Never
  BY <1>1 DEF Never
<1>2. CASE silence # Never
  <2>1. Spent <= Reach /\ Spent \in Nat /\ (hung => Spent = 0)
    BY DEF Spent
  <2>2. CASE lock \in {"free", "boot"}
    BY <1>2, <2>1, <2>2 DEF SilenceInTime, DurationsFit
  <2>3. CASE lock \in {"run", "exiting"} /\ phase \in {"sample", "upload"}
    <3>1. silence <= Reach + age + Spent
      BY <1>2, <2>3 DEF SilenceInTime
    <3>2. hung \/ age <= ReportTime
      BY <2>3 DEF CycleInTime
    <3>3. QED
      BY <2>1, <3>1, <3>2 DEF DurationsFit
  <2>4. CASE lock \in {"run", "exiting"} /\ phase \notin {"sample", "upload"}
    BY <1>2, <2>4 DEF SilenceInTime, DurationsFit
  <2>5. QED
    BY <2>2, <2>3, <2>4
<1>3. QED
  BY <1>1, <1>2

LEMMA ChecksQuiet ==
    ASSUME ServerQuiet, silence <= OfflineAfter, silence \in Int, Check
    PROVE  ServerQuiet'
<1>1. CASE CheckRead
  <2>1. snap' # "offline"
    BY <1>1, Durations DEF CheckRead
  <2>2. QED
    BY <1>1, <2>1 DEF CheckRead, ServerQuiet
<1>2. CASE CheckApply
  <2>1. ~Announces
    BY DEF Announces, ServerQuiet
  <2>2. heard'[2] \in {"online", "nothing", heard[2]}
    BY <1>2, <2>1 DEF CheckApply, Then, Nothing
  <2>3. QED
    BY <1>2, <2>2 DEF CheckApply, ServerQuiet, NoSnap
<1>3. QED
  BY <1>1, <1>2 DEF Check

LEMMA WedgeInvariant ==
    ASSUME WedgeTypes, DurationsFit, WedgeInv, [Next]_vars
    PROVE  WedgeInv'
<1> SUFFICES ASSUME Orderly'
             PROVE  ServerQuiet' /\ CycleInTime' /\ SilenceInTime'
  BY DEF WedgeInv
<1>1. /\ Orderly /\ troubles' = troubles /\ (hangs' = hangs \/ Hang)
      /\ ServerQuiet /\ CycleInTime /\ SilenceInTime /\ hangs' <= 1
  BY StaysOrderly DEF WedgeInv, Orderly
<1>2. ~Trouble
  BY <1>1 DEF Trouble, WedgeTypes
<1>3. ASSUME UNCHANGED serverVars PROVE ServerQuiet'
  BY <1>1, <1>3 DEF ServerQuiet, serverVars
<1>4. ASSUME UNCHANGED <<lock, probes, phase, age, left, hung, due, hangs, silence>>
      PROVE  CycleInTime' /\ SilenceInTime'
  BY <1>1, <1>4 DEF CycleInTime, SilenceInTime, Spent
<1>5. CASE UNCHANGED vars
  BY <1>3, <1>4, <1>5 DEF vars, agentVars, serverVars
<1>6. CASE Upload
  <2>1. ServerQuiet'
    BY <1>1, <1>6 DEF Upload, Report, checker, ServerQuiet
  <2>2. QED
    BY <1>1, <1>6, <2>1, ReportQuiet
<1>7. CASE AgentStep
  <2>1. UNCHANGED serverVars
    BY <1>7 DEF AgentStep
  <2>2. CASE Fire \/ TakeLock \/ GiveUp \/ Boot \/ Exit
    <3>1. NoTrouble
      BY <2>2 DEF Fire, TakeLock, GiveUp, Boot, Exit
    <3>2. QED
      BY <1>1, <1>3, <2>1, <2>2, <3>1, ProcessStepsQuiet
  <2>3. CASE Tick
    <3>1. TickStart \/ TickSkip \/ TickStall
      BY <1>2, <2>3 DEF Tick, TickStallFatal
    <3>2. NoTrouble
      BY <3>1 DEF TickStart, TickSkip, TickStall
    <3>3. QED
      BY <1>1, <1>3, <2>1, <3>1, <3>2, TicksQuiet
  <2>4. CASE SampleDone \/ AckDone \/ UpdateBegins \/ UpdateFails \/ UpdateApplied
    <3>1. NoTrouble
      BY <2>4 DEF SampleDone, AckDone, UpdateBegins, UpdateFails, UpdateApplied
    <3>2. QED
      BY <1>1, <1>3, <2>1, <2>4, <3>1, CycleStepsQuiet
  <2>5. CASE Hang
    BY <1>1, <1>3, <2>1, <2>5, HangsQuiet
  <2>6. CASE Die \/ CycleFails
    BY <1>2, <2>6 DEF Die, CycleFails
  <2>7. QED
    BY <1>7, <2>2, <2>3, <2>4, <2>5, <2>6 DEF AgentStep
<1>8. CASE Check
  <2>1. silence <= OfflineAfter /\ silence \in Int
    BY <1>1, SilenceBound DEF WedgeTypes
  <2>2. UNCHANGED <<lock, probes, phase, age, left, hung, due, hangs, silence>>
    BY <1>8 DEF Check, CheckRead, CheckApply, agentVars
  <2>3. QED
    BY <1>1, <1>4, <1>8, <2>1, <2>2, ChecksQuiet
<1>9. CASE PassTime
  <2>1. ServerQuiet'
    BY <1>1, <1>9 DEF PassTime, CheckTime, ServerQuiet
  <2>2. QED
    BY <1>1, <1>9, <2>1, TimeQuiet
<1>10. CASE AnswerLost \/ Refused \/ ServerTrouble \/ Restart
  BY <1>1, <1>2, <1>10 DEF AnswerLost, CycleFails, Refused, ServerTrouble, Restart,
                           ServerStart, ServerQuiet
<1>11. QED
  BY <1>5, <1>6, <1>7, <1>8, <1>9, <1>10 DEF Next

\* One call that never returns, and nothing else going wrong, alarms nobody: with the
\* watchdog's hand-over the device reports before the server calls it offline (core.go
\* restartWedged, alerts.go checkOffline), for all durations that leave it the time.
\* One unit less, and TLC finds a run in which the household is told (README.md).
THEOREM WedgesStayQuiet ==
    ASSUME DurationsFit
    PROVE  Spec => []WedgeStaysQuiet
<1> DEFINE Inv == WatchInv /\ CycleType /\ ProbesInv /\ AlertInv /\ WedgeInv
<1>1. Init => Inv
  <2> SUFFICES ASSUME Init PROVE Inv
    OBVIOUS
  <2>1. WatchInv /\ CycleType /\ ProbesInv /\ AlertInv
    BY PresenceInitially
  <2>2. /\ lock = "free" /\ phase = "idle" /\ hung = FALSE /\ silence = Never
        /\ up /\ status = "active" /\ snap = NoSnap /\ heard = Nothing
    BY DEF Init, LoopInit, AlertsInit, Unalerted
  <2>3. WedgeInv
    BY <2>2 DEF WedgeInv, ServerQuiet, CycleInTime, SilenceInTime, NoSnap, Nothing
  <2>4. QED
    BY <2>1, <2>3
<1>2. Inv /\ [Next]_vars => Inv'
  BY WatchInvariant, ProcessesTyped, AlertInvariant, WedgeTyped, WedgeInvariant
<1>3. Inv => WedgeStaysQuiet
  BY DEF WedgeInv, Orderly, ServerQuiet, WedgeStaysQuiet
<1>4. QED
  BY <1>1, <1>2, <1>3, PTL DEF Spec
=============================================================================
