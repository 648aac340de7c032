---------------------------- MODULE FunctionsProofs ----------------------------
(***************************************************************************)
(* Theorems about the small parts that share no state: the rate limiter,   *)
(* the autostart, the monitor probe with the measure of idleness, the log, *)
(* the dashboard's queries and the board's identity, each for every value  *)
(* of its constants.                                                       *)
(***************************************************************************)
EXTENDS MCFunctions, MonitorTimeProofs, SequenceTheorems

-----------------------------------------------------------------------------
(* The enrollment cap. *)

Hits == [id : Nat, at : Nat]

\* The argument: whatever stamps arrive, a hit that is less than a window older than
\* the clock is still remembered.
LimiterInv ==
    /\ clock \in Nat /\ attempts \in Nat
    /\ waiting \subseteq Hits /\ admitted \subseteq Hits
    /\ refused \subseteq Hits /\ hits \subseteq admitted
    /\ IsFiniteSet(admitted)
    /\ \A h \in admitted : h.at <= clock
    /\ \A a \in waiting : a.at <= clock /\ clock <= a.at + MaxDelay
    /\ Since(clock - WindowSecs, admitted) \subseteq hits

\* It is inductive: time, arrivals and the lock in any order keep it (rateLimiter.allow).
LEMMA LimiterInvHolds == LimiterSpec => []LimiterInv
  <1>1. LimiterInit => LimiterInv
    BY FS_EmptySet DEF LimiterInit, LimiterInv, Since
  <1>2. LimiterInv /\ [LimiterNext]_limiterVars => LimiterInv'
    <2> SUFFICES ASSUME LimiterInv, [LimiterNext]_limiterVars PROVE LimiterInv'
      OBVIOUS
    <2> USE LimiterAssumption DEF LimiterInv, Hits
    <2>1. CASE Arrive
      BY <2>1 DEF Arrive, Since
    <2>2. ASSUME NEW a \in waiting, Allow(a) PROVE LimiterInv'
      <3> DEFINE kept == Since(a.at - WindowSecs, hits)
      <3>1. UNCHANGED <<clock, attempts>> /\ waiting' \subseteq waiting
        BY <2>2 DEF Allow
      <3>2. Since(clock - WindowSecs, admitted) \subseteq kept
        BY DEF Since
      <3>3. CASE hits' = kept /\ admitted' = admitted /\ refused' = refused \cup {a}
        BY <3>1, <3>2, <3>3 DEF Since
      <3>4. CASE hits' = kept \cup {a} /\ admitted' = admitted \cup {a} /\ refused' = refused
        <4>1. IsFiniteSet(admitted')
          BY <3>4, FS_AddElement
        <4>2. Since(clock - WindowSecs, admitted') \subseteq hits'
          BY <3>2, <3>4 DEF Since
        <4> QED
          BY <3>1, <3>4, <4>1, <4>2 DEF Since
      <3> QED
        BY <2>2, <3>3, <3>4 DEF Allow
    <2>3. CASE PassSecond
      BY <2>3 DEF PassSecond, Since
    <2>4. CASE UNCHANGED limiterVars
      BY <2>4 DEF limiterVars, Since
    <2> QED
      BY <2>1, <2>2, <2>3, <2>4 DEF LimiterNext
  <1> QED BY <1>1, <1>2, PTL DEF LimiterSpec

\* No stretch of WindowSecs - MaxDelay seconds admits more than Limit attempts (server.go
\* allow), in whatever order the handlers get the lock.
THEOREM CapAlwaysHolds == LimiterSpec => []CapHolds
  <1>1. LimiterInit => CapHolds
    <2> SUFFICES ASSUME LimiterInit PROVE CapHolds
      OBVIOUS
    <2>1. \A t : {h \in admitted : h.at > t /\ h.at <= t + WindowSecs - MaxDelay} = {}
      BY DEF LimiterInit
    <2> QED
      BY <2>1, FS_EmptySet, LimiterAssumption DEF CapHolds
  <1>2. LimiterInv /\ LimiterInv' /\ CapHolds /\ [LimiterNext]_limiterVars => CapHolds'
    <2> SUFFICES ASSUME LimiterInv, LimiterInv', CapHolds, [LimiterNext]_limiterVars,
                        NEW t \in -1 .. clock'
                 PROVE  Cardinality({h \in admitted' : h.at > t
                                       /\ h.at <= t + WindowSecs - MaxDelay}) <= Limit
      BY DEF CapHolds
    <2> DEFINE In(S) == {h \in S : h.at > t /\ h.at <= t + WindowSecs - MaxDelay}
    <2> USE LimiterAssumption DEF LimiterInv, Hits
    <2>0. t \in Int
      OBVIOUS
    <2>1. CASE admitted' = admitted
      <3>1. CASE t \in -1 .. clock
        BY <2>1, <3>1 DEF CapHolds
      <3>2. CASE t > clock
        <4>1. \A h \in admitted : h.at \in Nat /\ h.at <= clock /\ clock \in Nat
          OBVIOUS
        <4>2. In(admitted) = {}
          BY <2>0, <3>2, <4>1
        <4>3. In(admitted') = {}
          BY <2>1, <4>2
        <4>4. 0 <= Limit
          OBVIOUS
        <4> QED
          BY <4>3, <4>4, FS_EmptySet
      <3>3. clock' \in Nat /\ clock \in Nat
        OBVIOUS
      <3> QED
        BY <2>0, <3>1, <3>2, <3>3
    <2>2. ASSUME NEW a \in waiting, Allow(a), admitted' # admitted
          PROVE  Cardinality(In(admitted')) <= Limit
      <3> DEFINE kept == Since(a.at - WindowSecs, hits)
      <3>1. /\ clock' = clock /\ admitted' = admitted \cup {a}
            /\ ~(Cardinality(kept) >= Limit)
        BY <2>2 DEF Allow
      <3>2. t \in -1 .. clock
        BY <3>1
      <3>3. Cardinality(In(admitted)) <= Limit
        BY <3>2 DEF CapHolds
      <3>4. CASE ~(a.at > t /\ a.at <= t + WindowSecs - MaxDelay)
        <4>1. In(admitted') = In(admitted)
          BY <3>1, <3>4
        <4> QED
          BY <3>3, <4>1
      \* All of the stretch's hits are still remembered, and there is room for one.
      <3>5. CASE a.at > t /\ a.at <= t + WindowSecs - MaxDelay
        <4>1. /\ a.at \in Nat /\ clock \in Nat /\ a.at <= clock
              /\ clock <= a.at + MaxDelay
          OBVIOUS
        <4>2. clock - WindowSecs <= t /\ a.at - WindowSecs <= t
          BY <2>0, <3>5, <4>1
        <4>3. In(admitted) \subseteq Since(clock - WindowSecs, admitted)
          BY <2>0, <4>1, <4>2 DEF Since
        <4>4. In(admitted) \subseteq kept
          BY <2>0, <4>1, <4>2, <4>3 DEF Since
        <4>5. IsFiniteSet(hits) /\ IsFiniteSet(kept) /\ Cardinality(kept) \in Nat
          <5>1. IsFiniteSet(hits)
            BY FS_Subset
          <5>2. kept \in SUBSET hits
            BY DEF Since
          <5> QED
            BY <5>1, <5>2, FS_Subset, FS_CardinalityType
        <4>6. /\ IsFiniteSet(In(admitted))
              /\ Cardinality(In(admitted)) <= Cardinality(kept)
              /\ Cardinality(In(admitted)) \in Nat
          BY <4>4, <4>5, FS_Subset, FS_CardinalityType
        <4>7. Cardinality(In(admitted) \cup {a}) <= Cardinality(In(admitted)) + 1
          <5> HIDE DEF In
          <5>1. Cardinality(In(admitted) \cup {a})
                    = IF a \in In(admitted) THEN Cardinality(In(admitted))
                      ELSE Cardinality(In(admitted)) + 1
            BY <4>6, FS_AddElement
          <5> QED
            BY <4>6, <5>1
        <4>8. In(admitted') = In(admitted) \cup {a}
          BY <3>1, <3>5
        <4>9. Cardinality(In(admitted) \cup {a}) \in Nat
          BY <4>6, FS_AddElement, FS_CardinalityType
        <4>10. Cardinality(In(admitted)) + 1 <= Limit
          <5> HIDE DEF In, kept
          <5> QED
            BY <3>1, <4>5, <4>6
        <4>11. Cardinality(In(admitted')) <= Limit
          <5> HIDE DEF In, kept
          <5> QED
            BY <4>6, <4>7, <4>8, <4>9, <4>10
        <4> QED
          BY <4>11
      <3> QED
        BY <3>4, <3>5
    <2>3. CASE Arrive \/ PassSecond \/ UNCHANGED limiterVars
      BY <2>1, <2>3 DEF Arrive, PassSecond, limiterVars
    <2> QED
      BY <2>1, <2>2, <2>3 DEF LimiterNext
  <1> QED BY <1>1, <1>2, LimiterInvHolds, PTL DEF LimiterSpec

\* An attempt that is refused follows Limit that were not, none of them more than a
\* window older (server.go allow: only the admitted are remembered).
THEOREM RefusalAlwaysHasCause == LimiterSpec => []RefusalHasCause
  <1>1. LimiterInit => RefusalHasCause
    BY DEF LimiterInit, RefusalHasCause
  <1>2. LimiterInv /\ LimiterInv' /\ RefusalHasCause /\ [LimiterNext]_limiterVars
            => RefusalHasCause'
    <2> SUFFICES ASSUME LimiterInv, LimiterInv', RefusalHasCause,
                        [LimiterNext]_limiterVars, NEW r \in refused'
                 PROVE  Cardinality(Since(r.at - WindowSecs, admitted')) >= Limit
      BY DEF RefusalHasCause
    <2> USE LimiterAssumption
    <2> DEFINE then == Since(r.at - WindowSecs, admitted')
    <2>0. IsFiniteSet(then) /\ Cardinality(then) \in Nat
      BY FS_Subset, FS_CardinalityType DEF LimiterInv, Since
    <2>1. CASE r \in refused
      <3>1. admitted \subseteq admitted'
        BY DEF LimiterNext, Arrive, Allow, PassSecond, limiterVars
      <3>2. Since(r.at - WindowSecs, admitted) \in SUBSET then
        BY <3>1 DEF Since
      <3>3. /\ Cardinality(Since(r.at - WindowSecs, admitted)) <= Cardinality(then)
            /\ Cardinality(Since(r.at - WindowSecs, admitted)) \in Nat
        BY <2>0, <3>2, FS_Subset, FS_CardinalityType
      <3>4. Cardinality(Since(r.at - WindowSecs, admitted)) >= Limit
        BY <2>1 DEF RefusalHasCause
      <3>5. Cardinality(then) >= Limit
        <4> HIDE DEF then
        <4> QED
          BY <2>0, <3>3, <3>4
      <3> QED
        BY <3>5
    <2>2. CASE r \notin refused
      <3>1. PICK a \in waiting : Allow(a)
        BY <2>2 DEF LimiterNext, Arrive, PassSecond, limiterVars
      <3>2. r = a /\ Cardinality(Since(a.at - WindowSecs, hits)) >= Limit /\ admitted' = admitted
        BY <2>2, <3>1 DEF Allow
      <3>3. Since(a.at - WindowSecs, hits) \in SUBSET then
        BY <3>2 DEF LimiterInv, Since
      <3>4. /\ Cardinality(Since(a.at - WindowSecs, hits)) <= Cardinality(then)
            /\ Cardinality(Since(a.at - WindowSecs, hits)) \in Nat
        BY <2>0, <3>3, FS_Subset, FS_CardinalityType
      <3>5. Cardinality(then) >= Limit
        <4> HIDE DEF then
        <4> QED
          BY <2>0, <3>2, <3>4
      <3> QED
        BY <3>5
    <2> QED
      BY <2>1, <2>2
  <1> QED BY <1>1, <1>2, LimiterInvHolds, PTL DEF LimiterSpec

-----------------------------------------------------------------------------
(* The autostart.  Between the deletion of the task and the end of the run that    *)
(* deleted it nothing starts an agent, unless one was alive to register it again;  *)
(* and what is there of the files once they were removed, somebody kept or saved.  *)

Deleted == tool \in {"deleted", "stripped"} \/ gone

Agent == [pc : {"none", "born", "locked", "enrolling", "saved", "known", "repair", "runs"},
          owned : BOOLEAN, build : Templates \cup {NoTemplate}]

AutostartInv ==
    /\ exe \in Templates \cup {NoTemplate} /\ gone \in BOOLEAN /\ missed \in BOOLEAN
    /\ late \in BOOLEAN
    /\ procs \in [Procs -> Agent]
    /\ folder \subseteq {"credentials", "enrollment", "data"}
    /\ Deleted => tool # "copied"
    /\ tool = "emptied" => gone
    /\ tool \in {"deleted", "stripped"} => ~gone
    /\ Deleted /\ ~missed => task = NoTemplate /\ Alive = {}
    /\ Removed /\ "credentials" \in folder => late \/ "credentials" \in undeleted
    /\ gone /\ "enrollment" \in folder => "enrollment" \in undeleted
    /\ Removed /\ ~missed => folder \ {"enrollment"} \subseteq undeleted

\* One agent goes on, or ends.
LEMMA AgentGoes ==
    ASSUME AutostartInv, NEW p \in Procs,
           \/ Ends(p)
           \/ \E pc \in {"locked", "enrolling", "saved", "known", "runs", "repair"} :
                  Goes(p, pc) /\ p \in Alive
    PROVE  /\ procs' \in [Procs -> Agent] /\ Alive' \subseteq Alive
           /\ \A q \in Procs : q # p => procs'[q] = procs[q]
<1>1. CASE Ends(p)
  BY <1>1 DEF AutostartInv, Alive, None, Agent, Ends
<1>2. ASSUME NEW pc \in {"locked", "enrolling", "saved", "known", "runs", "repair"},
             Goes(p, pc), p \in Alive
      PROVE  /\ procs' \in [Procs -> Agent] /\ Alive' \subseteq Alive
             /\ \A q \in Procs : q # p => procs'[q] = procs[q]
  <2>1. [procs[p] EXCEPT !.pc = pc] \in Agent /\ procs' = [procs EXCEPT ![p].pc = pc]
    BY <1>2 DEF AutostartInv, Agent, Goes
  <2>2. QED
    BY <1>2, <2>1 DEF AutostartInv, Alive
<1>3. QED
  BY <1>1, <1>2

LEMMA AutostartInvHolds == AutostartSpec => []AutostartInv
<1>1. AutostartInit => AutostartInv
  <2>1. None \in Agent
    BY DEF None, Agent
  <2>2. None.pc = "none"
    BY DEF None
  <2>3. QED
    BY <2>1, <2>2 DEF AutostartInit, AutostartInv, Alive, Deleted, Removed
<1>2. AutostartInv /\ [AutostartNext]_autostartVars => AutostartInv'
  <2> SUFFICES ASSUME AutostartInv, [AutostartNext]_autostartVars PROVE AutostartInv'
    OBVIOUS
  <2> USE DEF AutostartInv, Alive, None, Deleted, Removed, Agent, pastRuns
  <2>1. ASSUME NEW p \in Procs, Start(p) \/ Enter(p) \/ Resolve(p) \/ Query(p) \/ Exit(p)
        PROVE  AutostartInv'
    <3>1. CASE Start(p)
      BY <2>1, <3>1 DEF Start
    <3>2. ASSUME \/ Ends(p)
                 \/ \E pc \in {"locked", "enrolling", "known", "runs", "repair"} :
                        Goes(p, pc) /\ p \in Alive,
                 UNCHANGED <<task, exe, folder, tool, pastRuns>>
          PROVE  AutostartInv'
      <4>1. procs' \in [Procs -> Agent] /\ Alive' \subseteq Alive
        BY <3>2, AgentGoes
      <4>2. QED
        BY <3>2, <4>1
    <3>3. CASE Enter(p) \/ Resolve(p) \/ Query(p) \/ Exit(p)
      BY <3>2, <3>3 DEF Enter, Resolve, Query, Exit
    <3>4. QED
      BY <2>1, <3>1, <3>3
  <2>2. ASSUME NEW p \in Procs, Repair(p) \/ Persist(p) PROVE AutostartInv'
    BY <2>2 DEF Repair, Persist, Goes
  \* An agent that enrolls was alive when the task was deleted.
  <2>3. ASSUME NEW p \in Procs, Enroll(p) \/ ForgetSecret(p) PROVE AutostartInv'
    <3>1. p \in Alive /\ \E pc \in {"saved", "known"} : Goes(p, pc)
      BY <2>3 DEF Enroll, ForgetSecret
    <3>2. procs' \in [Procs -> Agent] /\ Alive' \subseteq Alive
      BY <3>1, AgentGoes
    <3>3. CASE Enroll(p)
      BY <3>1, <3>2, <3>3 DEF Enroll
    <3>4. CASE ForgetSecret(p)
      BY <3>1, <3>2, <3>4 DEF ForgetSecret
    <3>5. QED
      BY <2>3, <3>3, <3>4
  <2>4. ASSUME NEW p \in Procs, NEW build \in Templates, Succeed(p, build)
        PROVE  AutostartInv'
    BY <2>4 DEF Succeed
  <2>5. ASSUME NEW build \in Templates, InstallCopy(build) PROVE AutostartInv'
    BY <2>5 DEF InstallCopy
  <2>6. CASE InstallRegister
    BY <2>6 DEF InstallRegister
  <2>7. CASE UninstallEnd
    <3>1. CASE procs' = [p \in Procs |-> IF procs[p].owned THEN None ELSE procs[p]]
      BY <2>7, <3>1 DEF UninstallEnd
    <3>2. CASE UNCHANGED procs
      BY <2>7, <3>2 DEF UninstallEnd
    <3>3. QED
      BY <2>7, <3>1, <3>2 DEF UninstallEnd
  <2>8. CASE UninstallDelete
    <3>1. CASE tool' = "idle" /\ UNCHANGED <<task, pastRuns>>
      BY <2>8, <3>1 DEF UninstallDelete
    <3>2. CASE /\ task' = NoTemplate /\ tool' = "deleted"
               /\ gone' = FALSE /\ missed' = (Alive # {}) /\ late' = FALSE
      BY <2>8, <3>2 DEF UninstallDelete
    <3>3. QED
      BY <2>8, <3>1, <3>2 DEF UninstallDelete
  <2>9. CASE UninstallFiles
    <3>1. PICK refusals \in SUBSET (folder \ {"enrollment"}) :
              /\ folder' = (folder \cap {"enrollment"}) \cup refusals
              /\ undeleted' = refusals
      BY <2>9 DEF UninstallFiles
    <3>2. /\ tool = "deleted" /\ tool' = "stripped"
          /\ UNCHANGED <<task, exe, procs, gone, missed, late>>
      BY <2>9 DEF UninstallFiles
    <3>3. Deleted /\ folder' \ {"enrollment"} \subseteq undeleted'
      BY <3>1, <3>2
    <3>4. "credentials" \in folder' => "credentials" \in undeleted'
      BY <3>3
    <3>5. QED
      BY <3>1, <3>2, <3>3, <3>4
  <2>10. CASE UninstallEnrollment
    BY <2>10 DEF UninstallEnrollment
  <2>11. CASE Cleanup
    BY <2>11 DEF Cleanup
  <2>12. CASE UNCHANGED autostartVars
    BY <2>12 DEF autostartVars
  <2>13. QED
    BY <2>1, <2>2, <2>3, <2>4, <2>5, <2>6, <2>7, <2>8, <2>9, <2>10, <2>11, <2>12
    DEF AutostartNext
<1>3. QED
  BY <1>1, <1>2, PTL DEF AutostartSpec

\* An uninstallation that met no agent leaves nothing that runs or starts, and only the
\* files whose removal was refused, for any number of processes and builds
\* (install_windows.go Uninstall, EnsureAutostart; main.go resolveCredentials).
THEOREM UninstallFinal == AutostartSpec => []UninstallHolds
<1>1. AutostartInv => UninstallHolds
  BY DEF AutostartInv, UninstallHolds, Deleted, Removed
<1>2. QED
  BY <1>1, AutostartInvHolds, PTL

\* Even one that did meet agents leaves none that finds credentials, enrolls or touches
\* the task, once those that were past their look at the credentials are gone: neither
\* credentials nor secret are left, unless a removal was refused or one saved them late.
THEOREM LastOnesLeave == AutostartSpec => LastOneOut
<1>1. ASSUME AutostartInv, [AutostartNext]_autostartVars, gone, gone', ~late,
             undeleted \subseteq {"data"}, NoneKnows
      PROVE  NoneKnows' /\ task' = task
  <2> USE <1>1 DEF AutostartInv, Alive, None, NoneKnows, pastRuns
  <2>1. "credentials" \notin folder /\ "enrollment" \notin folder
    BY DEF Removed
  <2>2. ASSUME NEW p \in Procs, Start(p) \/ Enter(p) \/ Resolve(p) \/ Exit(p)
        PROVE  NoneKnows' /\ task' = task
    <3>1. UNCHANGED task
      BY <2>2 DEF Start, Enter, Resolve, Exit
    <3>2. CASE Start(p)
      BY <3>1, <3>2 DEF Start
    <3>3. CASE Ends(p)
      BY <3>1, <3>3 DEF Ends
    <3>4. CASE Enter(p) /\ Goes(p, "locked")
      BY <3>1, <3>4 DEF Goes
    <3>5. QED
      BY <2>1, <2>2, <3>2, <3>3, <3>4 DEF Enter, Resolve, Exit
  <2>3. ASSUME NEW p \in Procs, Enroll(p) \/ ForgetSecret(p) \/ Query(p) \/ Repair(p)
                                  \/ Persist(p) \/ \E build \in Templates : Succeed(p, build)
        PROVE  FALSE
    BY <2>3 DEF Enroll, ForgetSecret, Query, Repair, Persist, Succeed
  <2>4. ASSUME \E build \in Templates : InstallCopy(build) PROVE FALSE
    BY <2>4 DEF InstallCopy
  <2>5. CASE UninstallEnd
    BY <2>5 DEF UninstallEnd
  <2>6. CASE InstallRegister \/ UninstallDelete \/ UninstallFiles \/ UninstallEnrollment
             \/ Cleanup
    BY <2>6 DEF InstallRegister, UninstallDelete, UninstallFiles, UninstallEnrollment,
                Cleanup, Deleted
  <2>7. CASE UNCHANGED autostartVars
    BY <2>7 DEF autostartVars
  <2>8. QED
    BY <2>2, <2>3, <2>4, <2>5, <2>6, <2>7 DEF AutostartNext
<1>2. ASSUME AutostartInv, [AutostartNext]_autostartVars
      PROVE  [gone /\ gone' /\ ~late /\ undeleted \subseteq {"data"} /\ NoneKnows
                => NoneKnows' /\ task' = task]_autostartVars
  BY <1>1, <1>2
<1>3. QED
  BY <1>2, AutostartInvHolds, PTL DEF AutostartSpec, LastOneOut

-----------------------------------------------------------------------------
(* The monitor probe.  Nothing is armed, and no power read, but after a reply; and *)
(* the difference of two wrapped clocks is that of the clocks, if it is less than  *)
(* a turn.                                                                         *)

LEMMA Remainder ==
    ASSUME NEW a \in Int, NEW m \in Int, m > 0
    PROVE  /\ a % m \in 0 .. m - 1
           /\ \E k \in Int : a = m * k + (a % m)
<1>1. a % m \in 0 .. m - 1
  BY SMT
<1>2. a = m * (a \div m) + (a % m)
  BY SMT
<1>3. a \div m \in Int
  BY SMT
<1>4. QED
  BY <1>1, <1>2, <1>3

LEMMA WrappedDifference ==
    ASSUME NEW a \in Int, NEW b \in Int, NEW m \in Int, m > 0, b <= a, a - b < m
    PROVE  ((a % m) - (b % m)) % m = a - b
<1> DEFINE r == a % m
           s == b % m
           t == (r - s) % m
<1>1. r \in 0 .. m - 1 /\ s \in 0 .. m - 1
  BY Remainder
<1>2. PICK j \in Int : a = m * j + r
  BY Remainder
<1>3. PICK k \in Int : b = m * k + s
  BY Remainder
<1>4. r - s \in Int
  BY <1>1
<1>5. t \in 0 .. m - 1 /\ \E l \in Int : r - s = m * l + t
  BY <1>4, Remainder
<1>6. PICK l \in Int : r - s = m * l + t
  BY <1>5
<1> HIDE DEF r, s, t
<1>7. a - b = m * (j - k + l) + t
  BY <1>1, <1>2, <1>3, <1>5, <1>6
<1>8. m * (j - k + l) < m /\ -m < m * (j - k + l)
  <2>1. a - b \in 0 .. m - 1 /\ m * (j - k + l) \in Int
    OBVIOUS
  <2> DEFINE q == m * (j - k + l)
  <2> HIDE DEF q
  <2>2. q < m /\ -m < q
    BY <1>5, <1>7, <2>1 DEF q
  <2>3. QED
    BY <2>2 DEF q
<1>9. j - k + l = 0
  BY <1>8
<1>10. QED
  BY <1>5, <1>7, <1>9 DEF r, s, t

DDCInv ==
    /\ watcher \in {"absent", "asleep", "arming"}
    /\ power = latest
    /\ armed \in BOOLEAN /\ replied \in BOOLEAN
    /\ IF watcher = "arming" THEN replied ELSE armed = replied
    /\ ~replied => ~armed /\ power \notin PowerReply /\ loaded \notin PowerReply
    /\ SilentDisplayCounts /\ PollAgreesWithSample

IdleInv ==
    /\ ticks \in Nat /\ lastInput \in Nat /\ told \in Nat
    /\ told <= lastInput /\ lastInput <= ticks
    /\ asking => dwTime = told % TickMod
    /\ idle.answered \in BOOLEAN
    /\ IdleIsElapsed

ProbeInv == DDCInv /\ IdleInv

\* A reading says "off" only of what has been loaded.
LEMMA ReadingKept ==
    ASSUME DDCInv, NEW monitorCount \in 0 .. MaxDisplays, LoadArmed(monitorCount)
    PROVE  DDCInv'
<1>1. /\ report'.monitors = monitorCount
      /\ report'.sampled = DeriveMonitorOn(monitorCount, -1, loaded, armed)
      /\ report'.polled = MonitorOn(monitorCount, loaded, armed)
      /\ UNCHANGED <<watcher, power, armed, loaded, latest, replied>>
  BY DEF LoadArmed
<1>2. monitorCount \in Nat
  BY ProbeAssumption
<1>3. report'.sampled = report'.polled
  <2> DEFINE off == DDCSaysOff(loaded, armed)
             there == monitorCount > 0
             active == \/ monitorCount < 0 /\ -1 < 0
                       \/ monitorCount # 0 /\ -1 # 0
  <2>1. there <=> active
    BY <1>2
  <2>2. /\ DeriveMonitorOn(monitorCount, -1, loaded, armed) = (~off /\ active)
        /\ MonitorOn(monitorCount, loaded, armed) = (there /\ ~off)
    BY ONLY DEF DeriveMonitorOn, MonitorOn
  <2> HIDE DEF off, there, active
  <2>3. (~off /\ active) = (there /\ ~off)
    BY <2>1
  <2>4. QED
    BY <1>1, <2>2, <2>3
<1>4. ~replied /\ monitorCount > 0 => report'.polled
  <2> SUFFICES ASSUME ~replied, monitorCount > 0 PROVE report'.polled
    OBVIOUS
  <2>1. ~armed /\ loaded \notin 1 .. 5
    BY DEF DDCInv, PowerReply
  <2>2. loaded \notin 2 .. 5
    BY <2>1
  <2>3. ~DDCSaysOff(loaded, armed)
    BY <2>1, <2>2 DEF DDCSaysOff
  <2>4. QED
    BY <1>1, <2>3 DEF MonitorOn
<1>5. QED
  BY <1>1, <1>3, <1>4 DEF DDCInv, SilentDisplayCounts, PollAgreesWithSample

LEMMA DDCStep == ASSUME DDCInv, [DDCNext]_ddcVars PROVE DDCInv'
<1>1. ASSUME NEW displays \in Displays, Probe(displays) PROVE DDCInv'
  BY <1>1 DEF Probe, DDCInv, SilentDisplayCounts, PollAgreesWithSample
<1>2. CASE Arm
  BY <1>2 DEF Arm, DDCInv, SilentDisplayCounts, PollAgreesWithSample
<1>3. CASE LoadPower
  BY <1>3 DEF LoadPower, DDCInv, SilentDisplayCounts, PollAgreesWithSample
<1>4. CASE UNCHANGED ddcVars
  BY <1>4 DEF ddcVars, DDCInv, SilentDisplayCounts, PollAgreesWithSample
<1>5. QED
  BY <1>1, <1>2, <1>3, <1>4, ReadingKept DEF DDCNext

LEMMA IdleStep == ASSUME IdleInv, [IdleNext]_idleVars PROVE IdleInv'
<1>1. CASE PassTick
  BY <1>1 DEF PassTick, IdleInv, IdleIsElapsed
<1>2. CASE Input
  BY <1>2 DEF Input, IdleInv, IdleIsElapsed
<1>3. CASE AskInput
  BY <1>3 DEF AskInput, IdleInv, IdleIsElapsed
<1>4. CASE AskTick
  <2>1. /\ idle'.ms = ((ticks % TickMod) - (told % TickMod)) % TickMod
        /\ idle'.least = ticks - lastInput /\ idle'.most = ticks - told
        /\ idle'.answered = TRUE
        /\ UNCHANGED <<ticks, lastInput, dwTime, told>> /\ asking' = FALSE
    BY <1>4 DEF AskTick, IdleInv
  <2>2. ticks - told < TickMod =>
          ((ticks % TickMod) - (told % TickMod)) % TickMod = ticks - told
    <3>1. /\ TickMod \in Int /\ TickMod > 0 /\ ticks \in Int /\ told \in Int
          /\ told <= ticks
      BY ProbeAssumption DEF IdleInv
    <3>2. QED
      BY <3>1, WrappedDifference
  <2>3. /\ idle'.most < TickMod => idle'.ms = idle'.most
        /\ idle'.most \in Nat /\ idle'.least \in Nat /\ idle'.least <= idle'.most
    BY <2>1, <2>2 DEF IdleInv
  <2>4. IdleIsElapsed'
    BY <2>3 DEF IdleIsElapsed
  <2>5. idle'.answered \in BOOLEAN /\ asking' = FALSE
    BY <2>1, Zenon
  <2>6. /\ ticks' \in Nat /\ lastInput' \in Nat /\ told' \in Nat
        /\ told' <= lastInput' /\ lastInput' <= ticks'
    BY <2>1 DEF IdleInv
  <2>7. QED
    BY <2>4, <2>5, <2>6, Zenon DEF IdleInv
<1>5. CASE InputUnknown
  <2>1. /\ idle'.ms = 0 /\ idle'.most = ticks - lastInput
        /\ UNCHANGED <<ticks, lastInput, asking, dwTime, told>>
    BY <1>5 DEF InputUnknown
  <2>2. ~idle'.answered /\ idle'.answered \in BOOLEAN
    BY <1>5, Zenon DEF InputUnknown
  <2>3. QED
    BY <2>1, <2>2 DEF IdleInv, IdleIsElapsed
<1>6. CASE UNCHANGED idleVars
  BY <1>6 DEF idleVars, IdleInv, IdleIsElapsed
<1>7. QED
  BY <1>1, <1>2, <1>3, <1>4, <1>5, <1>6 DEF IdleNext

LEMMA ProbeInvHolds == ProbeSpec => []ProbeInv
<1>1. DDCInit /\ IdleInit => ProbeInv
  <2>1. ASSUME DDCInit PROVE DDCInv
    <3>1. SilentDisplayCounts /\ PollAgreesWithSample
      BY <2>1 DEF DDCInit, SilentDisplayCounts, PollAgreesWithSample
    <3>2. -3 \notin PowerReply /\ loaded = -3
      BY <2>1 DEF DDCInit, DDCNotSampled, PowerReply
    <3>3. CASE \E displays \in Displays :
                  /\ latest = QueryDDCPower(displays) /\ power = latest
                  /\ armed = (latest \in PowerReply) /\ replied = armed
                  /\ watcher = "asleep"
      <4>1. watcher = "asleep" /\ power = latest /\ armed = replied
        BY <3>3
      <4>2. armed \in BOOLEAN /\ (armed <=> power \in PowerReply)
        <5> DEFINE answered == latest \in PowerReply
        <5>1. armed = answered /\ power = latest
          BY <3>3
        <5>2. answered <=> power \in PowerReply
          BY <5>1
        <5>3. answered \in BOOLEAN
          OBVIOUS
        <5> HIDE DEF answered
        <5>4. QED
          BY <5>1, <5>2, <5>3
      <4>3. armed = replied /\ replied \in BOOLEAN /\ (~replied => ~armed)
        BY <4>1, <4>2
      <4>4. watcher \in {"absent", "asleep", "arming"} /\ watcher # "arming"
        BY <4>1
      <4>5. QED
        BY <3>1, <3>2, <4>1, <4>2, <4>3, <4>4, Zenon DEF DDCInv
    <3>4. CASE /\ watcher = "absent" /\ power = -3 /\ latest = power
               /\ armed = FALSE /\ replied = FALSE
      BY <3>1, <3>2, <3>4 DEF DDCInv
    <3>5. QED
      BY <2>1, <3>3, <3>4 DEF DDCInit, DDCNotSampled
  <2>2. ASSUME IdleInit PROVE IdleInv
    BY <2>2, ProbeAssumption DEF IdleInit, IdleInv, IdleIsElapsed
  <2>3. QED
    BY <2>1, <2>2 DEF ProbeInv
<1>2. ProbeInv /\ [\/ DDCNext /\ UNCHANGED idleVars
                   \/ IdleNext /\ UNCHANGED ddcVars]_probeVars => ProbeInv'
  BY DDCStep, IdleStep DEF ProbeInv, probeVars
<1>3. QED
  BY <1>1, <1>2, PTL DEF ProbeSpec

\* A display that never answered is not held for off, one that said so is not held for
\* on, however the watcher's stores and the readers' loads interleave, and idleness is
\* right across a wrap of the tick count and never overstated (ddc_windows.go read;
\* sampler_windows.go MonitorOn, idleMS; core.go deriveMonitorOn).
THEOREM SamplesTrue == ProbeSpec => []SampleIsTrue
<1>1. DDCInv => SwitchOffIsSeen
  BY DEF DDCInv, SwitchOffIsSeen, DDCSaysOff
<1>2. ProbeInv => SampleIsTrue
  BY <1>1 DEF ProbeInv, DDCInv, IdleInv, SampleIsTrue
<1>3. QED
  BY <1>2, ProbeInvHolds, PTL

-----------------------------------------------------------------------------
(* The log.  What is kept ends with the last line and has no gap; the handle is    *)
(* left on the old generation only where the new one is still empty.               *)

LogFiles == [log : Seq(Nat), old : Seq(Nat) \cup {Absent}]

\* The numbers up to n, without a gap.
Consecutive(s, n) == s \in Seq(Nat) /\ \A i \in 1 .. Len(s) : s[i] = n - Len(s) + i

LEMMA ConsecutiveGrows ==
    ASSUME NEW s, NEW n \in Nat, Consecutive(s, n)
    PROVE  Consecutive(Append(s, n + 1), n + 1) /\ Len(Append(s, n + 1)) = Len(s) + 1
<1>1. /\ s \in Seq(Nat) /\ Len(s) \in Nat
      /\ \A i \in 1 .. Len(s) : s[i] = n - Len(s) + i
  BY LenProperties DEF Consecutive
<1>2. /\ Append(s, n + 1) \in Seq(Nat) /\ Len(Append(s, n + 1)) = Len(s) + 1
      /\ \A i \in 1 .. Len(s) : Append(s, n + 1)[i] = s[i]
      /\ Append(s, n + 1)[Len(s) + 1] = n + 1
  BY <1>1, AppendProperties
<1>3. ASSUME NEW i \in 1 .. Len(s) + 1
      PROVE  Append(s, n + 1)[i] = n + 1 - (Len(s) + 1) + i
  BY <1>1, <1>2
<1>4. QED
  BY <1>2, <1>3 DEF Consecutive

LEMMA ConsecutiveEnd ==
    ASSUME NEW s \in Seq(Nat), NEW t \in Seq(Nat), NEW n \in Nat, Consecutive(s \o t, n)
    PROVE  Consecutive(t, n)
<1>1. Len(s) \in Nat /\ Len(t) \in Nat
  BY LenProperties
<1>2. Len(s \o t) = Len(s) + Len(t)
  BY ConcatProperties
<1>3. ASSUME NEW i \in 1 .. Len(t) PROVE t[i] = n - Len(t) + i
  <2>1. Len(s) + i \in 1 .. Len(s) + Len(t) /\ ~(Len(s) + i <= Len(s)) /\ Len(s) + i - Len(s) = i
    BY <1>1
  <2>2. (s \o t)[Len(s) + i] = t[i]
    BY <2>1, ConcatProperties
  <2>3. (s \o t)[Len(s) + i] = n - (Len(s) + Len(t)) + (Len(s) + i)
    BY <1>2, <2>1 DEF Consecutive
  <2>4. QED
    BY <1>1, <2>2, <2>3
<1>4. QED
  BY <1>3 DEF Consecutive

LinesOf(fs, f) == IF fs[f] = Absent THEN <<>> ELSE fs[f]
Kept(fs) == LinesOf(fs, "old") \o LinesOf(fs, "log")

LEMMA KeptTyped ==
    ASSUME NEW fs \in LogFiles
    PROVE  /\ LinesOf(fs, "log") = fs.log /\ fs.log \in Seq(Nat)
           /\ LinesOf(fs, "old") \in Seq(Nat)
           /\ Kept(fs) = LinesOf(fs, "old") \o fs.log /\ Kept(fs) \in Seq(Nat)
<1>1. fs.log \in Seq(Nat) /\ fs["log"] = fs.log /\ fs["old"] \in Seq(Nat) \cup {Absent}
  BY DEF LogFiles
<1>2. LinesOf(fs, "log") = fs.log
  BY <1>1, LogAssumption DEF LinesOf
<1>3. <<>> \in Seq(Nat)
  BY EmptySeq
<1>4. LinesOf(fs, "old") \in Seq(Nat)
  BY <1>1, <1>3 DEF LinesOf
<1>5. Kept(fs) = LinesOf(fs, "old") \o fs.log
  BY <1>2 DEF Kept
<1>6. QED
  BY <1>1, <1>2, <1>4, <1>5, ConcatProperties

\* What a rotation may leave, with what failed.
Rotated(fs, gs, failed) ==
    \/ gs = fs /\ Len(fs.log) <= MaxLog /\ failed = {}
    \/ gs = [log |-> <<>>, old |-> fs.log] /\ Len(fs.log) > MaxLog /\ failed = {}
    \/ gs = fs /\ failed = {"stat"}
    \/ "rename" \in failed /\ gs \in LogFiles
       /\ ((gs.log = <<>> /\ failed = {"rename"}) \/ "truncate" \in failed)
       /\ gs.old \in {fs.old, Absent}

LEMMA RotationCases ==
    ASSUME NEW fs \in LogFiles, NEW r \in RotateIfLarge(fs)
    PROVE  r.files \in LogFiles /\ Rotated(fs, r.files, r.failed)
<1>1. <<>> \in Seq(Nat) /\ Len(fs.log) \in Nat /\ fs.log \in Seq(Nat)
  BY EmptySeq, LenProperties DEF LogFiles
<1>2. fs = [log |-> fs.log, old |-> fs.old] /\ fs.old \in Seq(Nat) \cup {Absent}
  BY DEF LogFiles
<1>3. \/ r = [files |-> [log |-> fs.log, old |-> fs.old], failed |-> {}] /\ Len(fs.log) <= MaxLog
      \/ r = [files |-> [log |-> <<>>, old |-> fs.log], failed |-> {}] /\ Len(fs.log) > MaxLog
      \/ r = [files |-> [log |-> fs.log, old |-> fs.old], failed |-> {"stat"}]
      \/ \E old \in {fs.old, Absent} :
            \/ r = [files |-> [log |-> <<>>, old |-> old], failed |-> {"rename"}]
            \/ r = [files |-> [log |-> fs.log, old |-> old], failed |-> {"rename", "truncate"}]
  BY <1>1, LogAssumption DEF RotateIfLarge
<1>4. CASE r = [files |-> fs, failed |-> {}] /\ Len(fs.log) <= MaxLog
  BY <1>4 DEF Rotated
<1>5. CASE /\ r = [files |-> [log |-> <<>>, old |-> fs.log], failed |-> {}]
           /\ Len(fs.log) > MaxLog
  <2>1. /\ r.files = [log |-> <<>>, old |-> fs.log] /\ r.failed = {}
        /\ [log |-> <<>>, old |-> fs.log] \in LogFiles
    BY <1>1, <1>5 DEF LogFiles
  <2>2. QED
    BY <1>5, <2>1 DEF Rotated
<1>6. CASE r = [files |-> fs, failed |-> {"stat"}]
  BY <1>6 DEF Rotated
<1>7. ASSUME NEW old \in {fs.old, Absent}, NEW log \in {<<>>, fs.log}, NEW failed,
             r = [files |-> [log |-> log, old |-> old], failed |-> failed],
             "rename" \in failed, (log = <<>> /\ failed = {"rename"}) \/ "truncate" \in failed
      PROVE  r.files \in LogFiles /\ Rotated(fs, r.files, r.failed)
  <2>1. [log |-> log, old |-> old] \in LogFiles
    BY <1>1, <1>2 DEF LogFiles
  <2>2. r.files.log = log /\ r.files.old = old /\ r.failed = failed /\ r.files \in LogFiles
    BY <1>7, <2>1
  <2>3. QED
    BY <1>7, <2>2 DEF Rotated
<1>8. ASSUME NEW old \in {fs.old, Absent},
             r = [files |-> [log |-> <<>>, old |-> old], failed |-> {"rename"}]
      PROVE  r.files \in LogFiles /\ Rotated(fs, r.files, r.failed)
  BY <1>7, <1>8
<1>9. ASSUME NEW old \in {fs.old, Absent},
             r = [files |-> [log |-> fs.log, old |-> old], failed |-> {"rename", "truncate"}]
      PROVE  r.files \in LogFiles /\ Rotated(fs, r.files, r.failed)
  BY <1>7, <1>9
<1>10. QED
  BY <1>2, <1>3, <1>4, <1>5, <1>6, <1>8, <1>9

\* What is kept of n lines.
Whole(fs, n) ==
    Consecutive(Kept(fs), n) /\ (Len(Kept(fs)) = n \/ Len(Kept(fs)) > MaxLog)

LEMMA RotationKeeps ==
    ASSUME NEW fs \in LogFiles, NEW n \in Nat, Whole(fs, n),
           NEW gs, NEW failed, Rotated(fs, gs, failed), "rename" \notin failed
    PROVE  Whole(gs, n)
<1>1. CASE gs = fs
  BY <1>1
<1>2. CASE gs = [log |-> <<>>, old |-> fs.log] /\ Len(fs.log) > MaxLog
  <2>1. /\ fs.log \in Seq(Nat) /\ LinesOf(fs, "old") \in Seq(Nat)
        /\ Kept(fs) = LinesOf(fs, "old") \o fs.log
    BY KeptTyped
  <2>2. Consecutive(fs.log, n)
    BY <2>1, ConsecutiveEnd DEF Whole
  <2>3. gs.old = fs.log /\ gs["old"] = fs.log /\ gs["log"] = <<>>
    BY <1>2
  <2>4. LinesOf(gs, "old") = fs.log
    BY <2>1, <2>3, LogAssumption DEF LinesOf
  <2>5. LinesOf(gs, "log") = <<>>
    BY <2>3 DEF LinesOf
  <2>6. Kept(gs) = fs.log
    BY <2>1, <2>4, <2>5, ConcatEmptySeq DEF Kept
  <2>7. QED
    BY <1>2, <2>2, <2>6 DEF Whole
<1>3. QED
  BY <1>1, <1>2 DEF Rotated

\* A line more, in the file of the handle.
Added(fs, f, n) == [fs EXCEPT ![f] = Append(@, n + 1)]

LEMMA LineAdded ==
    ASSUME NEW fs \in LogFiles, NEW f \in {"log", "old"}, f = "old" => fs.old # Absent,
           NEW n \in Nat
    PROVE  /\ Added(fs, f, n) \in LogFiles
           /\ Added(fs, f, n).log = IF f = "log" THEN Append(fs.log, n + 1) ELSE fs.log
           /\ Added(fs, f, n).old = IF f = "old" THEN Append(fs.old, n + 1) ELSE fs.old
           /\ f = "old" => Added(fs, f, n).old \in Seq(Nat) /\ Added(fs, f, n).old # Absent
           /\ Whole(fs, n) /\ (f = "old" => fs.log = <<>>) => Whole(Added(fs, f, n), n + 1)
<1> DEFINE gs == Added(fs, f, n)
<1>0. gs = [fs EXCEPT ![f] = Append(@, n + 1)]
  BY DEF Added
<1> HIDE DEF gs
<1>1. /\ fs.log \in Seq(Nat) /\ LinesOf(fs, "old") \in Seq(Nat)
      /\ Kept(fs) = LinesOf(fs, "old") \o fs.log /\ Kept(fs) \in Seq(Nat)
  BY KeptTyped
<1>2. n + 1 \in Nat
  OBVIOUS
<1>3. ASSUME Whole(fs, n), Kept(gs) = Append(Kept(fs), n + 1) PROVE Whole(gs, n + 1)
  <2>1. Consecutive(Kept(gs), n + 1) /\ Len(Kept(gs)) = Len(Kept(fs)) + 1
    BY <1>3, ConsecutiveGrows DEF Whole
  <2>2. Len(Kept(fs)) \in Nat
    BY <1>1, LenProperties
  <2>3. QED
    BY <1>3, <2>1, <2>2, LogAssumption DEF Whole
<1>4. CASE f = "log"
  <2>1. gs.log = Append(fs.log, n + 1) /\ gs.old = fs.old /\ gs \in LogFiles
    <3>1. gs = [fs EXCEPT !["log"] = Append(@, n + 1)]
      BY <1>0, <1>4
    <3>2. Append(fs.log, n + 1) \in Seq(Nat)
      BY <1>1, <1>2, AppendProperties
    <3>3. QED
      BY <3>1, <3>2 DEF LogFiles
  <2>2. LinesOf(gs, "old") = LinesOf(fs, "old")
    BY <2>1 DEF LinesOf, LogFiles
  <2>3. Kept(gs) = LinesOf(fs, "old") \o Append(fs.log, n + 1)
    <3>1. Kept(gs) = LinesOf(gs, "old") \o gs.log
      BY <2>1, KeptTyped
    <3>2. QED
      BY <2>1, <2>2, <3>1
  <2>4. Append(fs.log, n + 1) = fs.log \o <<n + 1>> /\ <<n + 1>> \in Seq(Nat)
    <3>1. fs.log \in Seq(Nat)
      BY <1>1
    <3>2. Append(fs.log, n + 1) = fs.log \o <<n + 1>>
      BY <1>2, <3>1, AppendIsConcat
    <3>3. <<n + 1>> \in Seq(Nat)
      BY <1>2
    <3>4. QED
      BY <3>2, <3>3
  <2>5. Kept(gs) = Kept(fs) \o <<n + 1>>
    <3>1. Kept(gs) = LinesOf(fs, "old") \o (fs.log \o <<n + 1>>)
      BY <2>3, <2>4
    <3>2. (LinesOf(fs, "old") \o fs.log) \o <<n + 1>>
            = LinesOf(fs, "old") \o (fs.log \o <<n + 1>>)
      <4> DEFINE a == LinesOf(fs, "old")
                 b == fs.log
                 c == <<n + 1>>
      <4>1. a \in Seq(Nat) /\ b \in Seq(Nat)
        BY <1>1
      <4>2. c \in Seq(Nat)
        BY <2>4
      <4> HIDE DEF a, b, c
      <4>3. (a \o b) \o c = a \o (b \o c)
        <5> DEFINE AllLines == Seq(Nat)
        <5>1. \A x, y, z \in AllLines : (x \o y) \o z = x \o (y \o z)
          BY ConcatAssociative
        <5> HIDE DEF AllLines
        <5>2. a \in AllLines /\ b \in AllLines /\ c \in AllLines
          BY <4>1, <4>2 DEF AllLines
        <5>3. QED
          BY <5>1, <5>2
      <4>4. QED
        BY <4>3 DEF a, b, c
    <3>3. QED
      BY <1>1, <3>1, <3>2
  <2>6. Kept(gs) = Append(Kept(fs), n + 1)
    BY <1>1, <1>2, <2>5, AppendIsConcat
  <2>7. QED
    BY <1>3, <1>4, <2>1, <2>6 DEF gs
<1>5. CASE f = "old"
  <2>1. fs.old \in Seq(Nat) /\ Append(fs.old, n + 1) \in Seq(Nat)
    BY <1>2, <1>5, AppendProperties DEF LogFiles
  <2>2. gs.log = fs.log /\ gs.old = Append(fs.old, n + 1) /\ gs \in LogFiles
    <3>1. gs = [fs EXCEPT !["old"] = Append(@, n + 1)]
      BY <1>0, <1>5
    <3>2. QED
      BY <3>1, <2>1 DEF LogFiles
  <2>3. gs.old # Absent /\ fs.old # Absent
    BY <2>1, <2>2, LogAssumption
  <2>4. LinesOf(gs, "old") = Append(fs.old, n + 1) /\ LinesOf(fs, "old") = fs.old
    BY <2>2, <2>3 DEF LinesOf, LogFiles
  <2>5. ASSUME fs.log = <<>> PROVE Kept(gs) = Append(Kept(fs), n + 1)
    <3>1. Kept(gs) = Append(fs.old, n + 1) \o <<>> /\ Kept(fs) = fs.old \o <<>>
      BY <1>1, <2>2, <2>4, <2>5, KeptTyped
    <3>2. QED
      BY <2>1, <3>1, ConcatEmptySeq
  <2>6. QED
    BY <1>3, <1>5, <2>1, <2>2, <2>3, <2>5 DEF gs
<1>6. QED
  BY <1>4, <1>5 DEF gs

-----------------------------------------------------------------------------
(* The log.  Its lines are whole as long as only harmless calls failed; the handle  *)
(* is on the old generation only while the log is empty, so nothing is out of turn. *)

Unharmed(failed) == "rename" \notin failed /\ ~({"stat", "open"} \subseteq failed)
Sound(failed) == failed \cap {"stat", "open", "truncate"} = {}

LogTypes ==
    /\ files \in LogFiles
    /\ sink \in {"log", "old", "closed", "none"}
    /\ sink = "old" => files.old # Absent
    /\ unchecked \in 0 .. CheckEvery - 1
    /\ up \in BOOLEAN /\ logged \in Nat

KeptInv ==
    Unharmed(failures) => Whole(files, logged) /\ (sink = "old" => files.log = <<>>)

BoundInv ==
    Sound(failures) =>
        /\ up => sink = "log" /\ Len(files.log) <= MaxLog + unchecked
        /\ ~up => sink = "none" /\ Len(files.log) <= MaxLog + CheckEvery
        /\ Len(LinesOf(files, "old")) <= MaxLog + CheckEvery

LogInv == LogTypes /\ KeptInv /\ BoundInv

LEMMA LogInitially == LogInit => LogInv
<1> SUFFICES ASSUME LogInit PROVE LogInv
  OBVIOUS
<1>1. <<>> \in Seq(Nat) /\ Len(<<>>) = 0
  BY EmptySeq
<1>2. files = [log |-> <<>>, old |-> Absent] /\ files \in LogFiles
  BY <1>1 DEF LogInit, LogFiles
<1>3. LinesOf(files, "old") = <<>> /\ Kept(files) = <<>>
  <2>1. LinesOf(files, "old") = <<>> /\ files.log = <<>>
    BY <1>2 DEF LinesOf
  <2>2. QED
    BY <1>1, <1>2, <2>1, KeptTyped, ConcatEmptySeq
<1>4. LogTypes
  <2>1. 0 \in 0 .. CheckEvery - 1 /\ 0 \in Nat
    BY LogAssumption
  <2>2. QED
    BY <1>2, <2>1 DEF LogInit, LogTypes
<1>5. KeptInv
  <2>1. Whole(files, logged)
    BY <1>1, <1>3 DEF Whole, Consecutive, LogInit
  <2>2. QED
    BY <2>1 DEF KeptInv, LogInit
<1>6. BoundInv
  BY <1>1, <1>2, <1>3, LogAssumption DEF BoundInv, LogInit
<1>7. QED
  BY <1>4, <1>5, <1>6 DEF LogInv

\* A rotation bounds the log it leaves, unless a call was refused.
LEMMA RotationBounds ==
    ASSUME NEW fs \in LogFiles, NEW gs, NEW failed, Rotated(fs, gs, failed),
           gs \in LogFiles, Sound(failed),
           Len(fs.log) <= MaxLog + CheckEvery, Len(LinesOf(fs, "old")) <= MaxLog + CheckEvery
    PROVE  Len(gs.log) <= MaxLog /\ Len(LinesOf(gs, "old")) <= MaxLog + CheckEvery
<1>1. <<>> \in Seq(Nat) /\ Len(<<>>) = 0 /\ 0 <= MaxLog /\ 0 <= MaxLog + CheckEvery
  BY EmptySeq, LogAssumption
<1>2. CASE gs = fs /\ Len(fs.log) <= MaxLog
  BY <1>2
<1>3. CASE gs = [log |-> <<>>, old |-> fs.log]
  <2>1. gs.log = <<>> /\ gs["old"] = fs.log
    BY <1>3
  <2>2. LinesOf(gs, "old") \in {<<>>, fs.log}
    BY <2>1 DEF LinesOf
  <2>3. QED
    BY <1>1, <2>1, <2>2
<1>4. CASE failed = {"stat"}
  BY <1>4 DEF Sound
<1>5. CASE gs.log = <<>> /\ gs.old \in {fs.old, Absent}
  <2>1. LinesOf(gs, "old") \in {<<>>, LinesOf(fs, "old")}
    BY <1>5 DEF LinesOf, LogFiles
  <2>2. QED
    BY <1>1, <1>5, <2>1
<1>6. CASE "truncate" \in failed
  BY <1>6 DEF Sound
<1>7. QED
  BY <1>2, <1>3, <1>4, <1>5, <1>6 DEF Rotated

LEMMA LogStarts == ASSUME LogInv, LogStart PROVE LogInv'
<1>1. PICK r \in RotateIfLarge(files), opens \in BOOLEAN :
        /\ files' = r.files
        /\ sink' = IF opens THEN "log" ELSE "none"
        /\ failures' = failures \cup r.failed \cup (IF opens THEN {} ELSE {"open"})
  BY DEF LogStart
<1>2. ~up /\ up' = TRUE /\ unchecked' = 0 /\ logged' = logged
  BY DEF LogStart
<1>3. r.files \in LogFiles /\ Rotated(files, r.files, r.failed)
  BY RotationCases DEF LogInv, LogTypes
<1>4. failures \subseteq failures' /\ r.failed \subseteq failures' /\ (~opens => "open" \in failures')
  BY <1>1
<1>5. LogTypes'
  BY <1>1, <1>2, <1>3, LogAssumption DEF LogInv, LogTypes
<1>6. KeptInv'
  <2> SUFFICES ASSUME Unharmed(failures') PROVE Whole(files', logged') /\ sink' # "old"
    BY DEF KeptInv
  <2>1. Unharmed(failures) /\ "rename" \notin r.failed
    BY <1>4 DEF Unharmed
  <2>2. Whole(files, logged) /\ logged \in Nat /\ files \in LogFiles
    BY <2>1 DEF LogInv, KeptInv, LogTypes
  <2>3. Whole(files', logged')
    BY <1>1, <1>2, <1>3, <2>1, <2>2, RotationKeeps
  <2>4. QED
    BY <1>1, <2>3
<1>7. BoundInv'
  <2> SUFFICES ASSUME Sound(failures')
               PROVE  /\ sink' = "log" /\ Len(files'.log) <= MaxLog
                      /\ Len(LinesOf(files', "old")) <= MaxLog + CheckEvery
    <3>1. Len(files'.log) <= MaxLog => Len(files'.log) <= MaxLog + 0
      BY LogAssumption
    <3>2. QED
      BY <1>2, <3>1 DEF BoundInv
  <2>1. Sound(failures) /\ Sound(r.failed) /\ opens
    BY <1>4 DEF Sound
  <2>2. /\ Len(files.log) <= MaxLog + CheckEvery /\ files \in LogFiles
        /\ Len(LinesOf(files, "old")) <= MaxLog + CheckEvery
    BY <1>2, <2>1 DEF LogInv, BoundInv, LogTypes
  <2>3. QED
    BY <1>1, <1>3, <2>1, <2>2, RotationBounds
<1>8. QED
  BY <1>5, <1>6, <1>7 DEF LogInv

\* Write's files with the line in them, and whether it looks at the size (logfile.go Write).
Grown == [files EXCEPT ![sink] = Append(@, logged + 1)]
Due == unchecked + 1 >= CheckEvery

LEMMA GrownFiles ==
    ASSUME LogInv, sink \in {"log", "old"}
    PROVE  /\ Grown \in LogFiles
           /\ Grown[sink] = IF sink = "log" THEN Grown.log ELSE Grown.old
           /\ sink = "old" => Grown.old # Absent /\ Grown.log = files.log
           /\ Unharmed(failures) =>
                Whole(Grown, logged + 1) /\ (sink = "old" => Grown.log = <<>>)
           /\ Sound(failures) =>
                /\ up /\ sink = "log" /\ Len(Grown.log) <= MaxLog + (unchecked + 1)
                /\ Len(Grown.log) <= MaxLog + CheckEvery
                /\ Len(LinesOf(Grown, "old")) <= MaxLog + CheckEvery
<1>1. /\ Grown \in LogFiles
      /\ Grown.log = IF sink = "log" THEN Append(files.log, logged + 1) ELSE files.log
      /\ Grown.old = IF sink = "old" THEN Append(files.old, logged + 1) ELSE files.old
      /\ sink = "old" => Grown.old \in Seq(Nat) /\ Grown.old # Absent
      /\ Whole(files, logged) /\ (sink = "old" => files.log = <<>>) => Whole(Grown, logged + 1)
  <2>1. files \in LogFiles /\ logged \in Nat /\ (sink = "old" => files.old # Absent)
    BY DEF LogInv, LogTypes
  <2>2. Grown = Added(files, sink, logged)
    BY DEF Grown, Added
  <2>3. CASE sink = "log"
    <3>1. /\ Grown \in LogFiles /\ Grown.log = Append(files.log, logged + 1)
          /\ Grown.old = files.old
          /\ Whole(files, logged) => Whole(Grown, logged + 1)
      BY <2>1, <2>2, <2>3, LineAdded
    <3>2. QED
      BY <2>3, <3>1
  <2>4. CASE sink = "old"
    <3>1. /\ Grown \in LogFiles /\ Grown.log = files.log
          /\ Grown.old = Append(files.old, logged + 1)
          /\ Grown.old \in Seq(Nat) /\ Grown.old # Absent
          /\ Whole(files, logged) /\ files.log = <<>> => Whole(Grown, logged + 1)
      BY <2>1, <2>2, <2>4, LineAdded
    <3>2. QED
      BY <2>4, <3>1
  <2>5. QED
    BY <2>3, <2>4
<1>2. Grown[sink] = IF sink = "log" THEN Grown.log ELSE Grown.old
  BY <1>1 DEF LogFiles
<1>3. Unharmed(failures) =>
        Whole(Grown, logged + 1) /\ (sink = "old" => Grown.log = <<>>)
  BY <1>1 DEF LogInv, KeptInv
<1>4. ASSUME Sound(failures)
      PROVE  /\ up /\ sink = "log" /\ Len(Grown.log) <= MaxLog + (unchecked + 1)
             /\ Len(Grown.log) <= MaxLog + CheckEvery
             /\ Len(LinesOf(Grown, "old")) <= MaxLog + CheckEvery
  <2>1. /\ up /\ sink = "log" /\ Len(files.log) <= MaxLog + unchecked
        /\ Len(LinesOf(files, "old")) <= MaxLog + CheckEvery
    BY <1>4 DEF LogInv, LogTypes, BoundInv
  <2>2. files.log \in Seq(Nat) /\ logged + 1 \in Nat /\ unchecked \in 0 .. CheckEvery - 1
    BY DEF LogInv, LogTypes, LogFiles
  <2>3. Len(Grown.log) = Len(files.log) + 1 /\ Len(files.log) \in Nat
    BY <1>1, <2>1, <2>2, AppendProperties, LenProperties
  <2>4. LinesOf(Grown, "old") = LinesOf(files, "old")
    <3>1. Grown["old"] = files["old"]
      BY <1>1, <2>1 DEF LogInv, LogTypes, LogFiles
    <3>2. QED
      BY <3>1 DEF LinesOf
  <2>5. QED
    BY <2>1, <2>2, <2>3, <2>4, LogAssumption
<1>5. QED
  BY <1>1, <1>2, <1>3, <1>4

LEMMA ReopenKeeps ==
    ASSUME LogInv, sink \in {"log", "old"}, Len(Grown[sink]) > MaxLog, Reopen(Grown),
           logged' = logged + 1, unchecked' = 0, up' = up
    PROVE  LogInv'
<1>1. PICK r \in RotateIfLarge(Grown) :
        /\ files' = r.files
        /\ \/ sink' = "log" /\ failures' = failures \cup r.failed
           \/ /\ failures' = failures \cup r.failed \cup {"open"}
              /\ \/ sink' = "old" /\ r.files.old # Absent
                 \/ sink' = "closed"
  BY DEF Reopen
<1>2. r.files \in LogFiles /\ Rotated(Grown, r.files, r.failed) /\ Grown \in LogFiles
  BY GrownFiles, RotationCases
<1>3. /\ failures \subseteq failures' /\ r.failed \subseteq failures'
      /\ sink' # "log" => "open" \in failures'
  BY <1>1
<1>4. LogTypes'
  <2>1. logged + 1 \in Nat /\ 0 \in 0 .. CheckEvery - 1
    BY LogAssumption DEF LogInv, LogTypes
  <2>2. sink' \in {"log", "old", "closed", "none"} /\ (sink' = "old" => files'.old # Absent)
    BY <1>1
  <2>3. QED
    BY <1>1, <1>2, <2>1, <2>2 DEF LogInv, LogTypes
<1>5. KeptInv'
  <2> SUFFICES ASSUME Unharmed(failures')
               PROVE  Whole(files', logged') /\ (sink' = "old" => files'.log = <<>>)
    BY DEF KeptInv
  <2>1. Unharmed(failures) /\ "rename" \notin r.failed /\ (sink' = "old" => "stat" \notin r.failed)
    BY <1>3 DEF Unharmed
  <2>2. logged + 1 \in Nat
    BY DEF LogInv, LogTypes
  <2>3. Whole(r.files, logged + 1)
    BY <1>2, <2>1, <2>2, GrownFiles, RotationKeeps
  <2>4. ASSUME sink' = "old" PROVE r.files.log = <<>>
    <3>1. \/ r.files = Grown /\ Len(Grown.log) <= MaxLog
          \/ r.files = [log |-> <<>>, old |-> Grown.log]
      BY <1>2, <2>1, <2>4 DEF Rotated
    <3>2. ASSUME Len(Grown.log) <= MaxLog PROVE Grown.log = <<>>
      <4>1. sink # "log"
        <5>1. Len(Grown.log) \in Int /\ MaxLog \in Int
          BY <1>2, LenProperties, LogAssumption DEF LogFiles
        <5>2. QED
          BY <3>2, <5>1, GrownFiles
      <4>2. QED
        BY <2>1, <4>1, GrownFiles
    <3>3. QED
      BY <3>1, <3>2
  <2>5. QED
    BY <1>1, <2>3, <2>4
<1>6. BoundInv'
  <2> SUFFICES ASSUME Sound(failures')
               PROVE  /\ up /\ sink' = "log" /\ Len(files'.log) <= MaxLog
                      /\ Len(LinesOf(files', "old")) <= MaxLog + CheckEvery
    <3>1. Len(files'.log) <= MaxLog => Len(files'.log) <= MaxLog + 0
      BY LogAssumption
    <3>2. QED
      BY <3>1 DEF BoundInv
  <2>1. Sound(failures) /\ Sound(r.failed) /\ sink' = "log"
    BY <1>3 DEF Sound
  <2>2. QED
    BY <1>1, <1>2, <2>1, GrownFiles, RotationBounds
<1>7. QED
  BY <1>4, <1>5, <1>6 DEF LogInv

LEMMA LogWrites == ASSUME LogInv, Write PROVE LogInv'
<1>1. sink \in {"log", "old"}
  BY DEF Write, LogInv, LogTypes, LogFiles
<1>2. /\ logged' = logged + 1 /\ up' = up
      /\ unchecked' = IF Due THEN 0 ELSE unchecked + 1
      /\ \/ /\ ~Due \/ Len(Grown[sink]) <= MaxLog
            /\ files' = Grown /\ UNCHANGED <<sink, failures>>
         \/ /\ Due
            /\ files' = Grown /\ failures' = failures \cup {"stat"} /\ UNCHANGED sink
         \/ Due /\ Len(Grown[sink]) > MaxLog /\ Reopen(Grown)
  BY DEF Write, Grown, Due
<1>3. ASSUME files' = Grown, sink' = sink, failures \subseteq failures',
             Sound(failures') => failures' = failures /\ (~Due \/ Len(Grown[sink]) <= MaxLog)
      PROVE  LogInv'
  <2>1. LogTypes'
    <3>1. logged + 1 \in Nat /\ unchecked' \in 0 .. CheckEvery - 1
      BY <1>2, LogAssumption DEF LogInv, LogTypes, Due
    <3>2. QED
      BY <1>1, <1>2, <1>3, <3>1, GrownFiles DEF LogInv, LogTypes
  <2>2. KeptInv'
    <3>1. Unharmed(failures') => Unharmed(failures)
      BY <1>3 DEF Unharmed
    <3>2. QED
      BY <1>1, <1>2, <1>3, <3>1, GrownFiles DEF KeptInv
  <2>3. BoundInv'
    <3> SUFFICES ASSUME Sound(failures')
                 PROVE  /\ up /\ sink = "log" /\ Len(Grown.log) <= MaxLog + unchecked'
                        /\ Len(LinesOf(Grown, "old")) <= MaxLog + CheckEvery
      BY <1>2, <1>3 DEF BoundInv
    <3>1. /\ up /\ sink = "log" /\ Len(Grown.log) <= MaxLog + (unchecked + 1)
          /\ Len(LinesOf(Grown, "old")) <= MaxLog + CheckEvery
          /\ Grown[sink] = Grown.log
      BY <1>1, <1>3, GrownFiles
    <3>2. CASE Due
      <4>1. Len(Grown.log) <= MaxLog
        BY <1>3, <3>1, <3>2
      <4>2. QED
        BY <1>2, <3>1, <3>2, <4>1, LogAssumption
    <3>3. CASE ~Due
      BY <1>2, <3>1, <3>3
    <3>4. QED
      BY <3>2, <3>3
  <2>4. QED
    BY <2>1, <2>2, <2>3 DEF LogInv
<1>4. CASE /\ ~Due \/ Len(Grown[sink]) <= MaxLog
           /\ files' = Grown /\ UNCHANGED <<sink, failures>>
  BY <1>3, <1>4
<1>5. CASE files' = Grown /\ failures' = failures \cup {"stat"} /\ UNCHANGED sink
  <2>1. failures \subseteq failures' /\ ~Sound(failures')
    BY <1>5 DEF Sound
  <2>2. files' = Grown /\ sink' = sink
    BY <1>5
  <2>3. Sound(failures') => failures' = failures /\ (~Due \/ Len(Grown[sink]) <= MaxLog)
    BY <2>1
  <2>4. QED
    BY <1>3, <2>1, <2>2, <2>3
<1>6. CASE Due /\ Len(Grown[sink]) > MaxLog /\ Reopen(Grown)
  BY <1>1, <1>2, <1>6, ReopenKeeps
<1>7. QED
  BY <1>2, <1>4, <1>5, <1>6

LEMMA LogInvHolds == LogSpec => []LogInv
<1>1. LogInv /\ [LogNext]_logVars => LogInv'
  <2> SUFFICES ASSUME LogInv, [LogNext]_logVars PROVE LogInv'
    OBVIOUS
  <2>1. CASE LogEnd
    <3>1. /\ up /\ up' = FALSE /\ sink' = "none" /\ unchecked' = 0
          /\ UNCHANGED <<files, logged, failures>>
      BY <2>1 DEF LogEnd
    <3>2. LogTypes'
      <4>1. 0 \in 0 .. CheckEvery - 1
        BY LogAssumption
      <4>2. QED
        BY <3>1, <4>1 DEF LogInv, LogTypes
    <3>3. KeptInv'
      BY <3>1 DEF LogInv, KeptInv
    <3>4. BoundInv'
      <4>1. unchecked \in 0 .. CheckEvery - 1 /\ files.log \in Seq(Nat)
        BY DEF LogInv, LogTypes, LogFiles
      <4>2. Len(files.log) \in Nat
        BY <4>1, LenProperties
      <4>3. Len(files.log) <= MaxLog + unchecked => Len(files.log) <= MaxLog + CheckEvery
        BY <4>1, <4>2, LogAssumption
      <4>4. QED
        BY <3>1, <4>3 DEF LogInv, BoundInv
    <3>5. QED
      BY <3>2, <3>3, <3>4 DEF LogInv
  <2>2. CASE UNCHANGED logVars
    BY <2>2 DEF logVars, LogInv, LogTypes, KeptInv, BoundInv
  <2>3. QED
    BY <2>1, <2>2, LogStarts, LogWrites DEF LogNext
<1>2. QED
  BY <1>1, LogInitially, PTL DEF LogSpec

\* The last lines stay, in order and without a gap, and the log stays within its size,
\* for any limits, number of restarts and refused calls (logfile.go rotateIfLarge, Write).
THEOREM LogKept == LogSpec => []LogIsKept
<1>1. ASSUME LogInv PROVE RecentIsKept
  <2>1. Lines("old") \o Lines("log") = Kept(files)
    BY DEF Lines, Kept, LinesOf
  <2> DEFINE kept == Kept(files)
  <2>2. ASSUME Consecutive(kept, logged)
        PROVE  kept = [i \in 1 .. Len(kept) |-> logged - Len(kept) + i]
    <3>1. kept \in [1 .. Len(kept) -> Nat]
      BY <2>2, LenProperties DEF Consecutive
    <3>2. QED
      BY <2>2, <3>1 DEF Consecutive
  <2> HIDE DEF kept
  <2>3. QED
    BY <1>1, <2>1, <2>2 DEF LogInv, KeptInv, Unharmed, Whole, RecentIsKept, kept
<1>2. ASSUME LogInv PROVE LogIsBounded
  <2> SUFFICES ASSUME Sound(failures), NEW f \in DOMAIN files
               PROVE  Len(Lines(f)) <= MaxLog + CheckEvery
    BY DEF LogIsBounded, Sound
  <2>1. f \in {"log", "old"} /\ files \in LogFiles /\ files["log"] = files.log
    BY <1>2 DEF LogInv, LogTypes, LogFiles
  <2>2. Lines("old") = LinesOf(files, "old") /\ Lines("log") = files.log
    BY <2>1, KeptTyped DEF Lines, LinesOf
  <2>3. unchecked \in 0 .. CheckEvery - 1 /\ Len(files.log) \in Nat
    BY <1>2, LenProperties DEF LogInv, LogTypes, LogFiles
  <2>4. Len(files.log) <= MaxLog + CheckEvery /\ Len(LinesOf(files, "old")) <= MaxLog + CheckEvery
    BY <1>2, <2>3, LogAssumption DEF LogInv, LogTypes, BoundInv
  <2>5. QED
    BY <2>1, <2>2, <2>4
<1>3. QED
  BY <1>1, <1>2, LogInvHolds, PTL DEF LogIsKept

-----------------------------------------------------------------------------
(* The dashboard's panels.  Whatever a query groups the rows of a window by, its  *)
(* groups add up to the window, and each panel's window is cut to whole days the  *)
(* same way.                                                                      *)

\* GROUP BY: how many of S fall to each d.
Shares(S, part, D) == [d \in D |-> Cardinality({r \in S : part[r] = d})]

Parted(S, part, D) == IsFiniteSet(S) /\ IsFiniteSet(D) /\ \A r \in S : part[r] \in D

IsSum(g, f, D) ==
    g = [s \in SUBSET D |-> IF s = {} THEN 0
                            ELSE f[CHOOSE x \in s : TRUE] + g[s \ {CHOOSE x \in s : TRUE}]]

SumOf(f, D) == CHOOSE g : IsSum(g, f, D)

\* Those that fall to one of some ds.
Falling(S, part, s) == {r \in S : part[r] \in s}

LEMMA TotalIsSum ==
    ASSUME NEW f
    PROVE  Total(f) = SumOf(f, DOMAIN f)[DOMAIN f]
BY DEF Total, FoldFunction, FoldFunctionOnSet, MapThenFoldSet, SumOf, IsSum

\* One group more.
LEMMA FallingNext ==
    ASSUME NEW S, NEW part, NEW D, Parted(S, part, D), NEW s \in SUBSET D, NEW x \in s
    PROVE  /\ s \ {x} \in SUBSET D
           /\ Cardinality(Falling(S, part, s))
                  = Shares(S, part, D)[x] + Cardinality(Falling(S, part, s \ {x}))
<1> DEFINE rest == Falling(S, part, s \ {x})
           one == {r \in S : part[r] = x}
<1>1. rest \in SUBSET S /\ one \in SUBSET S /\ IsFiniteSet(S)
  BY DEF Parted, Falling
<1>2. Falling(S, part, s) = one \cup rest /\ one \cap rest = {}
  BY DEF Falling
<1>3. Shares(S, part, D)[x] = Cardinality(one)
  BY DEF Shares
<1> HIDE DEF rest, one
<1>4. /\ IsFiniteSet(rest) /\ IsFiniteSet(one)
      /\ Cardinality(rest) \in Nat /\ Cardinality(one) \in Nat
  BY <1>1, FS_Subset, FS_CardinalityType
<1>5. Cardinality(one \cup rest) = Cardinality(one) + Cardinality(rest)
  <2>1. Cardinality(one \cup rest)
            = Cardinality(one) + Cardinality(rest) - Cardinality(one \cap rest)
    BY <1>4, FS_Union
  <2>2. Cardinality(one \cap rest) = 0
    BY <1>2, FS_EmptySet
  <2>3. QED
    BY <1>4, <2>1, <2>2
<1>6. QED
  BY <1>2, <1>3, <1>5 DEF rest

\* The groups of a query add up to what it groups.
LEMMA SharesAddUp ==
    ASSUME NEW S, NEW part, NEW D, Parted(S, part, D)
    PROVE  Total(Shares(S, part, D)) = Cardinality(S)
<1> DEFINE f == Shares(S, part, D)
           goal == [s \in SUBSET D |-> Cardinality(Falling(S, part, s))]
           g == SumOf(f, D)
           First(s) == CHOOSE x \in s : TRUE
<1>1. DOMAIN f = D
  BY DEF Shares
<1>2. Cardinality(Falling(S, part, {})) = 0
  <2>1. Falling(S, part, {}) = {}
    BY DEF Falling
  <2>2. QED
    BY <2>1, FS_EmptySet
<1>3. Falling(S, part, D) = S
  BY DEF Falling, Parted
<1>4. Total(f) = g[D]
  BY <1>1, TotalIsSum
<1> HIDE DEF f
<1>5. ASSUME NEW s \in SUBSET D, s # {}
      PROVE  /\ First(s) \in s /\ s \ {First(s)} \in SUBSET D
             /\ Cardinality(Falling(S, part, s))
                    = f[First(s)] + Cardinality(Falling(S, part, s \ {First(s)}))
  <2>1. First(s) \in s
    BY <1>5
  <2> HIDE DEF First
  <2>2. QED
    BY <2>1, FallingNext DEF f
<1>6. IsSum(goal, f, D)
  BY <1>2, <1>5 DEF IsSum
<1>7. IsSum(g, f, D)
  BY <1>6 DEF SumOf
<1>8. \A s \in SUBSET D : g[s] = IF s = {} THEN 0 ELSE f[First(s)] + g[s \ {First(s)}]
  <2> HIDE DEF g
  <2>1. g = [s \in SUBSET D |-> IF s = {} THEN 0 ELSE f[First(s)] + g[s \ {First(s)}]]
    BY <1>7 DEF IsSum
  <2> HIDE DEF First
  <2>2. QED
    BY <2>1
<1> HIDE DEF g, First
<1>9. SUFFICES ASSUME NEW odd \in SUBSET D, g[odd] # Cardinality(Falling(S, part, odd))
               PROVE  FALSE
  <2>1. D \in SUBSET D
    OBVIOUS
  <2>2. QED
    BY <1>3, <1>4, <2>1 DEF f
<1> DEFINE wrong == {s \in SUBSET D : g[s] # Cardinality(Falling(S, part, s))}
           sizes == {Cardinality(s) : s \in wrong}
<1>10. \A s \in SUBSET D : IsFiniteSet(s) /\ Cardinality(s) \in Nat
  BY FS_Subset, FS_CardinalityType DEF Parted
<1>11. sizes \in SUBSET Nat /\ sizes # {}
  BY <1>9, <1>10
<1>12. PICK least \in sizes : \A k \in sizes : least <= k
  BY <1>11, LeastNat
<1>13. PICK s \in wrong : Cardinality(s) = least
  BY <1>12
<1>14. s # {} /\ s \in SUBSET D
  BY <1>2, <1>8, <1>13
<1>15. First(s) \in s /\ s \ {First(s)} \in SUBSET D
  BY <1>5, <1>14
<1>16. Cardinality(s \ {First(s)}) = Cardinality(s) - 1
  BY <1>10, <1>14, <1>15, FS_RemoveElement
<1>17. s \ {First(s)} \notin wrong
  <2>1. Cardinality(s) \in Nat /\ Cardinality(s \ {First(s)}) \in Nat
    BY <1>10, <1>14, <1>15
  <2>2. QED
    BY <1>12, <1>13, <1>16, <2>1
<1>18. g[s \ {First(s)}] = Cardinality(Falling(S, part, s \ {First(s)}))
  BY <1>15, <1>17
<1>19. QED
  BY <1>5, <1>8, <1>13, <1>14, <1>18

LEMMA FiniteImage ==
    ASSUME NEW S, IsFiniteSet(S), NEW part, part = [r \in S |-> part[r]]
    PROVE  IsFiniteSet({part[r] : r \in S})
<1> DEFINE T == {part[r] : r \in S}
<1>1. part \in Surjection(S, T)
  BY DEF Surjection
<1>2. QED
  BY <1>1, FS_Surjection

-----------------------------------------------------------------------------
(* Days and hours. *)

LEMMA Division ==
    ASSUME NEW m \in Nat \ {0}, NEW t \in Int, NEW d \in Int
    PROVE  /\ t \div m \in Int
           /\ t \div m = d <=> d * m <= t /\ t < d * m + m
<1> DEFINE q == t \div m
<1>1. q \in Int /\ q * m <= t /\ t < q * m + m
  OBVIOUS
<1> HIDE DEF q
<1>2. ASSUME NEW a \in Int, NEW b \in Int, a < b PROVE a * m + m <= b * m
  <2>1. b - a - 1 \in Nat
    BY <1>2
  <2>2. (b - a - 1) * m >= 0
    BY <2>1
  <2>3. (b - a - 1) * m = b * m - a * m - m
    OBVIOUS
  <2>4. QED
    BY <2>2, <2>3
<1>3. ASSUME d * m <= t, t < d * m + m PROVE q = d
  <2>1. ~(q < d)
    <3>1. q < d => q * m + m <= d * m
      BY <1>1, <1>2
    <3>2. q * m \in Int /\ d * m \in Int
      BY <1>1
    <3>3. QED
      BY <1>1, <1>3, <3>1, <3>2
  <2>2. ~(d < q)
    <3>1. d < q => d * m + m <= q * m
      BY <1>1, <1>2
    <3>2. q * m \in Int /\ d * m \in Int
      BY <1>1
    <3>3. QED
      BY <1>1, <1>3, <3>1, <3>2
  <2>3. QED
    BY <1>1, <2>1, <2>2
<1>4. QED
  BY <1>1, <1>3 DEF q

LEMMA DayLength == DayLen \in Nat \ {0} /\ HourLen \in Nat \ {0} /\ DayHours \in Nat \ {0}
<1>1. HourLen \in Nat \ {0} /\ DayHours \in Nat \ {0}
  BY QueryAssumption
<1>2. \A a, b \in Nat \ {0} : a * b \in Nat \ {0}
  OBVIOUS
<1>3. QED
  BY <1>1, <1>2 DEF DayLen

\* A day is what lies between its start and the next day's.
LEMMA DaysAre ==
    ASSUME NEW t \in Int, NEW d \in Int
    PROVE  /\ DayUTC(t) \in Int /\ DayStart(d) \in Int
           /\ DayUTC(t) = d <=> DayStart(d) <= t /\ t < DayStart(d) + DayLen
BY DayLength, Division DEF DayUTC, DayStart

LEMMA DaysInOrder ==
    ASSUME NEW a \in Int, NEW b \in Int
    PROVE  /\ a <= b => DayStart(a) <= DayStart(b) /\ DayUTC(a) <= DayUTC(b)
           /\ a < b => DayStart(a) + DayLen <= DayStart(b)
<1>1. ASSUME NEW c \in Int, NEW d \in Int, c < d PROVE DayStart(c) + DayLen <= DayStart(d)
  <2>1. d - c - 1 \in Nat /\ DayLen \in Nat
    BY <1>1, DayLength
  <2>2. (d - c - 1) * DayLen >= 0
    BY <2>1
  <2>3. (d - c - 1) * DayLen = d * DayLen - c * DayLen - DayLen
    BY <2>1
  <2>4. d * DayLen \in Int /\ c * DayLen \in Int
    BY <2>1
  <2>5. QED
    BY <2>1, <2>2, <2>3, <2>4 DEF DayStart
<1>2. a <= b => DayStart(a) <= DayStart(b)
  <2>1. DayStart(a) \in Int /\ DayStart(b) \in Int /\ DayLen \in Nat
    BY DaysAre, DayLength
  <2>2. CASE a = b
    BY <2>1, <2>2
  <2>3. CASE a < b
    BY <1>1, <2>1, <2>3
  <2>4. QED
    BY <2>2, <2>3
<1>3. a <= b => DayUTC(a) <= DayUTC(b)
  <2> SUFFICES ASSUME a <= b, DayUTC(b) < DayUTC(a) PROVE FALSE
    BY DaysAre
  <2> DEFINE c == DayUTC(a)
             d == DayUTC(b)
  <2>1. c \in Int /\ d \in Int
    BY DaysAre
  <2>2. DayStart(c) <= a /\ b < DayStart(d) + DayLen
    BY <2>1, DaysAre
  <2>3. DayStart(c) \in Int /\ DayStart(d) \in Int /\ DayLen \in Nat
    BY <2>1, DaysAre, DayLength
  <2> HIDE DEF c, d
  <2>4. d < c => DayStart(d) + DayLen <= DayStart(c)
    BY <1>1, <2>1
  <2>5. QED
    BY <2>2, <2>3, <2>4 DEF c, d
<1>4. QED
  BY <1>1, <1>2, <1>3

\* A time within a day falls into one of its hours.
LEMMA HoursAre ==
    ASSUME NEW t \in Int, 0 <= t, t < DayLen
    PROVE  t \div HourLen \in 0 .. DayHours - 1
<1> DEFINE h == t \div HourLen
<1>1. HourLen \in Nat \ {0} /\ DayHours \in Nat \ {0}
  BY DayLength
<1>2. h \in Int
  BY <1>1, Division
<1>3. h * HourLen <= t /\ t < h * HourLen + HourLen
  BY <1>1, <1>2, Division
<1> HIDE DEF h
<1>4. h >= 0
  <2> SUFFICES ASSUME h < 0 PROVE FALSE
    BY <1>2
  <2>1. (0 - h - 1) * HourLen >= 0
    BY <1>1, <1>2
  <2>2. (0 - h - 1) * HourLen = 0 - h * HourLen - HourLen
    BY <1>1, <1>2
  <2>3. h * HourLen \in Int
    BY <1>1, <1>2
  <2>4. QED
    BY <1>1, <1>3, <2>1, <2>2, <2>3
<1>5. h < DayHours
  <2> SUFFICES ASSUME h >= DayHours PROVE FALSE
    BY <1>1, <1>2
  <2>1. (h - DayHours) * HourLen >= 0
    BY <1>1, <1>2
  <2>2. (h - DayHours) * HourLen = h * HourLen - HourLen * DayHours
    BY <1>1, <1>2
  <2>3. h * HourLen \in Int /\ HourLen * DayHours \in Int
    BY <1>1, <1>2
  <2>4. QED
    BY <1>3, <2>1, <2>2, <2>3 DEF DayLen
<1>6. QED
  BY <1>1, <1>2, <1>4, <1>5 DEF h

-----------------------------------------------------------------------------
(* The panels, for the rows, the clock and the zone of any state. *)

Row == [ts : Int, on : {0, 1}, idle : BOOLEAN, exe : Nat, title : Nat]

SamplesTyped ==
    rows \in SUBSET Row /\ IsFiniteSet(rows) /\ now \in Int /\ offset \in Int

\* The start of the UTC days a chart shows, and the rows of one of them.
ChartStart(days) == DayStart(DayUTC(now - days * DayLen))
DayRows(d) == {r \in rows : DayUTC(r.ts) = d /\ r.ts < now}

LEMMA RowsTyped ==
    ASSUME SamplesTyped
    PROVE  /\ \A r \in rows : r.ts \in Int /\ r.on \in {0, 1} /\ r.idle \in BOOLEAN
                              /\ r.exe \in Nat /\ r.title \in Nat
           /\ \A S \in SUBSET rows : /\ IsFiniteSet(S) /\ Cardinality(S) \in Nat
                                     /\ IsFiniteSet(On(S)) /\ On(S) \in SUBSET S
           /\ \A since, until : Window(rows, since, until) \in SUBSET rows
<1>1. \A S \in SUBSET rows : IsFiniteSet(S) /\ Cardinality(S) \in Nat
  BY FS_Subset, FS_CardinalityType DEF SamplesTyped
<1>2. \A S \in SUBSET rows : On(S) \in SUBSET S
  BY DEF On
<1>3. \A S \in SUBSET rows : On(S) \in SUBSET rows
  BY <1>2
<1>4. \A since, until : Window(rows, since, until) \in SUBSET rows
  BY DEF Window
<1>5. QED
  BY <1>1, <1>2, <1>3, <1>4 DEF SamplesTyped, Row

LEMMA AxisTyped ==
    ASSUME SamplesTyped, NEW days \in Nat
    PROVE  /\ days * DayLen \in Nat /\ now - days * DayLen \in Int /\ ChartStart(days) \in Int
           /\ Axis(now, days) \subseteq Int /\ IsFiniteSet(Axis(now, days))
           /\ DayUTC(now) \in Int
           /\ \A d \in Axis(now, days) : ChartStart(days) <= DayStart(d)
<1>1. days * DayLen \in Nat /\ now \in Int
  BY DayLength DEF SamplesTyped
<1> DEFINE since == now - days * DayLen
<1>2. since \in Int
  BY <1>1
<1> HIDE DEF since
<1>3. DayUTC(since) \in Int /\ DayUTC(now) \in Int
  BY <1>1, <1>2, DaysAre
<1>4. DayStart(DayUTC(since)) \in Int
  BY <1>1, <1>3, DaysAre
<1>5. Axis(now, days) = DayUTC(since) .. DayUTC(now) /\ ChartStart(days) = DayStart(DayUTC(since))
  BY DEF Axis, ChartStart, since
<1>6. ASSUME NEW d \in Axis(now, days) PROVE ChartStart(days) <= DayStart(d)
  <2>1. d \in Int /\ DayUTC(since) <= d
    BY <1>3, <1>5
  <2>2. QED
    BY <1>3, <1>5, <2>1, DaysInOrder
<1>7. IsFiniteSet(DayUTC(since) .. DayUTC(now))
  BY <1>3, FS_Interval
<1>8. QED
  BY <1>1, <1>2, <1>3, <1>4, <1>5, <1>6, <1>7 DEF since

\* A window that begins at the start of a day d or earlier has all of d that is past.
LEMMA DayOfWindow ==
    ASSUME SamplesTyped, NEW since \in Int, NEW d \in Int, since <= DayStart(d)
    PROVE  {r \in Window(rows, since, now) : DayUTC(r.ts) = d} = DayRows(d)
<1> SUFFICES ASSUME NEW r \in rows, DayUTC(r.ts) = d PROVE since <= r.ts
  BY DEF Window, DayRows
<1>1. r.ts \in Int
  BY RowsTyped
<1>2. DayStart(d) <= r.ts /\ DayStart(d) \in Int
  BY <1>1, DaysAre
<1>3. QED
  BY <1>1, <1>2

\* The signals chart, with its zeros filled in.
LEMMA SignalsAre ==
    ASSUME SamplesTyped, NEW days \in Nat
    PROVE  HandleSignals(rows, now, days) = [d \in Axis(now, days) |-> Tally(DayRows(d))]
<1> DEFINE W == Window(rows, ChartStart(days), now)
           sparse == DeviceSignals(rows, ChartStart(days), now)
<1>1. HandleSignals(rows, now, days) = Fill(sparse, Axis(now, days), Tally({}))
  BY DEF HandleSignals, ChartStart
<1>2. sparse = [d \in {DayUTC(r.ts) : r \in W} |-> Tally({r \in W : DayUTC(r.ts) = d})]
  BY DEF DeviceSignals
<1>3. ASSUME NEW d \in Axis(now, days)
      PROVE  (IF d \in DOMAIN sparse THEN sparse[d] ELSE Tally({})) = Tally(DayRows(d))
  <2>1. {r \in W : DayUTC(r.ts) = d} = DayRows(d)
    BY AxisTyped, DayOfWindow
  <2> HIDE DEF W, sparse
  <2>2. CASE d \in DOMAIN sparse
    BY <1>2, <2>1, <2>2
  <2>3. CASE d \notin DOMAIN sparse
    <3>1. {r \in W : DayUTC(r.ts) = d} = {}
      BY <1>2, <2>3
    <3>2. QED
      BY <2>1, <2>3, <3>1
  <2>4. QED
    BY <2>2, <2>3
<1> HIDE DEF sparse
<1>4. QED
  BY <1>1, <1>3 DEF Fill

\* The heatmap's days, and the hours of one.
LEMMA HeatmapIs ==
    ASSUME SamplesTyped, NEW days \in Nat
    PROVE  LET heat == HandleHeatmap(rows, now, days)
           IN  /\ DOMAIN heat \subseteq Axis(now, days)
               /\ \A d \in DOMAIN heat : Total(heat[d]) = Cardinality(On(DayRows(d)))
<1> DEFINE since == DayStart(DayUTC(now - (days - 1) * DayLen))
           heat == HandleHeatmap(rows, now, days)
           W == Window(rows, since, now)
           Hour(r) == (r.ts % DayLen) \div HourLen
           Hours == 0 .. DayHours - 1
<1> DEFINE a == now - days * DayLen
           b == now - (days - 1) * DayLen
<1>1. a \in Int /\ b \in Int /\ a <= b
  <2>1. days * DayLen \in Int /\ (days - 1) * DayLen \in Int /\ DayLen \in Nat
    BY DayLength
  <2>2. days * DayLen = (days - 1) * DayLen + DayLen
    BY DayLength
  <2>3. QED
    BY <2>1, <2>2 DEF SamplesTyped
<1>2. DayUTC(a) \in Int /\ DayUTC(b) \in Int /\ DayUTC(a) <= DayUTC(b)
  <2> HIDE DEF a, b
  <2>1. QED
    BY <1>1, DaysAre, DaysInOrder
<1>3. since \in Int /\ since = DayStart(DayUTC(b)) /\ DayUTC(since) = DayUTC(b)
  <2> DEFINE e == DayUTC(b)
  <2>1. e \in Int /\ since = DayStart(e)
    BY <1>2
  <2> HIDE DEF e, since
  <2>2. DayStart(e) \in Int
    BY <2>1, DaysAre
  <2>3. DayStart(e) <= DayStart(e) /\ DayStart(e) < DayStart(e) + DayLen
    BY <2>2, DayLength
  <2>4. DayUTC(DayStart(e)) = e
    BY <2>1, <2>2, <2>3, DaysAre
  <2>5. QED
    BY <2>1, <2>2, <2>4 DEF e
<1> HIDE DEF since, b
<1>4. heat = [d \in {t \in DayUTC(since) .. DayUTC(now) : DayStart(t) < now} |->
                 [h \in Hours |-> Cardinality({r \in On(W) : DayUTC(r.ts) = d /\ Hour(r) = h})]]
  BY DEF HandleHeatmap, DeviceHeatmap, since
<1>5. DOMAIN heat \subseteq Axis(now, days)
  <2>1. DOMAIN heat \subseteq DayUTC(since) .. DayUTC(now)
    BY <1>4
  <2>2. DayUTC(now) \in Int /\ Axis(now, days) = DayUTC(a) .. DayUTC(now)
    BY AxisTyped DEF Axis
  <2> HIDE DEF heat, a
  <2>3. QED
    BY <1>2, <1>3, <2>1, <2>2
<1>6. ASSUME NEW d \in DOMAIN heat PROVE Total(heat[d]) = Cardinality(On(DayRows(d)))
  <2> DEFINE S == On(DayRows(d))
             part == [r \in S |-> Hour(r)]
  <2>1. d \in Int /\ DayUTC(since) <= d
    <3>1. d \in DayUTC(since) .. DayUTC(now)
      BY <1>4
    <3>2. QED
      BY <1>2, <1>3, <3>1
  <2>2. since <= DayStart(d)
    BY <1>2, <1>3, <2>1, DaysInOrder
  <2>3. {r \in W : DayUTC(r.ts) = d} = DayRows(d)
    BY <1>3, <2>1, <2>2, DayOfWindow
  <2>4. DayRows(d) \in SUBSET rows
    BY DEF DayRows
  <2>5. \A h \in Hours : {r \in On(W) : DayUTC(r.ts) = d /\ Hour(r) = h}
                             = {r \in S : part[r] = h}
    BY <2>3 DEF On
  <2>6. heat[d] = Shares(S, part, Hours)
    <3>1. heat[d] = [h \in Hours |->
                        Cardinality({r \in On(W) : DayUTC(r.ts) = d /\ Hour(r) = h})]
      <4> HIDE DEF Hours, Hour, W
      <4>1. QED
        BY <1>4
    <3> HIDE DEF heat, Hours, Hour, S, part, W
    <3>2. QED
      BY <2>5, <3>1 DEF Shares
  <2>7. Parted(S, part, Hours)
    <3>1. IsFiniteSet(S) /\ IsFiniteSet(Hours)
      BY <2>4, RowsTyped, FS_Interval, DayLength
    <3>2. ASSUME NEW r \in S PROVE part[r] \in Hours
      <4>1. r.ts \in Int
        BY <2>4, RowsTyped
      <4>2. r.ts % DayLen \in Int /\ 0 <= r.ts % DayLen /\ r.ts % DayLen < DayLen
        BY <4>1, DayLength
      <4>3. QED
        BY <4>2, HoursAre
    <3> HIDE DEF part, Hours, S
    <3>3. QED
      BY <3>1, <3>2 DEF Parted
  <2> HIDE DEF S, part, Hours
  <2>8. QED
    BY <2>6, <2>7, SharesAddUp DEF S
<1>7. QED
  BY <1>5, <1>6

LEMMA GroupsAddUp ==
    ASSUME NEW S, IsFiniteSet(S), NEW part, part = [r \in S |-> part[r]]
    PROVE  Total(Shares(S, part, {part[r] : r \in S})) = Cardinality(S)
<1> DEFINE D == {part[r] : r \in S}
<1>1. IsFiniteSet(D) /\ \A r \in S : part[r] \in D
  BY FiniteImage
<1> HIDE DEF D
<1>2. Parted(S, part, D)
  BY <1>1 DEF Parted
<1>3. QED
  BY <1>2, SharesAddUp DEF D

\* Top apps: the minutes of the applications are the minutes of the device.
LEMMA AppsAre ==
    ASSUME SamplesTyped, NEW since, NEW until
    PROVE  Total(DeviceTopApps(rows, since, until)) = Cardinality(On(Window(rows, since, until)))
<1> DEFINE S == On(Window(rows, since, until))
           part == [r \in S |-> ExeName(r)]
<1>1. IsFiniteSet(S)
  BY RowsTyped
<1>2. DeviceTopApps(rows, since, until) = Shares(S, part, {part[r] : r \in S})
  <2>1. {ExeName(r) : r \in S} = {part[r] : r \in S}
    OBVIOUS
  <2>2. \A e : {r \in S : ExeName(r) = e} = {r \in S : part[r] = e}
    OBVIOUS
  <2>3. DeviceTopApps(rows, since, until)
            = [e \in {ExeName(r) : r \in S} |-> Cardinality({r \in S : ExeName(r) = e})]
    BY DEF DeviceTopApps
  <2> HIDE DEF S, part
  <2>4. QED
    BY <2>1, <2>2, <2>3 DEF Shares
<1>3. part = [r \in S |-> part[r]]
  OBVIOUS
<1> HIDE DEF S, part
<1>4. QED
  BY <1>1, <1>2, <1>3, GroupsAddUp DEF S

\* Signals: the sessions of the days are those of the range.
LEMMA SessionsAre ==
    ASSUME SamplesTyped, NEW days \in Nat
    PROVE  LET signals == HandleSignals(rows, now, days)
           IN  Total([d \in DOMAIN signals |-> signals[d].session])
                   = Cardinality(Window(rows, ChartStart(days), now))
<1> DEFINE W == Window(rows, ChartStart(days), now)
           part == [r \in W |-> DayUTC(r.ts)]
           D == Axis(now, days)
           signals == HandleSignals(rows, now, days)
<1>1. IsFiniteSet(W) /\ W \in SUBSET rows
  BY RowsTyped
<1>2. IsFiniteSet(D) /\ D \subseteq Int
  BY AxisTyped
<1>3. ASSUME NEW r \in W PROVE DayUTC(r.ts) \in D
  <2> DEFINE a == DayUTC(now - days * DayLen)
  <2>1. r.ts \in Int /\ ChartStart(days) \in Int /\ now \in Int
    BY <1>1, RowsTyped, AxisTyped DEF SamplesTyped
  <2>2. ChartStart(days) <= r.ts /\ r.ts <= now
    BY <2>1 DEF Window
  <2>3. a \in Int /\ ChartStart(days) = DayStart(a)
    BY AxisTyped, DaysAre DEF ChartStart
  <2>4. DayUTC(r.ts) \in Int /\ DayUTC(r.ts) <= DayUTC(now) /\ DayUTC(now) \in Int
    BY <2>1, <2>2, DaysAre, DaysInOrder
  <2>5. D = a .. DayUTC(now)
    BY DEF Axis
  <2> HIDE DEF a, D
  <2>6. DayUTC(ChartStart(days)) = a
    <3>1. DayStart(a) \in Int /\ DayLen \in Nat \ {0}
      BY <2>3, DaysAre, DayLength
    <3>2. DayStart(a) <= DayStart(a) /\ DayStart(a) < DayStart(a) + DayLen
      BY <3>1
    <3>3. QED
      BY <2>3, <3>1, <3>2, DaysAre
  <2>7. a <= DayUTC(r.ts)
    BY <2>1, <2>2, <2>6, DaysInOrder
  <2>8. QED
    BY <2>3, <2>4, <2>5, <2>7
<1>4. signals = [d \in D |-> Tally(DayRows(d))]
  BY SignalsAre
<1>5. ASSUME NEW d \in D
      PROVE  signals[d].session = Cardinality({r \in W : part[r] = d})
  <2>1. signals[d].session = Cardinality(DayRows(d))
    BY <1>4 DEF Tally
  <2>2. {r \in W : DayUTC(r.ts) = d} = DayRows(d)
    BY <1>2, AxisTyped, DayOfWindow
  <2>3. {r \in W : DayUTC(r.ts) = d} = {r \in W : part[r] = d}
    OBVIOUS
  <2>4. QED
    BY <2>1, <2>2, <2>3
<1>6. \A r \in W : part[r] \in D
  BY <1>3
<1>7. DOMAIN signals = D
  BY <1>4
<1> HIDE DEF W, part, D, signals
<1>8. [d \in DOMAIN signals |-> signals[d].session] = Shares(W, part, D)
  BY <1>5, <1>7 DEF Shares
<1>9. Parted(W, part, D)
  BY <1>1, <1>2, <1>6 DEF Parted
<1>10. QED
  BY <1>8, <1>9, SharesAddUp DEF W, signals

LEMMA ViewsDoAgree == ASSUME SamplesTyped, TablesAssumption PROVE ViewsAgree
<1> SUFFICES ASSUME NEW days \in Ranges
             PROVE  LET signals == HandleSignals(rows, now, days)
                        heat == HandleHeatmap(rows, now, days)
                    IN  /\ HandleSummary(rows, now, offset, days).monitor
                               = Total(HandleTopApps(rows, now, offset, days))
                        /\ \A d \in DOMAIN heat : /\ d \in DOMAIN signals
                                                  /\ Total(heat[d]) = signals[d].monitor
                        /\ Total([d \in DOMAIN signals |-> signals[d].session])
                               = Summary(rows, DayStart(DayUTC(now - days * DayLen)), now).session
  BY DEF ViewsAgree
<1> DEFINE signals == HandleSignals(rows, now, days)
           heat == HandleHeatmap(rows, now, days)
<1>1. days \in Nat
  BY DEF TablesAssumption
<1>2. HandleSummary(rows, now, offset, days).monitor
          = Total(HandleTopApps(rows, now, offset, days))
  BY AppsAre DEF HandleSummary, Summary, Tally, HandleTopApps
<1>3. signals = [d \in Axis(now, days) |-> Tally(DayRows(d))]
  BY <1>1, SignalsAre
<1>4. DOMAIN heat \subseteq Axis(now, days)
      /\ \A d \in DOMAIN heat : Total(heat[d]) = Cardinality(On(DayRows(d)))
  BY <1>1, HeatmapIs
<1> HIDE DEF heat
<1>5. ASSUME NEW d \in DOMAIN heat
      PROVE  d \in DOMAIN signals /\ Total(heat[d]) = signals[d].monitor
  <2> HIDE DEF signals
  <2>1. d \in Axis(now, days)
    BY <1>4
  <2>2. d \in DOMAIN signals /\ signals[d] = Tally(DayRows(d))
    BY <1>3, <2>1
  <2>3. signals[d].monitor = Cardinality(On(DayRows(d)))
    BY <2>2 DEF Tally
  <2>4. QED
    BY <1>4, <2>2, <2>3
<1>6. Total([d \in DOMAIN signals |-> signals[d].session])
          = Summary(rows, ChartStart(days), now).session
  BY <1>1, SessionsAre DEF Summary, Tally
<1>7. QED
  BY <1>2, <1>5, <1>6 DEF heat, ChartStart

\* The server's day began at most a day before now, in any zone.
LEMMA MidnightIs ==
    ASSUME SamplesTyped
    PROVE  /\ LocalMidnight(now, offset) \in Int
           /\ LocalMidnight(now, offset) <= now
           /\ now < LocalMidnight(now, offset) + DayLen
           /\ RangeStart(now, offset, 1) = LocalMidnight(now, offset)
<1> DEFINE t == now + offset
           d == DayUTC(t)
<1>1. t \in Int /\ now \in Int /\ offset \in Int /\ DayLen \in Nat
  BY DayLength DEF SamplesTyped
<1>2. LocalMidnight(now, offset) = DayStart(d) - offset
  BY DEF LocalMidnight, DayUTC
<1> HIDE DEF t
<1>3. d \in Int
  BY <1>1, DaysAre
<1> HIDE DEF d
<1>4. DayStart(d) \in Int /\ DayStart(d) <= t /\ t < DayStart(d) + DayLen
  BY <1>1, <1>3, DaysAre DEF d
<1>5. (1 - 1) * DayLen = 0
  BY <1>1
<1>6. QED
  BY <1>1, <1>2, <1>4, <1>5 DEF t, RangeStart

\* The hours of a day that starts at any time.
LEMMA HoursAddUp ==
    ASSUME SamplesTyped, NEW start \in Int,
           NEW S, S \in SUBSET Window(rows, start, start + DayLen)
    PROVE  Total([h \in 0 .. DayHours - 1 |->
                      Cardinality({r \in S : (r.ts - start) \div HourLen = h})])
               = Cardinality(S)
<1> DEFINE D == 0 .. DayHours - 1
           part == [r \in S |-> (r.ts - start) \div HourLen]
<1>1. S \in SUBSET rows /\ IsFiniteSet(S)
  BY RowsTyped
<1>2. ASSUME NEW r \in S PROVE part[r] \in D
  <2>1. r.ts \in Int /\ DayLen \in Nat
    BY <1>1, RowsTyped, DayLength
  <2>2. start <= r.ts /\ r.ts < start + DayLen
    BY DEF Window
  <2>3. r.ts - start \in Int /\ 0 <= r.ts - start /\ r.ts - start < DayLen
    BY <2>1, <2>2
  <2>4. QED
    BY <2>3, HoursAre
<1>3. IsFiniteSet(D)
  BY FS_Interval, DayLength
<1>4. \A h \in D : {r \in S : (r.ts - start) \div HourLen = h} = {r \in S : part[r] = h}
  OBVIOUS
<1>5. [h \in D |-> Cardinality({r \in S : (r.ts - start) \div HourLen = h})]
          = Shares(S, part, D)
  BY <1>4 DEF Shares
<1> HIDE DEF part, D
<1>6. Parted(S, part, D)
  BY <1>1, <1>2, <1>3 DEF Parted
<1>7. QED
  BY <1>5, <1>6, SharesAddUp DEF D

LEMMA TodayDoesReadAlike == ASSUME SamplesTyped PROVE TodayReadsAlike
<1> SUFFICES ASSUME \A r \in rows : r.ts < now, NEW m \in {"monitor", "active"}
             PROVE  LET hours == HandleTimeline(rows, now, offset)
                        today == HandleSummary(rows, now, offset, 1)
                    IN  Total([h \in DOMAIN hours |-> hours[h][m]]) = today[m]
  BY DEF TodayReadsAlike
<1> DEFINE start == LocalMidnight(now, offset)
           W == Window(rows, start, start + DayLen)
           Hourly(h) == {r \in W : (r.ts - start) \div HourLen = h}
           hours == HandleTimeline(rows, now, offset)
           today == HandleSummary(rows, now, offset, 1)
           Hours == 0 .. DayHours - 1
<1>1. start \in Int /\ start <= now /\ now < start + DayLen
  BY MidnightIs
<1>2. W = Window(rows, RangeStart(now, offset, 1), now)
  <2>1. RangeStart(now, offset, 1) = start
    BY MidnightIs
  <2>2. \A r \in rows : r.ts \in Int /\ now \in Int /\ DayLen \in Int
    BY RowsTyped, DayLength DEF SamplesTyped
  <2> HIDE DEF start
  <2>3. \A r \in rows : r.ts < start + DayLen
    BY <1>1, <2>2
  <2>4. QED
    BY <2>1, <2>3 DEF Window
<1>3. hours = [h \in Hours |-> Tally(Hourly(h))]
  BY DEF HandleTimeline, DeviceTimeline
<1>4. today = Tally(W)
  BY <1>2 DEF HandleSummary, Summary
<1> HIDE DEF start, hours, today
<1>5. CASE m = "monitor"
  <2> DEFINE S == On(W)
  <2>1. \A h \in Hours : hours[h][m] = Cardinality({r \in S : (r.ts - start) \div HourLen = h})
    <3>1. \A h \in Hours : On(Hourly(h)) = {r \in S : (r.ts - start) \div HourLen = h}
      BY DEF On
    <3> HIDE DEF S, Hourly
    <3>2. QED
      BY <1>3, <1>5, <3>1 DEF Tally
  <2>2. today[m] = Cardinality(S)
    BY <1>4, <1>5 DEF Tally
  <2>3. S \in SUBSET W
    BY DEF On
  <2> HIDE DEF S
  <2>4. [h \in DOMAIN hours |-> hours[h][m]]
            = [h \in Hours |-> Cardinality({r \in S : (r.ts - start) \div HourLen = h})]
    BY <1>3, <2>1
  <2>5. QED
    BY <1>1, <2>2, <2>3, <2>4, HoursAddUp DEF start, hours, today
<1>6. CASE m = "active"
  <2> DEFINE S == {r \in On(W) : ~r.idle}
  <2>1. \A h \in Hours : hours[h][m] = Cardinality({r \in S : (r.ts - start) \div HourLen = h})
    <3>1. \A h \in Hours : {r \in On(Hourly(h)) : ~r.idle}
                               = {r \in S : (r.ts - start) \div HourLen = h}
      BY DEF On
    <3> HIDE DEF S, Hourly
    <3>2. QED
      BY <1>3, <1>6, <3>1 DEF Tally
  <2>2. today[m] = Cardinality(S)
    BY <1>4, <1>6 DEF Tally
  <2>3. S \in SUBSET W
    BY DEF On
  <2> HIDE DEF S
  <2>4. [h \in DOMAIN hours |-> hours[h][m]]
            = [h \in Hours |-> Cardinality({r \in S : (r.ts - start) \div HourLen = h})]
    BY <1>3, <2>1
  <2>5. QED
    BY <1>1, <2>2, <2>3, <2>4, HoursAddUp DEF start, hours, today
<1>7. QED
  BY <1>5, <1>6

\* The titles page: its filter takes from the list the lines of one application.
LEMMA TitleFilterDoesComplete == ASSUME SamplesTyped PROVE TitleFilterIsComplete
<1> SUFFICES ASSUME NEW days \in Ranges
             PROVE  LET page(name) == HandleTitles(rows, now, offset, days, name)
                        all == page(NoExe)
                    IN  /\ \A name \in all.apps : DOMAIN page(name).titles # {}
                        /\ \A k \in DOMAIN all.titles :
                               {e \in all.apps : k \in DOMAIN page(e).titles
                                                 /\ page(e).titles[k] = all.titles[k]} = {k[2]}
  BY DEF TitleFilterIsComplete
<1> DEFINE T == Titled(rows, RangeStart(now, offset, days), now)
           Key(r) == <<r.title, ExeName(r)>>
           Shown(name) == {r \in T : name = NoExe \/ ExeName(r) = name}
           Line(S) == [minutes |-> Cardinality(S), last |-> Last(ByTime(S)).ts]
           titles(name) == HandleTitles(rows, now, offset, days, name).titles
           apps == {ExeName(r) : r \in T}
<1>1. \A name : /\ HandleTitles(rows, now, offset, days, name).apps = apps
               /\ titles(name) = [k \in {Key(r) : r \in Shown(name)} |->
                                    Line({r \in Shown(name) : Key(r) = k})]
  BY DEF HandleTitles, DeviceTitles, DeviceTitleApps
<1>2. T \in SUBSET rows
  BY DEF Titled, Window, On
<1>3. \A r \in T : ExeName(r) # NoExe
  BY <1>2, RowsTyped DEF ExeName, NoExe, Unknown
<1>4. Shown(NoExe) = T
  OBVIOUS
<1>5. \A e \in apps : e # NoExe
  BY <1>3
<1>6. \A e \in apps : Shown(e) = {r \in T : ExeName(r) = e}
  BY <1>5
<1> HIDE DEF T, Line
<1>7. \A name : DOMAIN titles(name) = {Key(r) : r \in Shown(name)}
  BY <1>1
<1>8. ASSUME NEW name \in apps PROVE DOMAIN titles(name) # {}
  <2>1. PICK r \in T : name = ExeName(r)
    OBVIOUS
  <2>2. r \in Shown(name)
    BY <2>1
  <2> HIDE DEF titles, Shown, Key
  <2>3. Key(r) \in DOMAIN titles(name)
    BY <1>7, <2>2
  <2>4. QED
    BY <2>3
<1>9. ASSUME NEW k \in DOMAIN titles(NoExe)
      PROVE  {e \in apps : k \in DOMAIN titles(e) /\ titles(e)[k] = titles(NoExe)[k]} = {k[2]}
  <2>1. PICK r \in T : k = Key(r)
    <3> HIDE DEF titles
    <3>1. k \in {Key(r) : r \in Shown(NoExe)}
      BY <1>7
    <3>2. QED
      BY <1>4, <3>1
  <2>2. k[2] = ExeName(r) /\ k[2] \in apps
    BY <2>1
  <2> DEFINE app == k[2]
  <2>3. {q \in Shown(app) : Key(q) = k} = {q \in Shown(NoExe) : Key(q) = k}
    <3>1. \A q \in T : Key(q) = k => ExeName(q) = app
      OBVIOUS
    <3>2. Shown(app) = {q \in T : ExeName(q) = app}
      BY <1>6, <2>2
    <3> HIDE DEF Key, Shown, app
    <3>3. QED
      BY <1>4, <3>1, <3>2
  <2>4. r \in Shown(app) /\ r \in Shown(NoExe)
    BY <2>2
  <2>5. k \in {Key(q) : q \in Shown(app)} /\ k \in {Key(q) : q \in Shown(NoExe)}
    BY <2>1, <2>4
  <2>6. /\ k \in DOMAIN titles(app)
        /\ titles(app)[k] = Line({q \in Shown(app) : Key(q) = k})
        /\ titles(NoExe)[k] = Line({q \in Shown(NoExe) : Key(q) = k})
    <3> HIDE DEF titles, Key, Shown, app
    <3>1. \A name : titles(name) = [j \in {Key(q) : q \in Shown(name)} |->
                                      Line({q \in Shown(name) : Key(q) = j})]
      BY <1>1 DEF titles
    <3>2. QED
      BY <2>5, <3>1
  <2>7. ASSUME NEW e \in apps, k \in DOMAIN titles(e) PROVE e = app
    <3>1. k \in {Key(q) : q \in Shown(e)}
      <4> HIDE DEF titles, Key, Shown
      <4>1. QED
        BY <1>7, <2>7
    <3>2. PICK q \in Shown(e) : k = Key(q)
      BY <3>1
    <3>3. ExeName(q) = e
      BY <1>6
    <3>4. QED
      BY <3>2, <3>3
  <2> HIDE DEF titles, apps, app
  <2>8. QED
    BY <2>2, <2>3, <2>6, <2>7 DEF app
<1>10. QED
  BY <1>1, <1>8, <1>9

\* The daily record of a day, and its line in the signals chart.
LEMMA RecordIs ==
    ASSUME SamplesTyped, NEW d \in Int
    PROVE  RollupStats(rows, d, now) = Tally(DayRows(d))
<1> DEFINE end == IF now < DayStart(d) + DayLen THEN now ELSE DayStart(d) + DayLen
<1>1. DayStart(d) \in Int /\ DayLen \in Int /\ now \in Int
  BY DaysAre, DayLength DEF SamplesTyped
<1>2. ASSUME NEW r \in rows
      PROVE  (DayStart(d) <= r.ts /\ r.ts < end) <=> (DayUTC(r.ts) = d /\ r.ts < now)
  <2>1. r.ts \in Int
    BY RowsTyped
  <2>2. DayUTC(r.ts) = d <=> DayStart(d) <= r.ts /\ r.ts < DayStart(d) + DayLen
    BY <2>1, DaysAre
  <2>3. QED
    BY <1>1, <2>1, <2>2
<1>3. Window(rows, DayStart(d), end) = DayRows(d)
  <2> HIDE DEF end
  <2>1. QED
    BY <1>2 DEF Window, DayRows
<1>4. QED
  BY <1>3 DEF RollupStats

LEMMA TrendDoesAgree == ASSUME SamplesTyped, TablesAssumption PROVE TrendAgrees
<1> SUFFICES ASSUME NEW days \in Ranges
             PROVE  LET stats == [d \in {DayUTC(r.ts) : r \in rows} |-> RollupStats(rows, d, now)]
                        signals == HandleSignals(rows, now, days)
                    IN  HandleTrend(stats, now, days)
                            = [d \in DOMAIN signals |-> Screen(signals[d])]
  BY DEF TrendAgrees
<1> DEFINE D == {DayUTC(r.ts) : r \in rows}
           stats == [d \in D |-> RollupStats(rows, d, now)]
           signals == HandleSignals(rows, now, days)
           A == Axis(now, days)
<1>1. days \in Nat
  BY DEF TablesAssumption
<1>2. signals = [d \in A |-> Tally(DayRows(d))] /\ A \subseteq Int
  BY <1>1, SignalsAre, AxisTyped
<1>3. ASSUME NEW d \in A
      PROVE  (IF d \in D THEN Screen(stats[d]) ELSE Screen(Tally({}))) = Screen(signals[d])
  <2>1. signals[d] = Tally(DayRows(d)) /\ d \in Int
    BY <1>2
  <2>2. CASE d \in D
    BY <2>1, <2>2, RecordIs
  <2>3. CASE d \notin D
    <3>1. DayRows(d) = {}
      BY <2>3 DEF DayRows
    <3>2. QED
      BY <2>1, <2>3, <3>1
  <2>4. QED
    BY <2>2, <2>3
<1>4. DOMAIN stats = D /\ DOMAIN signals = A
  BY <1>2
<1> HIDE DEF D, stats, signals
<1>5. HandleTrend(stats, now, days)
          = [d \in A |-> IF d \in D THEN Screen(stats[d]) ELSE Screen(Tally({}))]
  BY <1>4 DEF HandleTrend, Fill
<1>6. QED
  BY <1>3, <1>4, <1>5 DEF stats, signals, D

-----------------------------------------------------------------------------
\* No panel of the dashboard contradicts another, for any finite table of samples, any
\* clock and any zone: the applications add up to the device, the hours of the heatmap
\* and of today to their day, the days to their range, the title filter takes from the
\* list what it says, and the daily record reads like the rows (server.go and store.go,
\* the handlers of the device page).
THEOREM PanelsNeverContradict ==
    ASSUME SamplesTyped, TablesAssumption
    PROVE  PanelsAgree
BY ViewsDoAgree, TodayDoesReadAlike, TitleFilterDoesComplete, TrendDoesAgree DEF PanelsAgree

\* The tables of the model.
TablesTyped == Table(evs) /\ from \in Int /\ to \in Int /\ SamplesTyped

LEMMA NothingTyped == Table({}) /\ {} \in SUBSET Row /\ IsFiniteSet({})
BY FS_EmptySet DEF Table, UniqueTimes

LEMMA TablesAreTyped == Spec => []TablesTyped
<1>1. Init => TablesTyped
  <2> SUFFICES ASSUME Init PROVE TablesTyped
    OBVIOUS
  <2>1. DayLen \in Nat /\ Horizon \in Nat /\ 2 * DayLen \in Int
    BY DayLength, TablesAssumption
  <2>2. CASE InitEvents
    <3>0. PICK stamps \in SUBSET Times : \E f \in [stamps -> {0, 1}] :
              evs = {[ts |-> t, on |-> f[t]] : t \in stamps}
      BY <2>2 DEF InitEvents
    <3>1. PICK f \in [stamps -> {0, 1}] : evs = {[ts |-> t, on |-> f[t]] : t \in stamps}
      BY <3>0
    <3>2. Times \subseteq Int /\ IsFiniteSet(stamps)
      <4>1. IsFiniteSet(Times) /\ Times \subseteq Int
        BY <2>1, FS_Interval DEF Times
      <4>2. QED
        BY <4>1, FS_Subset
    <3>3. evs \in SUBSET Transitions /\ UniqueTimes(evs)
      BY <3>1, <3>2 DEF Transitions, UniqueTimes
    <3>4. IsFiniteSet({[ts |-> t, on |-> f[t]] : t \in stamps})
      <4> DEFINE part == [t \in stamps |-> [ts |-> t, on |-> f[t]]]
      <4>1. {[ts |-> t, on |-> f[t]] : t \in stamps} = {part[t] : t \in stamps}
            /\ part = [t \in stamps |-> part[t]]
        OBVIOUS
      <4> HIDE DEF part
      <4>2. QED
        BY <3>2, <4>1, FiniteImage
    <3>5. from \in Int /\ to \in Int /\ rows = {} /\ now \in Int /\ offset \in Int
      BY <2>1, <2>2, <3>2 DEF InitEvents
    <3>6. QED
      BY <3>1, <3>3, <3>4, <3>5, NothingTyped DEF TablesTyped, Table, SamplesTyped
  <2>3. CASE InitSamples
    <3>0. PICK stamps \in kSubset(MaxRows, Stamps) : \E f \in [stamps -> Kinds] :
              rows = {Sample(t, f[t]) : t \in stamps}
      BY <2>3 DEF InitSamples
    <3>1. PICK f \in [stamps -> Kinds] : rows = {Sample(t, f[t]) : t \in stamps}
      BY <3>0
    <3>2. stamps \subseteq Int /\ IsFiniteSet(stamps)
      <4>1. DayLen + 1 \in Int /\ 3 * DayLen \in Int
        BY <2>1
      <4>2. IsFiniteSet(Stamps) /\ Stamps \subseteq Int
        BY <4>1, FS_Interval DEF Stamps
      <4>3. stamps \in SUBSET Stamps
        BY DEF kSubset
      <4>4. QED
        BY <4>2, <4>3, FS_Subset
    <3>3. rows \in SUBSET Row
      <4>1. \A k \in Kinds : k.on \in {0, 1} /\ k.idle \in BOOLEAN
                             /\ k.exe \in Nat /\ k.title \in Nat
        BY DEF Kinds, NoExe, Unknown, NoTitle
      <4>2. ASSUME NEW t \in stamps PROVE Sample(t, f[t]) \in Row
        <5>1. f[t] \in Kinds /\ t \in Int
          BY <3>2
        <5>2. QED
          BY <4>1, <5>1 DEF Sample, Row
      <4>3. QED
        BY <3>1, <4>2
    <3>4. IsFiniteSet({Sample(t, f[t]) : t \in stamps})
      <4> DEFINE part == [t \in stamps |-> Sample(t, f[t])]
      <4>1. {Sample(t, f[t]) : t \in stamps} = {part[t] : t \in stamps}
            /\ part = [t \in stamps |-> part[t]]
        OBVIOUS
      <4> HIDE DEF part
      <4>2. QED
        BY <3>2, <4>1, FiniteImage
    <3>5. evs = {} /\ from \in Int /\ to \in Int /\ now \in Int /\ offset \in Int
      BY <2>1, <2>3, TablesAssumption DEF InitSamples
    <3>6. QED
      BY <3>1, <3>3, <3>4, <3>5, NothingTyped DEF TablesTyped, SamplesTyped
  <2>4. QED
    BY <2>2, <2>3 DEF Init
<1>2. TablesTyped /\ [Next]_vars => TablesTyped'
  BY DEF TablesTyped, SamplesTyped, Next, MoveWindow, PassTime, vars
<1>3. QED
  BY <1>1, <1>2, PTL DEF Spec

\* In the model, then, they always agree: whatever rows a table has and however the clock
\* moves (server.go's handlers).
THEOREM PanelsAlwaysAgree == Spec => []PanelsAgree
<1>1. TablesTyped => PanelsAgree
  BY PanelsNeverContradict, TablesAssumption DEF TablesTyped
<1>2. QED
  BY <1>1, TablesAreTyped, PTL

\* And the walk over the transitions is exact in every window of the model, as for every
\* table (IntegralExact; store.go MonitorOnSeconds).
THEOREM IntegralAlwaysExact == Spec => []IntegralIsExact
<1>1. TablesTyped => IntegralIsExact
  BY IntegralExact DEF TablesTyped, IntegralIsExact
<1>2. QED
  BY <1>1, TablesAreTyped, PTL

-----------------------------------------------------------------------------
(* The board's identity.  The loop meets the stamps in any order; what it keeps   *)
(* is the first by count and then by number, of those it has met.                 *)

Beats(counts, a, b) == \/ counts[a] > counts[b]
                       \/ counts[a] = counts[b] /\ (a = b \/ Before(a, b))

Unmet == [stamp |-> NoStamp, n |-> 0]
Entry(counts, k) == [stamp |-> k, n |-> counts[k]]

Leads(counts, K, k) == k \in K /\ \A j \in K : Beats(counts, k, j)

Leader(counts, K) ==
    IF K = {} THEN Unmet ELSE Entry(counts, CHOOSE k \in K : Leads(counts, K, k))

Meet(counts, best, k) ==
    IF counts[k] > best.n \/ (counts[k] = best.n /\ Before(k, best.stamp))
    THEN Entry(counts, k) ELSE best

\* Each stamp occurs, and no more than most times.
Counted(counts, most) ==
    /\ most \in Nat
    /\ DOMAIN counts \subseteq Nat \X Nat
    /\ \A k \in DOMAIN counts : counts[k] \in Nat \ {0} /\ counts[k] <= most

LEMMA StampsCompare ==
    ASSUME NEW a \in Nat \X Nat, NEW b \in Nat \X Nat
    PROVE  /\ a = b \/ Before(a, b) \/ Before(b, a)
           /\ ~(Before(a, b) /\ (a = b \/ Before(b, a)))
           /\ a[1] \in Nat /\ a[2] \in Nat
<1>1. a[1] \in Nat /\ a[2] \in Nat /\ b[1] \in Nat /\ b[2] \in Nat
  OBVIOUS
<1>2. a[1] = b[1] /\ a[2] = b[2] => a = b
  OBVIOUS
<1>3. QED
  BY <1>1, <1>2 DEF Before

\* There is one that leads, and only one.
LEMMA LeaderExists ==
    ASSUME NEW counts, NEW most, Counted(counts, most),
           NEW K \in SUBSET DOMAIN counts, K # {}
    PROVE  \E k \in K : Leads(counts, K, k)
<1>1. \A k \in K : /\ counts[k] \in Nat /\ most - counts[k] \in Nat
                   /\ k \in Nat \X Nat /\ k[1] \in Nat /\ k[2] \in Nat
  BY StampsCompare DEF Counted
<1> DEFINE T == {most - counts[k] : k \in K}
<1>2. T \in SUBSET Nat /\ T # {}
  BY <1>1
<1>3. PICK t \in T : \A u \in T : t <= u
  BY <1>2, LeastNat
<1> DEFINE M == {k \in K : most - counts[k] = t}
           F == {k[1] : k \in M}
<1>4. F \in SUBSET Nat /\ F # {}
  BY <1>1, <1>3
<1>5. PICK f \in F : \A u \in F : f <= u
  BY <1>4, LeastNat
<1> DEFINE N == {k \in M : k[1] = f}
           G == {k[2] : k \in N}
<1>6. G \in SUBSET Nat /\ G # {}
  BY <1>1, <1>5
<1>7. PICK g \in G : \A u \in G : g <= u
  BY <1>6, LeastNat
<1>8. PICK k \in N : k[2] = g
  BY <1>7
<1>9. ASSUME NEW j \in K PROVE Beats(counts, k, j)
  <2>1. k \in K /\ most - counts[k] = t /\ k[1] = f
    BY <1>8
  <2>2. most - counts[k] <= most - counts[j]
    BY <1>3, <2>1
  <2>3. counts[k] >= counts[j] /\ counts[k] \in Nat /\ counts[j] \in Nat /\ most \in Nat
    BY <1>1, <2>1, <2>2 DEF Counted
  <2>4. CASE counts[k] > counts[j]
    BY <2>4 DEF Beats
  <2>5. CASE counts[k] = counts[j]
    <3>1. j \in M /\ j[1] \in F
      BY <2>1, <2>5
    <3>2. k[1] <= j[1]
      BY <1>5, <2>1, <3>1
    <3>3. CASE k[1] < j[1]
      BY <2>5, <3>3 DEF Beats, Before
    <3>4. CASE k[1] = j[1]
      <4>1. j \in N /\ j[2] \in G
        BY <2>1, <3>1, <3>4
      <4>2. k[2] <= j[2]
        BY <1>7, <1>8, <4>1
      <4>3. CASE k[2] < j[2]
        BY <2>5, <3>4, <4>3 DEF Beats, Before
      <4>4. CASE k[2] = j[2]
        <5>1. k = j
          BY <1>1, <2>1, <3>4, <4>4
        <5>2. QED
          BY <2>5, <5>1 DEF Beats
      <4>5. QED
        BY <1>1, <2>1, <4>2, <4>3, <4>4
    <3>5. QED
      BY <1>1, <2>1, <3>2, <3>3, <3>4
  <2>6. QED
    BY <2>3, <2>4, <2>5
<1>10. QED
  BY <1>8, <1>9 DEF Leads

LEMMA LeaderIs ==
    ASSUME NEW counts, NEW most, Counted(counts, most),
           NEW K \in SUBSET DOMAIN counts, NEW k, Leads(counts, K, k)
    PROVE  Leader(counts, K) = Entry(counts, k)
<1>1. ASSUME NEW j, Leads(counts, K, j) PROVE j = k
  <2>1. j \in K /\ k \in K /\ Beats(counts, k, j) /\ Beats(counts, j, k)
    BY <1>1 DEF Leads
  <2>2. counts[j] \in Nat /\ counts[k] \in Nat /\ j \in Nat \X Nat /\ k \in Nat \X Nat
    BY <2>1 DEF Counted
  <2>3. counts[j] = counts[k]
    BY <2>1, <2>2 DEF Beats
  <2>4. j = k \/ (Before(j, k) /\ Before(k, j))
    BY <2>1, <2>2, <2>3 DEF Beats
  <2>5. QED
    BY <2>2, <2>4, StampsCompare
<1>2. k \in K
  BY DEF Leads
<1> DEFINE c == CHOOSE j \in K : Leads(counts, K, j)
<1>3. Leads(counts, K, c)
  BY <1>2
<1> HIDE DEF c
<1>4. c = k
  BY <1>1, <1>3
<1>5. QED
  BY <1>2, <1>4 DEF Leader, c

\* One stamp more.
LEMMA LeaderNext ==
    ASSUME NEW counts, NEW most, Counted(counts, most),
           NEW K \in SUBSET DOMAIN counts, NEW k \in DOMAIN counts
    PROVE  Leader(counts, K \cup {k}) = Meet(counts, Leader(counts, K), k)
<1>1. counts[k] \in Nat \ {0} /\ k \in Nat \X Nat /\ K \cup {k} \in SUBSET DOMAIN counts
  BY DEF Counted
<1>2. CASE K = {}
  <2>1. Leads(counts, K \cup {k}, k)
    BY <1>2 DEF Leads, Beats
  <2>2. Leader(counts, K \cup {k}) = Entry(counts, k)
    BY <1>1, <2>1, LeaderIs
  <2>3. Meet(counts, Leader(counts, K), k) = Entry(counts, k)
    BY <1>1, <1>2 DEF Meet, Leader, Unmet
  <2>4. QED
    BY <2>2, <2>3
<1>3. CASE K # {}
  <2>1. PICK j \in K : Leads(counts, K, j)
    BY <1>3, LeaderExists
  <2>2. Leader(counts, K) = Entry(counts, j)
    BY <2>1, LeaderIs
  <2>3. counts[j] \in Nat /\ j \in Nat \X Nat /\ \A i \in K : counts[i] \in Nat /\ i \in Nat \X Nat
    BY DEF Counted
  <2>4. CASE counts[k] > counts[j] \/ (counts[k] = counts[j] /\ Before(k, j))
    <3>1. ASSUME NEW i \in K PROVE Beats(counts, k, i)
      <4>1. Beats(counts, j, i)
        BY <2>1 DEF Leads
      <4>2. CASE counts[j] > counts[i]
        BY <1>1, <2>3, <2>4, <4>2 DEF Beats
      <4>3. CASE counts[j] = counts[i] /\ (j = i \/ Before(j, i))
        <5>1. CASE counts[k] > counts[j]
          BY <4>3, <5>1 DEF Beats
        <5>2. CASE counts[k] = counts[j] /\ Before(k, j)
          <6>1. j = i \/ Before(k, i)
            <7>1. j[1] \in Nat /\ j[2] \in Nat /\ i[1] \in Nat /\ i[2] \in Nat
                  /\ k[1] \in Nat /\ k[2] \in Nat
              BY <1>1, <2>3, StampsCompare
            <7>2. QED
              BY <4>3, <5>2, <7>1 DEF Before
          <6>2. Before(k, i)
            BY <5>2, <6>1
          <6>3. QED
            BY <4>3, <5>2, <6>2 DEF Beats
        <5>3. QED
          BY <2>4, <5>1, <5>2
      <4>4. QED
        BY <4>1, <4>2, <4>3 DEF Beats
    <3>2. Beats(counts, k, k)
      BY DEF Beats
    <3>3. Leads(counts, K \cup {k}, k)
      BY <3>1, <3>2 DEF Leads
    <3>4. Leader(counts, K \cup {k}) = Entry(counts, k)
      BY <1>1, <3>3, LeaderIs
    <3>5. Meet(counts, Entry(counts, j), k) = Entry(counts, k)
      BY <2>4 DEF Meet, Entry
    <3>6. QED
      BY <2>2, <3>4, <3>5
  <2>5. CASE ~(counts[k] > counts[j] \/ (counts[k] = counts[j] /\ Before(k, j)))
    <3>1. Beats(counts, j, k)
      <4>1. k = j \/ Before(j, k) \/ Before(k, j)
        BY <1>1, <2>3, StampsCompare
      <4>2. QED
        BY <1>1, <2>3, <2>5, <4>1 DEF Beats
    <3>2. Leads(counts, K \cup {k}, j)
      BY <2>1, <3>1 DEF Leads
    <3>3. Leader(counts, K \cup {k}) = Entry(counts, j)
      BY <1>1, <3>2, LeaderIs
    <3>4. Meet(counts, Entry(counts, j), k) = Entry(counts, j)
      BY <2>5 DEF Meet, Entry
    <3>5. QED
      BY <2>2, <3>3, <3>4
  <2>6. QED
    BY <2>4, <2>5
<1>4. QED
  BY <1>2, <1>3

\* The loop, as a function of the places it has been to.
IsLoop(g, counts, q) ==
    g = [s \in SUBSET DOMAIN q |->
            IF s = {} THEN Unmet ELSE Meet(counts, g[s \ {Max(s)}], q[Max(s)])]

Loop(counts, q) == CHOOSE g : IsLoop(g, counts, q)

Met(q, s) == {q[i] : i \in s}

LEMMA BestIsLoop ==
    ASSUME NEW counts, NEW q
    PROVE  Best(counts, q) = Loop(counts, q)[DOMAIN q]
BY DEF Best, FoldLeft, MapThenFoldSet, Loop, IsLoop, Meet, Entry, Unmet

LEMMA LoopReaches ==
    ASSUME NEW counts, NEW most, Counted(counts, most), NEW n \in Nat,
           NEW q \in [1 .. n -> DOMAIN counts]
    PROVE  Best(counts, q) = Leader(counts, Met(q, 1 .. n))
<1> DEFINE places == SUBSET (1 .. n)
           goal == [s \in places |-> Leader(counts, Met(q, s))]
           g == Loop(counts, q)
<1>1. Leader(counts, Met(q, {})) = Unmet
  BY DEF Met, Leader
<1>2. ASSUME NEW s \in places, s # {}
      PROVE  /\ Max(s) \in s /\ s \ {Max(s)} \in places
             /\ Leader(counts, Met(q, s))
                    = Meet(counts, Leader(counts, Met(q, s \ {Max(s)})), q[Max(s)])
  <2> DEFINE m == Max(s)
             K == Met(q, s \ {m})
  <2>1. m \in s
    BY <1>2, MaxOfIndices
  <2> HIDE DEF m
  <2>2. K \in SUBSET DOMAIN counts /\ q[m] \in DOMAIN counts
    BY <2>1 DEF Met
  <2>3. Met(q, s) = K \cup {q[m]}
    BY <2>1 DEF Met
  <2> HIDE DEF K
  <2>4. Leader(counts, K \cup {q[m]}) = Meet(counts, Leader(counts, K), q[m])
    BY <2>2, LeaderNext
  <2>5. QED
    BY <2>1, <2>3, <2>4 DEF m, K
<1>3. IsLoop(goal, counts, q)
  BY <1>1, <1>2 DEF IsLoop
<1>4. IsLoop(g, counts, q)
  BY <1>3 DEF Loop
<1>5. \A s \in places : g[s] = IF s = {} THEN Unmet
                               ELSE Meet(counts, g[s \ {Max(s)}], q[Max(s)])
  <2> HIDE DEF g
  <2>1. g = [s \in places |-> IF s = {} THEN Unmet
                              ELSE Meet(counts, g[s \ {Max(s)}], q[Max(s)])]
    BY <1>4 DEF IsLoop
  <2>2. QED
    BY <2>1
<1>6. Best(counts, q) = g[1 .. n]
  BY BestIsLoop
<1> HIDE DEF g
<1>7. SUFFICES ASSUME NEW odd \in places, g[odd] # Leader(counts, Met(q, odd))
               PROVE  FALSE
  <2>1. 1 .. n \in places
    OBVIOUS
  <2>2. QED
    BY <1>6, <2>1
<1> DEFINE wrong == {s \in places : g[s] # Leader(counts, Met(q, s))}
           sizes == {Cardinality(s) : s \in wrong}
<1>8. \A s \in places : IsFiniteSet(s) /\ Cardinality(s) \in Nat
  <2>1. IsFiniteSet(1 .. n)
    BY FS_Interval
  <2>2. QED
    BY <2>1, FS_Subset, FS_CardinalityType
<1>9. sizes \in SUBSET Nat /\ sizes # {}
  BY <1>7, <1>8
<1>10. PICK least \in sizes : \A k \in sizes : least <= k
  BY <1>9, LeastNat
<1>11. PICK s \in wrong : Cardinality(s) = least
  BY <1>10
<1>12. s # {} /\ s \in places
  BY <1>1, <1>5, <1>11
<1>13. Max(s) \in s /\ s \ {Max(s)} \in places
  BY <1>2, <1>12
<1>14. Cardinality(s \ {Max(s)}) = Cardinality(s) - 1
  BY <1>8, <1>12, <1>13, FS_RemoveElement
<1>15. s \ {Max(s)} \notin wrong
  <2>1. Cardinality(s) \in Nat /\ Cardinality(s \ {Max(s)}) \in Nat
    BY <1>8, <1>12, <1>13
  <2>2. SUFFICES ASSUME s \ {Max(s)} \in wrong PROVE FALSE
    OBVIOUS
  <2>3. Cardinality(s \ {Max(s)}) \in sizes
    BY <2>2
  <2> HIDE DEF wrong, sizes
  <2>4. Cardinality(s) <= Cardinality(s \ {Max(s)})
    BY <1>10, <1>11, <2>3
  <2>5. QED
    BY <1>14, <2>1, <2>4
<1>16. g[s \ {Max(s)}] = Leader(counts, Met(q, s \ {Max(s)}))
  BY <1>13, <1>15
<1>17. g[s] = Leader(counts, Met(q, s))
  BY <1>2, <1>5, <1>12, <1>16
<1>18. QED
  BY <1>11, <1>17

\* Every order of a finite set meets all of it, and there is one.
LEMMA OrdersMeetAll ==
    ASSUME NEW K, IsFiniteSet(K)
    PROVE  /\ SetToSeqs(K) # {}
           /\ \A q \in SetToSeqs(K) : /\ q \in [1 .. Cardinality(K) -> K]
                                      /\ Met(q, 1 .. Cardinality(K)) = K
<1> DEFINE n == Cardinality(K)
<1>1. n \in Nat /\ ExistsBijection(1 .. n, K)
  BY FS_CardinalityType
<1>2. IsFiniteSet(1 .. n) /\ Cardinality(1 .. n) = n
  BY <1>1, FS_Interval
<1>3. SetToSeqs(K) # {}
  <2>1. PICK f \in Bijection(1 .. n, K) : TRUE
    BY <1>1 DEF ExistsBijection
  <2>2. f \in SetToSeqs(K)
    BY <2>1 DEF Bijection, Injection, IsInjective, SetToSeqs
  <2>3. QED
    BY <2>2
<1>4. ASSUME NEW q \in SetToSeqs(K)
      PROVE  q \in [1 .. n -> K] /\ Met(q, 1 .. n) = K
  <2>1. q \in [1 .. n -> K] /\ \A i, j \in 1 .. n : i # j => q[i] # q[j]
    BY DEF SetToSeqs
  <2>2. q \in Injection(1 .. n, K)
    BY <2>1 DEF Injection, IsInjective
  <2> HIDE DEF n
  <2>3. q \in Surjection(1 .. n, K)
    BY <1>2, <2>2, FS_Injection DEF n
  <2>4. QED
    BY <2>1, <2>3 DEF Surjection, Met
<1>5. QED
  BY <1>3, <1>4

\* So the loop ends with the leader of all stamps, in whatever order it meets them.
LEMMA OrderIsNoMatter ==
    ASSUME NEW counts, NEW most, Counted(counts, most), IsFiniteSet(DOMAIN counts)
    PROVE  {Best(counts, order) : order \in SetToSeqs(DOMAIN counts)}
               = {Leader(counts, DOMAIN counts)}
<1> DEFINE K == DOMAIN counts
           n == Cardinality(K)
<1>1. n \in Nat
  BY FS_CardinalityType
<1>2. \A q \in SetToSeqs(K) : q \in [1 .. n -> K] /\ Met(q, 1 .. n) = K
  BY OrdersMeetAll
<1> HIDE DEF n
<1>3. ASSUME NEW q \in SetToSeqs(K) PROVE Best(counts, q) = Leader(counts, K)
  BY <1>1, <1>2, LoopReaches
<1>4. SetToSeqs(K) # {}
  BY OrdersMeetAll
<1> HIDE DEF K
<1>5. QED
  BY <1>3, <1>4 DEF K

\* A bus as it is read: functions with the vendor of their chip and a stamp.
Bus == [kind : {"bus"}, ids : Seq([ven : Nat, sub : Nat \X Nat])]

Own(ids) == {i \in DOMAIN ids : /\ ids[i].ven \in BoardVendors
                                /\ ids[i].sub[1] \notin Unprogrammed \cup BoardVendors}
Stamped(ids, stamp) == {i \in Own(ids) : ids[i].sub = stamp}

LEMMA CountsAre ==
    ASSUME NEW ids \in Seq([ven : Nat, sub : Nat \X Nat])
    PROVE  LET counts == StampCounts(ids)
           IN  /\ Counted(counts, Len(ids)) /\ IsFiniteSet(DOMAIN counts)
               /\ DOMAIN counts = {ids[i].sub : i \in Own(ids)}
               /\ \A stamp : /\ Cardinality(Stamped(ids, stamp)) \in Nat
                             /\ stamp \in DOMAIN counts
                                    => counts[stamp] = Cardinality(Stamped(ids, stamp))
                             /\ stamp \notin DOMAIN counts
                                    => Cardinality(Stamped(ids, stamp)) = 0
<1> DEFINE counts == StampCounts(ids)
           n == Len(ids)
<1>1. n \in Nat /\ DOMAIN ids = 1 .. n /\ \A i \in 1 .. n : ids[i].sub \in Nat \X Nat
  <2> DEFINE Function == [ven : Nat, sub : Nat \X Nat]
  <2>1. \A f \in Function : f.sub \in Nat \X Nat
    OBVIOUS
  <2> HIDE DEF Function
  <2>2. n \in Nat /\ DOMAIN ids = 1 .. n /\ ids \in [1 .. n -> Function]
    BY LenProperties DEF Function
  <2> HIDE DEF n
  <2>3. QED
    BY <2>1, <2>2
<1>2. counts = [stamp \in {ids[i].sub : i \in Own(ids)} |-> Cardinality(Stamped(ids, stamp))]
  BY DEF StampCounts, Own, Stamped
<1> HIDE DEF n, counts
<1>3. IsFiniteSet(1 .. n) /\ Cardinality(1 .. n) = n
  <2>1. n \in Nat /\ n \in Int /\ 1 \in Int
    BY <1>1
  <2>2. IsFiniteSet(1 .. n) /\ Cardinality(1 .. n) = IF 1 > n THEN 0 ELSE n - 1 + 1
    BY ONLY <2>1, FS_Interval
  <2>3. QED
    BY <2>1, <2>2
<1>4. Own(ids) \in SUBSET (1 .. n) /\ \A stamp : Stamped(ids, stamp) \in SUBSET (1 .. n)
  BY <1>1 DEF Own, Stamped
<1>5. ASSUME NEW stamp
      PROVE  /\ IsFiniteSet(Stamped(ids, stamp))
             /\ Cardinality(Stamped(ids, stamp)) \in Nat
             /\ Cardinality(Stamped(ids, stamp)) <= n
  <2>1. Stamped(ids, stamp) \in SUBSET (1 .. n)
    BY <1>4
  <2>2. QED
    BY <1>3, <2>1, FS_Subset, FS_CardinalityType
<1>6. \A stamp : Stamped(ids, stamp) = {} => Cardinality(Stamped(ids, stamp)) = 0
  BY FS_EmptySet
<1>7. \A stamp : Cardinality(Stamped(ids, stamp)) = 0 => Stamped(ids, stamp) = {}
  BY <1>5, FS_EmptySet
<1>8. DOMAIN counts = {ids[i].sub : i \in Own(ids)}
  BY <1>2
<1>9. ASSUME NEW stamp \in DOMAIN counts
      PROVE  /\ counts[stamp] = Cardinality(Stamped(ids, stamp))
             /\ counts[stamp] \in Nat \ {0} /\ counts[stamp] <= n
             /\ stamp \in Nat \X Nat
  <2>1. counts[stamp] = Cardinality(Stamped(ids, stamp))
    BY <1>2
  <2>2. PICK i \in Own(ids) : stamp = ids[i].sub
    BY <1>8
  <2>3. Stamped(ids, stamp) # {}
    BY <2>2 DEF Stamped
  <2>4. stamp \in Nat \X Nat
    BY <1>1, <1>4, <2>2
  <2>5. QED
    BY <1>5, <1>7, <2>1, <2>3, <2>4
<1>10. ASSUME NEW stamp, stamp \notin DOMAIN counts PROVE Stamped(ids, stamp) = {}
  BY <1>8, <1>10 DEF Stamped
<1>11. IsFiniteSet(DOMAIN counts)
  <2> DEFINE part == [i \in Own(ids) |-> ids[i].sub]
  <2>1. DOMAIN counts = {part[i] : i \in Own(ids)} /\ part = [i \in Own(ids) |-> part[i]]
    BY <1>8
  <2>2. IsFiniteSet(Own(ids))
    BY <1>3, <1>4, FS_Subset
  <2> HIDE DEF part
  <2>3. QED
    BY <2>1, <2>2, FiniteImage
<1>12. Counted(counts, n)
  BY <1>1, <1>9 DEF Counted
<1>13. QED
  BY <1>5, <1>6, <1>8, <1>9, <1>10, <1>11, <1>12 DEF n, counts

\* boardIdentity reports one identity, whatever the order in which the map's keys come, for
\* any bus: the commonest stamp, or none if no stamp is there twice (sysinfo.go).
THEOREM IdentityNeverVaries ==
    ASSUME input \in Bus, InventoryAssumption
    PROVE  IdentityIsStable
<1> DEFINE ids == input.ids
           counts == StampCounts(ids)
           K == DOMAIN counts
           b == Leader(counts, K)
           stamp == IF b.n < 2 THEN NoStamp ELSE b.stamp
           Often(x) == Cardinality({i \in DOMAIN ids :
                           /\ ids[i].sub = x /\ ids[i].ven \in BoardVendors
                           /\ x[1] \notin BoardVendors \cup Unprogrammed})
<1>1. ids \in Seq([ven : Nat, sub : Nat \X Nat])
  BY DEF Bus
<1> HIDE DEF ids
<1>2. /\ Counted(counts, Len(ids)) /\ IsFiniteSet(K)
      /\ K = {ids[i].sub : i \in Own(ids)}
      /\ \A x : /\ Cardinality(Stamped(ids, x)) \in Nat
                /\ x \in K => counts[x] = Cardinality(Stamped(ids, x))
                /\ x \notin K => Cardinality(Stamped(ids, x)) = 0
  BY <1>1, CountsAre
<1>3. \A x : Often(x) = Cardinality(Stamped(ids, x))
  <2>1. \A x : {i \in DOMAIN ids : /\ ids[i].sub = x /\ ids[i].ven \in BoardVendors
                                   /\ x[1] \notin BoardVendors \cup Unprogrammed}
                   = Stamped(ids, x)
    BY DEF Stamped, Own
  <2>2. QED
    BY <2>1
<1>4. BoardIdentities(ids) = {stamp}
  <2>1. {Best(counts, order) : order \in SetToSeqs(K)} = {b}
    BY <1>2, OrderIsNoMatter
  <2>2. BoardIdentities(ids)
            = {IF e.n < 2 THEN NoStamp ELSE e.stamp :
                   e \in {Best(counts, order) : order \in SetToSeqs(K)}}
    BY DEF BoardIdentities
  <2> HIDE DEF counts, K, b
  <2>3. QED
    BY <2>1, <2>2
<1>5. \A x \in K : x # NoStamp
  <2>1. \A i \in Own(ids) : ids[i].sub[1] # 0
    BY DEF Own, InventoryAssumption
  <2>2. NoStamp[1] = 0
    BY DEF NoStamp
  <2> HIDE DEF K
  <2>3. QED
    BY <1>2, <2>1, <2>2
<1> HIDE DEF counts, K, Often
<1>6. /\ b.n \in Nat /\ \A x \in K : counts[x] <= b.n
      /\ b.n # 0 => b.stamp \in K /\ counts[b.stamp] = b.n
  <2>1. CASE K = {}
    BY <2>1 DEF Leader, Unmet
  <2>2. CASE K # {}
    <3>1. PICK k \in K : Leads(counts, K, k)
      BY <1>2, <2>2, LeaderExists DEF K
    <3>2. b = Entry(counts, k)
      BY <1>2, <3>1, LeaderIs DEF K
    <3>3. \A x \in K : counts[x] \in Nat
      BY <1>2 DEF Counted, K
    <3>4. \A x \in K : counts[x] <= counts[k]
      BY <3>1, <3>3 DEF Leads, Beats
    <3>5. b.n = counts[k] /\ b.stamp = k
      BY <3>2 DEF Entry
    <3>6. QED
      BY <3>3, <3>4, <3>5
  <2>3. QED
    BY <2>1, <2>2
<1>7. \A x : Often(x) <= b.n /\ Often(x) \in Nat
  <2> SUFFICES ASSUME NEW x PROVE Often(x) <= b.n /\ Often(x) \in Nat
    OBVIOUS
  <2> HIDE DEF b
  <2>1. Often(x) = Cardinality(Stamped(ids, x)) /\ Often(x) \in Nat
    BY <1>2, <1>3
  <2>2. CASE x \in K
    BY <1>2, <1>6, <2>1, <2>2
  <2>3. CASE x \notin K
    BY <1>2, <1>6, <2>1, <2>3
  <2>4. QED
    BY <2>2, <2>3
<1>8. CASE b.n < 2
  <2>1. stamp = NoStamp
    BY <1>8
  <2>2. \A x : Often(x) < 2
    BY <1>6, <1>7, <1>8
  <2>3. QED
    BY <1>4, <2>1, <2>2 DEF IdentityIsStable, ids, Often
<1>9. CASE b.n >= 2
  <2>1. stamp = b.stamp /\ b.stamp \in K /\ counts[b.stamp] = b.n
    BY <1>6, <1>9
  <2>2. stamp # NoStamp
    BY <1>5, <2>1
  <2>3. \A x : Often(x) <= Often(stamp)
    BY <1>2, <1>3, <1>7, <2>1
  <2> HIDE DEF stamp
  <2>4. QED
    BY <1>4, <2>2, <2>3 DEF IdentityIsStable, ids, Often
<1>10. QED
  BY <1>6, <1>8, <1>9

\* What the model reads as a bus is one.
BusTyped == input.kind = "bus" => input \in Bus

LEMMA InputsTyped == FunctionsSpec => []BusTyped
<1>1. FunctionsInit => BusTyped
  <2> SUFFICES ASSUME FunctionsInit, input.kind = "bus" PROVE input \in Bus
    BY DEF BusTyped
  <2>1. \A x \in Tables : x.kind # "bus"
    <3> DEFINE lists == UNION {[1 .. n -> Structures] : n \in 1 .. 2}
               Entire(l, m) == [kind |-> "table", structs |-> l, bytes |-> Encode(l) \o m]
               whole == {Entire(l, m) : l \in lists, m \in {<<>>, Marker}}
               Spoilt(w, i, c) == [kind |-> "wrong", bytes |-> [w.bytes EXCEPT ![i] = c]]
               Wrong(w) == {Spoilt(w, i, c) : i \in DOMAIN w.bytes, c \in {0, 3, 6, EndOfTable}}
    <3>1. Tables = whole \cup UNION {Wrong(w) : w \in whole}
      BY DEF Tables
    <3>2. \A l, m : Entire(l, m).kind # "bus"
      OBVIOUS
    <3>3. \A w, i, c : Spoilt(w, i, c).kind # "bus"
      OBVIOUS
    <3> HIDE DEF lists, Entire, Spoilt
    <3>4. \A x \in whole : x.kind # "bus"
      BY <3>2
    <3>5. \A w : \A x \in Wrong(w) : x.kind # "bus"
      BY <3>3
    <3> HIDE DEF whole, Wrong
    <3>6. QED
      BY <3>1, <3>4, <3>5
  <2>2. /\ \A x \in Machines : x.kind # "bus"
        /\ \A x \in CPUs : x.kind # "bus"
        /\ \A x \in Texts : x.kind # "bus"
        /\ NoInput.kind # "bus"
    <3>1. \A x \in Machines : x.kind # "bus"
      <4> DEFINE Machine(l, o) == [kind |-> "memory", sticks |-> l, structs |-> o]
                 lists == [1 .. 2 -> Sticks]
                 orders == {"arrays first", "arrays last"}
      <4>1. Machines = {Machine(l, o) : l \in lists, o \in orders}
        BY DEF Machines
      <4>2. \A l, o : Machine(l, o).kind # "bus"
        OBVIOUS
      <4> HIDE DEF Machine, lists, orders
      <4>3. QED
        BY <4>1, <4>2
    <3>2. \A x \in CPUs : x.kind # "bus"
      BY DEF CPUs
    <3>3. \A x \in Texts : x.kind # "bus"
      <4> DEFINE lists == UNION {[1 .. n -> 1 .. 4] : n \in 0 .. 5}
      <4>1. Texts = {[kind |-> "text", chars |-> c] : c \in lists}
        BY DEF Texts
      <4> HIDE DEF lists
      <4>2. QED
        BY <4>1
    <3>4. NoInput.kind # "bus"
      BY DEF NoInput
    <3>5. QED
      BY <3>1, <3>2, <3>3, <3>4
  <2>3. input \in Inputs \/ input = NoInput
    BY DEF FunctionsInit
  <2>4. input \in Buses
    BY <2>1, <2>2, <2>3 DEF Inputs
  <2>5. PICK s \in [1 .. 4 -> PCIFunctions] : input = [kind |-> "bus", ids |-> s]
    BY <2>4 DEF Buses
  <2>6. PCIFunctions \subseteq [ven : Nat, sub : Nat \X Nat]
    BY DEF PCIFunctions
  <2>7. s \in Seq([ven : Nat, sub : Nat \X Nat])
    <3> DEFINE Function == [ven : Nat, sub : Nat \X Nat]
    <3>1. s \in [1 .. 4 -> Function] /\ 4 \in Nat
      BY <2>6
    <3> HIDE DEF Function
    <3>2. s \in Seq(Function)
      BY <3>1, SeqDef
    <3>3. QED
      BY <3>2 DEF Function
  <2>8. QED
    BY <2>5, <2>7 DEF Bus
<1>2. BusTyped /\ [FunctionsNext]_functionsVars => BusTyped'
  BY DEF BusTyped, FunctionsNext, functionsVars
<1>3. QED
  BY <1>1, <1>2, PTL DEF FunctionsSpec

\* So it is for every bus of the model (sysinfo.go, boardIdentity).
THEOREM IdentityAlwaysStable == FunctionsSpec => []IdentityIsStable
<1>1. BusTyped => IdentityIsStable
  BY IdentityNeverVaries, InventoryAssumption DEF BusTyped, IdentityIsStable
<1>2. QED
  BY <1>1, InputsTyped, PTL
=============================================================================
