---------------------------- MODULE ProfileProofs ----------------------------
(***************************************************************************)
(* Profile's safety, for any hardware, builds, connections and budgets.    *)
(***************************************************************************)
EXTENDS Profile, TLAPS

\* A request at the server.
RequestType ==
    [stage : {"free", "sent", "read", "touched", "logged", "stored", "ok"},
     build : Builds \cup {NoBuild}, info : Contents, old : Builds \cup {NoBuild}]

\* A connection without a request has a value of that type.
LEMMA FreeIsTyped ==
    /\ Free \in RequestType
    /\ Free.stage = "free" /\ Free.info = None
  BY DEF Free, Contents, RequestType

\* The budget that is left stays one.
LEMMA SpendTyped ==
    ASSUME left \in [hardware : Nat, restarts : Nat, failures : Nat,
                     builds : SUBSET Builds],
           NEW what \in {"hardware", "restarts", "failures"}, Spend(what)
    PROVE  left' \in [hardware : Nat, restarts : Nat, failures : Nat,
                      builds : SUBSET Builds]
  <1>1. CASE what = "hardware" BY <1>1 DEF Spend
  <1>2. CASE what = "restarts" BY <1>2 DEF Spend
  <1>3. CASE what = "failures" BY <1>3 DEF Spend
  <1> QED BY <1>1, <1>2, <1>3

\* Every variable keeps its type.
THEOREM TypeCorrect == Spec => []TypeOK
  <1>1. ASSUME Init PROVE TypeOK
    <2>1. left \in [hardware : Nat, restarts : Nat, failures : Nat, builds : SUBSET Builds]
      BY <1>1, ProfileAssumption DEF Init
    <2>2. build \in Builds
      BY <1>1, <2>1 DEF Init
    <2>3. sentAge \in 0 .. ResendAfter
      BY <1>1, ProfileAssumption DEF Init
    <2>4. /\ info \in Contents /\ sent \in Contents
          /\ row \in [build : Builds \cup {NoBuild}, info : Contents]
      BY <1>1 DEF Init, Contents
    <2>5. reqs \in [Conns -> RequestType]
      BY <1>1, FreeIsTyped DEF Init
    <2> QED
      BY <1>1, <2>1, <2>2, <2>3, <2>4, <2>5 DEF Init, TypeOK, RequestType
  <1>2. TypeOK /\ [Next]_vars => TypeOK'
    <2> SUFFICES ASSUME TypeOK, [Next]_vars PROVE TypeOK'
      OBVIOUS
    <2> USE DEF TypeOK, RequestType
    <2>1. ASSUME NEW v \in Inventories, ChangeHardware(v) PROVE TypeOK'
      BY <2>1, SpendTyped DEF ChangeHardware, agentVars, history
    <2>2. ASSUME NEW b \in Builds, Restart(b) PROVE TypeOK'
      BY <2>2, SpendTyped, FreeIsTyped, ProfileAssumption
      DEF Restart, HangUp, Contents
    <2>3. CASE Collect
      BY <2>3 DEF Collect, computer, history, Contents
    <2>4. CASE CollectInPart
      BY <2>4, SpendTyped DEF CollectInPart, Fail, computer, history, Contents
    <2>5. CASE UploadFails
      BY <2>5, SpendTyped, FreeIsTyped DEF UploadFails, HangUp, Fail, computer, history
    <2>6. CASE Ack
      <3>1. /\ sent' \in Contents /\ doubt' \in BOOLEAN
            /\ sentAge' \in 0 .. ResendAfter
        <4>1. CASE reqs[conn].info # None
          <5>1. 0 \in 0 .. ResendAfter
            BY ProfileAssumption
          <5>2. reqs[conn].info \in Contents
            BY <2>6 DEF Ack
          <5> QED
            BY <2>6, <4>1, <5>1, <5>2 DEF Ack
        <4>2. CASE reqs[conn].info = None
          BY <2>6, <4>2 DEF Ack
        <4> QED
          BY <4>1, <4>2
      <3>2. reqs' \in [Conns -> RequestType] /\ conn' \in Conns \cup {NoConn}
        BY <2>6, FreeIsTyped DEF Ack, HangUp
      <3> QED
        BY <2>6, <3>1, <3>2 DEF Ack, computer
    <2>7. CASE PassTime
      <3>1. sentAge' \in 0 .. ResendAfter
        BY <2>7, ProfileAssumption DEF PassTime
      <3> QED
        BY <2>7, <3>1 DEF PassTime, computer, history
    <2>8. ASSUME NEW c \in Conns, BeginUpload(c) PROVE TypeOK'
      BY <2>8 DEF BeginUpload, computer, history, Contents
    <2>9. ASSUME NEW c \in Conns, TouchReads(c) PROVE TypeOK'
      <3>1. left' \in [hardware : Nat, restarts : Nat, failures : Nat,
                       builds : SUBSET Builds]
        BY <2>9, SpendTyped DEF TouchReads, Fail
      <3>2. CASE reqs' = [reqs EXCEPT ![c].stage = "read", ![c].old = row.build]
        <4> DEFINE q == [reqs[c] EXCEPT !.stage = "read", !.old = row.build]
        <4>1. q \in RequestType /\ reqs' = [reqs EXCEPT ![c] = q]
          BY <3>2
        <4> HIDE DEF q
        <4>2. reqs' \in [Conns -> RequestType]
          BY <4>1
        <4> QED
          BY <2>9, <3>1, <4>2 DEF TouchReads, computer, agentVars, history
      <3>3. CASE Enter(c, "read")
        BY <2>9, <3>1, <3>3 DEF TouchReads, Enter, computer, agentVars, history
      <3> QED
        BY <2>9, <3>2, <3>3 DEF TouchReads
    <2>10. ASSUME NEW c \in Conns, TouchUpdates(c) PROVE TypeOK'
      BY <2>10 DEF TouchUpdates, Enter, At, Event, computer, agentVars
    <2>11. ASSUME NEW c \in Conns, TouchLogs(c) PROVE TypeOK'
      <3>1. left' \in [hardware : Nat, restarts : Nat, failures : Nat,
                       builds : SUBSET Builds]
        BY <2>11, SpendTyped DEF TouchLogs, Fail
      <3>2. /\ log' \subseteq Builds \X Builds /\ moves' \subseteq Builds \X Builds
        BY <2>11 DEF TouchLogs, Event
      <3>3. reqs' = [reqs EXCEPT ![c].stage = "logged", ![c].old = NoBuild]
        BY <2>11 DEF TouchLogs
      <3>4. reqs' \in [Conns -> RequestType]
        <4> DEFINE q == [reqs[c] EXCEPT !.stage = "logged", !.old = NoBuild]
        <4>1. q \in RequestType /\ reqs' = [reqs EXCEPT ![c] = q]
          BY <3>3
        <4> HIDE DEF q
        <4> QED
          BY <4>1
      <3> QED
        BY <2>11, <3>1, <3>2, <3>4 DEF TouchLogs, computer, agentVars
    <2>12. ASSUME NEW c \in Conns, SetSystemInfo(c) PROVE TypeOK'
      <3>1. left' \in [hardware : Nat, restarts : Nat, failures : Nat,
                       builds : SUBSET Builds]
        BY <2>12, SpendTyped DEF SetSystemInfo, Fail
      <3>2. row' \in [build : Builds \cup {NoBuild}, info : Contents]
        BY <2>12 DEF SetSystemInfo
      <3>3. writer' \in Conns \cup {NoConn} /\ doubt' \in BOOLEAN
        BY <2>12 DEF SetSystemInfo
      <3> QED
        BY <2>12, <3>1, <3>2, <3>3 DEF SetSystemInfo, Enter, computer, agentVars
    <2>13. ASSUME NEW c \in Conns, Finish(c) PROVE TypeOK'
      BY <2>13, FreeIsTyped DEF Finish, Enter, computer, agentVars, history
    <2>14. ASSUME NEW c \in Conns, HandlerFails(c) PROVE TypeOK'
      BY <2>14, SpendTyped, FreeIsTyped DEF HandlerFails, Fail, computer
    <2>15. CASE UNCHANGED vars
      BY <2>15 DEF vars, computer, agentVars, history
    <2> QED
      BY <2>1, <2>2, <2>3, <2>4, <2>5, <2>6, <2>7, <2>8, <2>9, <2>10, <2>11, <2>12,
         <2>13, <2>14, <2>15 DEF Next, Handle
  <1> QED BY <1>1, <1>2, PTL DEF Spec

-----------------------------------------------------------------------------
(* The audit log.  A move is justified by the log or by a handler between its    *)
(* update and its event; no step of another takes either away.                   *)

\* A step that adds no move and disturbs no such handler.
LEMMA AuditUndisturbed ==
    ASSUME AuditComplete, moves' \subseteq moves, log \subseteq log',
           \A d \in Conns : At(d, "touched") => reqs'[d] = reqs[d]
    PROVE  AuditComplete'
  BY DEF AuditComplete, At, Event

\* Whatever the handlers' statements interleave with, no change of the build that the
\* row has seen is missing from the log once its handler has passed the event (store.go
\* TouchDevice).
THEOREM AuditIsComplete == Spec => []AuditComplete
  <1>1. Init => AuditComplete
    BY DEF Init, AuditComplete
  <1>2. TypeOK /\ AuditComplete /\ [Next]_vars => AuditComplete'
    <2> SUFFICES ASSUME TypeOK, AuditComplete, [Next]_vars PROVE AuditComplete'
      OBVIOUS
    <2>t. reqs \in [Conns -> RequestType]
      BY DEF TypeOK, RequestType
    <2>1. ASSUME NEW v \in Inventories, ChangeHardware(v) PROVE AuditComplete'
      BY <2>1, AuditUndisturbed DEF ChangeHardware, history
    <2>2. ASSUME NEW b \in Builds, Restart(b) PROVE AuditComplete'
      BY <2>2, <2>t, AuditUndisturbed DEF Restart, HangUp, At
    <2>3. CASE Collect \/ CollectInPart \/ PassTime \/ UNCHANGED vars
      BY <2>3, AuditUndisturbed DEF Collect, CollectInPart, PassTime, history, vars
    <2>4. CASE UploadFails
      BY <2>4, <2>t, AuditUndisturbed DEF UploadFails, HangUp, At, history
    <2>5. CASE Ack
      BY <2>5, <2>t, AuditUndisturbed DEF Ack, HangUp, At
    <2>6. ASSUME NEW c \in Conns, BeginUpload(c) PROVE AuditComplete'
      BY <2>6, <2>t, AuditUndisturbed DEF BeginUpload, At, history
    <2>7. ASSUME NEW c \in Conns, TouchReads(c) PROVE AuditComplete'
      <3>1. ~At(c, "touched")
        BY <2>7 DEF TouchReads, At
      <3>2. \A d \in Conns : d # c => reqs'[d] = reqs[d]
        BY <2>7, <2>t DEF TouchReads, Enter
      <3> QED
        BY <2>7, <3>1, <3>2, AuditUndisturbed DEF TouchReads, history
    <2>8. ASSUME NEW c \in Conns, TouchUpdates(c) PROVE AuditComplete'
      <3>1. ~At(c, "touched")
        BY <2>8 DEF TouchUpdates, At
      <3>2. /\ reqs'[c].stage = "touched" /\ Event(c)' = Event(c)
            /\ \A d \in Conns : d # c => reqs'[d] = reqs[d]
        BY <2>8, <2>t DEF TouchUpdates, Enter, Event
      <3>3. moves' \subseteq moves \cup Event(c) /\ log' = log
        BY <2>8 DEF TouchUpdates
      <3> QED
        BY <3>1, <3>2, <3>3 DEF AuditComplete, At, Event
    <2>9. ASSUME NEW c \in Conns, TouchLogs(c) PROVE AuditComplete'
      <3>1. \A d \in Conns : d # c => reqs'[d] = reqs[d]
        BY <2>9, <2>t DEF TouchLogs
      <3>2. \/ moves' = moves /\ log' = log \cup Event(c)
            \/ moves' = moves \ Event(c) /\ log' = log
        BY <2>9 DEF TouchLogs
      <3> QED
        BY <3>1, <3>2 DEF AuditComplete, At, Event
    <2>10. ASSUME NEW c \in Conns, SetSystemInfo(c) \/ Finish(c) PROVE AuditComplete'
      <3>1. ~At(c, "touched") /\ moves' = moves /\ log' = log
        BY <2>10 DEF SetSystemInfo, Finish, At, history
      <3>2. \A d \in Conns : d # c => reqs'[d] = reqs[d]
        BY <2>10, <2>t DEF SetSystemInfo, Finish, Enter
      <3> QED
        BY <3>1, <3>2, AuditUndisturbed
    <2>11. ASSUME NEW c \in Conns, HandlerFails(c) PROVE AuditComplete'
      <3>1. \A d \in Conns : d # c => reqs'[d] = reqs[d]
        BY <2>11, <2>t DEF HandlerFails
      <3>2. /\ moves' = IF At(c, "touched") THEN moves \ Event(c) ELSE moves
            /\ log' = log
        BY <2>11 DEF HandlerFails
      <3> QED
        BY <3>1, <3>2 DEF AuditComplete, At, Event
    <2> QED
      BY <2>1, <2>2, <2>3, <2>4, <2>5, <2>6, <2>7, <2>8, <2>9, <2>10, <2>11
      DEF Next, Handle
  <1> QED BY <1>1, <1>2, TypeCorrect, PTL DEF Spec

-----------------------------------------------------------------------------
(* The inventory.  An answer to the request that wrote the row last vouches for  *)
(* the row.                                                                      *)

WriterVouches ==
    writer # NoConn /\ reqs[writer].stage \in {"stored", "ok"} /\ reqs[writer].info # None
        => row.info = reqs[writer].info

\* A step that leaves the row and its writer alone and takes no request further.
LEMMA VouchingUndisturbed ==
    ASSUME WriterVouches, row'.info = row.info, writer' = writer,
           writer # NoConn =>
               reqs'[writer] = reqs[writer] \/ reqs'[writer].stage \notin {"stored", "ok"}
                   \/ reqs'[writer].info = None
    PROVE  WriterVouches'
  BY DEF WriterVouches

\* Nor does one that leaves the row and what the agent holds for known.
LEMMA KnownUndisturbed ==
    ASSUME KnownIsStored, row'.info = row.info, sent' \in {sent, None}, doubt' = doubt
    PROVE  KnownIsStored'
  BY DEF KnownIsStored

\* What the agent marks as sent (core.go markSystemInfoSent) is in the row, unless in
\* doubt, in whatever order requests are carried out, lost and answered.
THEOREM KnownInventoryIsStored == Spec => []KnownIsStored
  <1>1. Init => KnownIsStored /\ WriterVouches
    BY DEF Init, KnownIsStored, WriterVouches
  <1>2. TypeOK /\ KnownIsStored /\ WriterVouches /\ [Next]_vars
            => KnownIsStored' /\ WriterVouches'
    <2> SUFFICES ASSUME TypeOK, KnownIsStored, WriterVouches, [Next]_vars
                 PROVE  KnownIsStored' /\ WriterVouches'
      OBVIOUS
    <2>t. /\ reqs \in [Conns -> RequestType] /\ writer \in Conns \cup {NoConn}
          /\ row \in [build : Builds \cup {NoBuild}, info : Contents]
          /\ NoConn \notin Conns
      BY ProfileAssumption DEF TypeOK, RequestType
    <2> USE <2>t
    <2>1. CASE (\E v \in Inventories : ChangeHardware(v)) \/ Collect \/ CollectInPart
                  \/ PassTime \/ UNCHANGED vars
      <3>1. UNCHANGED <<row, writer, reqs, sent, doubt>>
        BY <2>1 DEF ChangeHardware, Collect, CollectInPart, PassTime, history, vars,
                    agentVars
      <3> QED
        BY <3>1, VouchingUndisturbed, KnownUndisturbed
    <2>2. ASSUME NEW b \in Builds, Restart(b) PROVE KnownIsStored' /\ WriterVouches'
      <3>1. UNCHANGED <<row, writer, doubt>> /\ sent' = None
        BY <2>2 DEF Restart
      <3>2. \A c \in Conns : reqs'[c] = reqs[c] \/ reqs'[c].stage = "free"
        BY <2>2, FreeIsTyped DEF Restart, HangUp
      <3> QED
        BY <3>1, <3>2, VouchingUndisturbed, KnownUndisturbed
    <2>3. CASE UploadFails
      <3>1. UNCHANGED <<row, writer, doubt, sent>>
        BY <2>3 DEF UploadFails, history
      <3>2. \A c \in Conns : reqs'[c] = reqs[c] \/ reqs'[c].stage = "free"
        BY <2>3, FreeIsTyped DEF UploadFails, HangUp
      <3> QED
        BY <3>1, <3>2, VouchingUndisturbed, KnownUndisturbed
    <2>4. CASE Ack
      <3>1. UNCHANGED <<row, writer>>
        BY <2>4 DEF Ack
      <3>2. \A c \in Conns : reqs'[c] = reqs[c] \/ reqs'[c].stage = "free"
        BY <2>4, FreeIsTyped DEF Ack, HangUp
      <3>3. KnownIsStored'
        <4>1. CASE reqs[conn].info = None
          BY <2>4, <3>1, <4>1, KnownUndisturbed DEF Ack
        <4>2. CASE reqs[conn].info # None /\ writer # conn
          BY <2>4, <4>2 DEF Ack, KnownIsStored
        <4>3. CASE reqs[conn].info # None /\ writer = conn
          <5>1. row.info = reqs[conn].info
            BY <2>4, <4>3 DEF Ack, WriterVouches
          <5> QED
            BY <2>4, <4>3, <5>1, <3>1 DEF Ack, KnownIsStored
        <4> QED
          BY <4>1, <4>2, <4>3
      <3> QED
        BY <3>1, <3>2, <3>3, VouchingUndisturbed
    <2>5. ASSUME NEW c \in Conns, BeginUpload(c) PROVE KnownIsStored' /\ WriterVouches'
      <3>1. UNCHANGED <<row, writer, doubt, sent>>
        BY <2>5 DEF BeginUpload, history
      <3>2. \A d \in Conns : reqs'[d] = reqs[d] \/ reqs'[d].stage = "sent"
        BY <2>5 DEF BeginUpload
      <3> QED
        BY <3>1, <3>2, VouchingUndisturbed, KnownUndisturbed
    <2>6. ASSUME NEW c \in Conns, TouchReads(c) \/ TouchUpdates(c) \/ TouchLogs(c)
          PROVE  KnownIsStored' /\ WriterVouches'
      <3>1. UNCHANGED <<writer, doubt, sent>> /\ row'.info = row.info
        BY <2>6 DEF TouchReads, TouchUpdates, TouchLogs, agentVars, history
      <3>2. \A d \in Conns : d # c => reqs'[d] = reqs[d]
        BY <2>6 DEF TouchReads, TouchUpdates, TouchLogs, Enter
      <3>3. reqs'[c].stage \in {"read", "touched", "logged"}
        BY <2>6 DEF TouchReads, TouchUpdates, TouchLogs, Enter, RequestType
      <3> QED
        BY <3>1, <3>2, <3>3, VouchingUndisturbed, KnownUndisturbed
    <2>7. ASSUME NEW c \in Conns, SetSystemInfo(c)
          PROVE  KnownIsStored' /\ WriterVouches'
      <3>1. sent' = sent /\ reqs'[c].info = reqs[c].info
        BY <2>7 DEF SetSystemInfo, agentVars, Enter
      <3>2. \A d \in Conns : d # c => reqs'[d] = reqs[d]
        BY <2>7 DEF SetSystemInfo, Enter
      <3>3. CASE reqs[c].info = None
        <4>1. UNCHANGED <<row, writer, doubt>>
          BY <2>7, <3>3 DEF SetSystemInfo
        <4> QED
          BY <3>1, <3>2, <3>3, <4>1, VouchingUndisturbed, KnownUndisturbed
      <3>4. CASE row' = [row EXCEPT !.info = reqs[c].info] /\ writer' = c /\ doubt' = TRUE
        BY <3>1, <3>4 DEF KnownIsStored, WriterVouches
      <3>5. CASE /\ UNCHANGED <<row, doubt>>
                 /\ writer' = IF writer = c THEN NoConn ELSE writer
        BY <3>1, <3>2, <3>5, KnownUndisturbed DEF WriterVouches
      <3> QED
        BY <2>7, <3>3, <3>4, <3>5 DEF SetSystemInfo
    <2>8. ASSUME NEW c \in Conns, Finish(c) PROVE KnownIsStored' /\ WriterVouches'
      <3>1. UNCHANGED <<row, writer, doubt, sent>>
        BY <2>8 DEF Finish, agentVars, history
      <3>2. \A d \in Conns : d # c => reqs'[d] = reqs[d]
        BY <2>8 DEF Finish, Enter
      <3>3. /\ reqs[c].stage = "stored"
            /\ reqs'[c].stage = "free" \/ reqs'[c].info = reqs[c].info
        <4>1. reqs[c].stage = "stored"
          BY <2>8 DEF Finish, At
        <4>2. CASE Enter(c, "ok")
          BY <4>1, <4>2 DEF Enter
        <4>3. CASE reqs' = [reqs EXCEPT ![c] = Free]
          BY <4>1, <4>3, FreeIsTyped
        <4> QED
          BY <2>8, <4>2, <4>3 DEF Finish
      <3>4. WriterVouches'
        BY <3>1, <3>2, <3>3 DEF WriterVouches
      <3> QED
        BY <3>1, <3>4, KnownUndisturbed
    <2>9. ASSUME NEW c \in Conns, HandlerFails(c) PROVE KnownIsStored' /\ WriterVouches'
      <3>1. UNCHANGED <<row, writer, doubt, sent>>
        BY <2>9 DEF HandlerFails
      <3>2. \A d \in Conns : reqs'[d] = reqs[d] \/ reqs'[d].stage = "free"
        BY <2>9, FreeIsTyped DEF HandlerFails
      <3> QED
        BY <3>1, <3>2, VouchingUndisturbed, KnownUndisturbed
    <2> QED
      BY <2>1, <2>2, <2>3, <2>4, <2>5, <2>6, <2>7, <2>8, <2>9 DEF Next, Handle
  <1> QED BY <1>1, <1>2, TypeCorrect, PTL DEF Spec

-----------------------------------------------------------------------------
(* Downgrades.  While the agent is replaced by newer builds only, the row's build *)
(* follows the agent's, and what a handler has noted before its update is no newer *)
(* than what it updates the row to: an abandoned request that would take the row   *)
(* back has strayed.                                                               *)

BuildsRise ==
    /\ row.build <= build
    /\ \A c \in Conns :
          /\ reqs[c].build <= build
          /\ c = conn /\ ~At(c, "free") => reqs[c].build = build
          /\ At(c, "sent") \/ At(c, "read") => reqs[c].old <= row.build
          /\ At(c, "touched") => reqs[c].old <= reqs[c].build
    /\ \A e \in log : e[1] <= e[2]

RiseInv == ~wentBack /\ ~strayed => BuildsRise

\* What is compared is a number.
LEMMA BuildsAreNumbers ==
    ASSUME TypeOK
    PROVE  /\ build \in Nat /\ row.build \in Nat /\ NoConn \notin Conns
           /\ \A c \in Conns : reqs[c].build \in Nat /\ reqs[c].old \in Nat
           /\ reqs \in [Conns -> RequestType]
           /\ row \in [build : Builds \cup {NoBuild}, info : Contents]
  <1>1. Builds \cup {NoBuild} \subseteq Nat /\ NoConn \notin Conns
    BY ProfileAssumption DEF NoBuild
  <1>2. /\ build \in Builds /\ reqs \in [Conns -> RequestType]
        /\ row \in [build : Builds \cup {NoBuild}, info : Contents]
    BY DEF TypeOK, RequestType
  <1>3. \A c \in Conns : reqs[c] \in RequestType
    BY <1>2
  <1> QED
    BY <1>1, <1>2, <1>3 DEF RequestType

\* Steps that take requests nowhere but back to nothing.
LEMMA RiseUndisturbed ==
    ASSUME TypeOK, RiseInv, UNCHANGED <<row, log, strayed>>,
           wentBack => wentBack', wentBack' \/ build <= build', build' \in Nat,
           \A c \in Conns : reqs'[c] = reqs[c] \/ reqs'[c] = Free,
           UNCHANGED <<conn, build>> \/ conn' = NoConn
    PROVE  RiseInv'
  <1>1. SUFFICES ASSUME ~wentBack', ~strayed' PROVE BuildsRise'
    BY DEF RiseInv
  <1>2. BuildsRise /\ build <= build'
    BY <1>1 DEF RiseInv
  <1>3. /\ build \in Nat /\ row.build \in Nat /\ NoConn \notin Conns
        /\ \A c \in Conns : reqs[c].build \in Nat /\ reqs[c].old \in Nat
    BY BuildsAreNumbers
  <1>4. Free.build = 0 /\ Free.stage = "free"
    BY DEF Free, NoBuild
  <1>5. ASSUME NEW c \in Conns
        PROVE  /\ reqs'[c].build <= build'
               /\ c = conn' /\ ~At(c, "free")' => reqs'[c].build = build'
               /\ (At(c, "sent") \/ At(c, "read"))' => reqs'[c].old <= row'.build
               /\ At(c, "touched")' => reqs'[c].old <= reqs'[c].build
    <2>1. CASE reqs'[c] = reqs[c]
      BY <1>2, <1>3, <2>1 DEF BuildsRise, At
    <2>2. CASE reqs'[c] = Free
      BY <1>3, <1>4, <2>2 DEF At
    <2> QED
      BY <2>1, <2>2
  <1> QED
    BY <1>2, <1>3, <1>5 DEF BuildsRise

\* The handler's statements.
LEMMA HandlersRise ==
    ASSUME TypeOK, RiseInv, NEW c \in Conns, BeginUpload(c) \/ Handle(c)
    PROVE  RiseInv'
  <1>1. SUFFICES ASSUME ~wentBack', ~strayed' PROVE BuildsRise'
    BY DEF RiseInv
  <1>2. wentBack' = wentBack /\ build' = build /\ (strayed => strayed')
    <2>1. CASE TouchUpdates(c)
      <3>1. strayed' = (strayed \/ (c # conn /\ row.build # reqs[c].build))
        BY <2>1, Zenon DEF TouchUpdates
      <3> QED
        BY <2>1, <3>1 DEF TouchUpdates, computer
    <2>2. CASE ~TouchUpdates(c)
      BY <2>2 DEF BeginUpload, Handle, TouchReads, TouchLogs, SetSystemInfo, Finish,
                  computer, history
    <2> QED
      BY <2>1, <2>2
  <1>3. BuildsRise
    BY <1>1, <1>2 DEF RiseInv
  <1>4. /\ build \in Nat /\ row.build \in Nat
        /\ \A d \in Conns : reqs[d].build \in Nat /\ reqs[d].old \in Nat
        /\ reqs \in [Conns -> RequestType] /\ row \in [build : Builds \cup {NoBuild},
                                                       info : Contents]
    BY BuildsAreNumbers
  <1>5. CASE BeginUpload(c)
    <2>1. /\ reqs'[c].stage = "sent" /\ reqs'[c].build = build /\ reqs'[c].old = 0
          /\ \A d \in Conns \ {c} : reqs'[d] = reqs[d]
      BY <1>4, <1>5 DEF BeginUpload, NoBuild
    <2>2. conn = NoConn /\ conn' = c /\ UNCHANGED <<row, log>>
      BY <1>5 DEF BeginUpload
    <2> QED
      BY <1>2, <1>3, <1>4, <2>1, <2>2 DEF BuildsRise, At
  <1>6. CASE TouchReads(c)
    <2>1. UNCHANGED <<row, log, conn>> /\ \A d \in Conns \ {c} : reqs'[d] = reqs[d]
      BY <1>4, <1>6 DEF TouchReads, Enter, agentVars
    <2>2. reqs[c].stage = "sent" /\ reqs'[c].stage = "read" /\ reqs'[c].build = reqs[c].build
      BY <1>4, <1>6 DEF TouchReads, Enter, At, RequestType
    <2>3. reqs'[c].old = row.build \/ reqs'[c].old = reqs[c].old
      BY <1>4, <1>6 DEF TouchReads, Enter, RequestType
    <2> QED
      BY <1>2, <1>3, <1>4, <2>1, <2>2, <2>3 DEF BuildsRise, At
  <1>7. CASE TouchUpdates(c)
    <2>1. /\ UNCHANGED <<log, conn>> /\ row'.build = reqs[c].build
          /\ reqs'[c].stage = "touched" /\ reqs'[c].build = reqs[c].build
          /\ reqs'[c].old = reqs[c].old /\ reqs[c].stage = "read"
          /\ \A d \in Conns \ {c} : reqs'[d] = reqs[d]
      BY <1>4, <1>7 DEF TouchUpdates, Enter, At, agentVars, RequestType
    <2>2. c = conn \/ row.build = reqs[c].build
      <3>1. strayed' = (strayed \/ (c # conn /\ row.build # reqs[c].build))
        BY <1>7, Zenon DEF TouchUpdates
      <3> QED
        BY <1>1, <3>1
    <2>3. row.build <= reqs[c].build /\ reqs[c].build <= build /\ reqs[c].old <= row.build
      BY <1>3, <1>4, <2>1, <2>2 DEF BuildsRise, At
    <2> QED
      BY <1>2, <1>3, <1>4, <2>1, <2>3 DEF BuildsRise, At
  <1>8. CASE TouchLogs(c)
    <2>1. /\ UNCHANGED <<row, conn>> /\ reqs[c].stage = "touched"
          /\ reqs'[c].stage = "logged" /\ reqs'[c].build = reqs[c].build
          /\ \A d \in Conns \ {c} : reqs'[d] = reqs[d]
      BY <1>4, <1>8 DEF TouchLogs, At, agentVars, RequestType
    <2>2. \A e \in log' : e \in log \/ e = <<reqs[c].old, reqs[c].build>>
      BY <1>8 DEF TouchLogs, Event
    <2> QED
      BY <1>2, <1>3, <1>4, <2>1, <2>2 DEF BuildsRise, At
  <1>9. CASE SetSystemInfo(c)
    <2>1. /\ UNCHANGED <<log, conn>> /\ row'.build = row.build
          /\ reqs'[c].stage = "stored" /\ reqs[c].stage # "free"
          /\ reqs'[c].build = reqs[c].build
          /\ \A d \in Conns \ {c} : reqs'[d] = reqs[d]
      BY <1>4, <1>9 DEF SetSystemInfo, Enter, At, agentVars, RequestType
    <2> QED
      BY <1>2, <1>3, <1>4, <2>1 DEF BuildsRise, At
  <1>10. CASE Finish(c)
    <2>1. /\ UNCHANGED <<row, log, conn>> /\ reqs[c].stage = "stored"
          /\ \A d \in Conns \ {c} : reqs'[d] = reqs[d]
      BY <1>4, <1>10 DEF Finish, Enter, At, agentVars, history
    <2>2. \/ reqs'[c].stage = "ok" /\ reqs'[c].build = reqs[c].build
          \/ reqs'[c].stage = "free" /\ reqs'[c].build = 0
      BY <1>4, <1>10 DEF Finish, Enter, RequestType, Free, NoBuild
    <2> QED
      BY <1>2, <1>3, <1>4, <2>1, <2>2 DEF BuildsRise, At
  <1> QED
    BY <1>5, <1>6, <1>7, <1>8, <1>9, <1>10 DEF Handle

\* The audit log accuses no device of a downgrade without a cause (store.go
\* TouchDevice): an agent replaced by an older build, or an abandoned request that is
\* carried out late, whatever else is reordered, lost or retried.
THEOREM DowngradesHaveCause == Spec => []DowngradeHasCause
  <1>1. Init => RiseInv
    <2> SUFFICES ASSUME Init PROVE BuildsRise
      BY DEF RiseInv
    <2>1. build \in Nat
      BY ProfileAssumption DEF Init
    <2> QED
      BY <2>1 DEF Init, BuildsRise, Free, NoBuild, At
  <1>2. TypeOK /\ RiseInv /\ [Next]_vars => RiseInv'
    <2> SUFFICES ASSUME TypeOK, RiseInv, [Next]_vars PROVE RiseInv'
      OBVIOUS
    <2>t. build \in Nat /\ reqs \in [Conns -> RequestType] /\ Builds \subseteq Nat
      BY ProfileAssumption DEF TypeOK, RequestType
    <2> USE <2>t
    <2>1. CASE (\E v \in Inventories : ChangeHardware(v)) \/ Collect \/ CollectInPart
                  \/ PassTime \/ UNCHANGED vars
      <3>1. UNCHANGED <<build, row, log, strayed, wentBack, reqs, conn>>
        BY <2>1 DEF ChangeHardware, Collect, CollectInPart, PassTime, computer, history,
                    vars, agentVars
      <3> QED
        BY <3>1, RiseUndisturbed
    <2>2. ASSUME NEW b \in Builds, Restart(b) PROVE RiseInv'
      <3>1. UNCHANGED <<row, log, strayed>> /\ build' = b /\ conn' = NoConn
        BY <2>2 DEF Restart, HangUp
      <3>2. (wentBack => wentBack') /\ (wentBack' \/ build <= build')
        <4>1. wentBack' = (wentBack \/ b < build)
          BY <2>2, Zenon DEF Restart
        <4>2. (wentBack => wentBack') /\ (~wentBack' => ~(b < build))
          BY <4>1, Zenon
        <4>3. ~(b < build) => build <= b
          BY BuildsAreNumbers
        <4> QED
          BY <3>1, <4>2, <4>3
      <3>3. \A c \in Conns : reqs'[c] = reqs[c] \/ reqs'[c] = Free
        BY <2>2 DEF Restart, HangUp
      <3> QED
        BY <3>1, <3>2, <3>3, RiseUndisturbed
    <2>3. CASE UploadFails \/ Ack
      <3>1. UNCHANGED <<build, row, log, strayed, wentBack>> /\ conn' = NoConn
        BY <2>3 DEF UploadFails, Ack, HangUp, computer, history
      <3>2. \A c \in Conns : reqs'[c] = reqs[c] \/ reqs'[c] = Free
        BY <2>3 DEF UploadFails, Ack, HangUp
      <3> QED
        BY <3>1, <3>2, RiseUndisturbed
    <2>4. ASSUME NEW c \in Conns, HandlerFails(c) PROVE RiseInv'
      <3>1. /\ UNCHANGED <<build, row, log, strayed, wentBack>>
            /\ conn' = conn \/ conn' = NoConn
        BY <2>4 DEF HandlerFails, computer
      <3>2. \A d \in Conns : reqs'[d] = reqs[d] \/ reqs'[d] = Free
        BY <2>4 DEF HandlerFails
      <3> QED
        BY <3>1, <3>2, RiseUndisturbed
    <2> QED
      BY <2>1, <2>2, <2>3, <2>4, HandlersRise DEF Next
  <1>3. TypeOK /\ RiseInv => DowngradeHasCause
    <2> SUFFICES ASSUME TypeOK, RiseInv, NEW e \in log, e[2] < e[1], ~wentBack, ~strayed
                 PROVE  FALSE
      BY DEF DowngradeHasCause
    <2>1. e[1] \in Nat /\ e[2] \in Nat
      BY ProfileAssumption DEF TypeOK
    <2>2. e[1] <= e[2]
      BY DEF RiseInv, BuildsRise
    <2> QED
      BY <2>1, <2>2
  <1> QED
    BY <1>1, <1>2, <1>3, TypeCorrect, PTL DEF Spec
=============================================================================
