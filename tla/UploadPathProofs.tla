--------------------------- MODULE UploadPathProofs ---------------------------
(* Proofs about UploadPath and its buffers, for every capacity, window, skew and *)
(* clock bound: types, custody, order, and that it implements Delivery.          *)
EXTENDS UploadPath, SequenceTheorems, TLAPS

-----------------------------------------------------------------------------
(* What the operations of BoundedBuffer keep, drop and bound.                    *)

(* A push keeps a buffer a buffer of the same elements, within its capacity. *)
LEMMA PushType ==
    ASSUME NEW S, NEW s \in Seq(S), NEW x \in S, NEW max \in Nat \ {0},
           Len(s) <= max
    PROVE  /\ PushDropOldest(s, x, max) \in Seq(S)
           /\ Len(PushDropOldest(s, x, max)) <= max
<1> DEFINE t == Append(s, x)
<1>1. t \in Seq(S) /\ Len(t) = Len(s) + 1
  BY AppendProperties
<1>2. CASE Len(t) > max
  <2>1. \A i \in Len(t) - max + 1 .. Len(t) : t[i] \in S
    BY <1>1, <1>2, ElementOfSeq
  <2>2. /\ SubSeq(t, Len(t) - max + 1, Len(t)) \in Seq(S)
        /\ Len(SubSeq(t, Len(t) - max + 1, Len(t))) = max
    BY <1>1, <1>2, <2>1, SubSeqProperties
  <2> QED  BY <1>2, <2>2 DEF PushDropOldest
<1>3. CASE Len(t) <= max
  BY <1>1, <1>3 DEF PushDropOldest
<1> QED  BY <1>1, <1>2, <1>3

(* A push loses no entry but those DroppedByPush names. *)
LEMMA PushEntries ==
    ASSUME NEW S, NEW s \in Seq(S), NEW x \in S, NEW max \in Nat \ {0}
    PROVE  Entries(s) \cup {x}
             = Entries(PushDropOldest(s, x, max)) \cup DroppedByPush(s, x, max)
<1> DEFINE t == Append(s, x)
           k == Len(t) - max
           p == PushDropOldest(s, x, max)
<1>1. /\ t \in Seq(S) /\ Len(t) = Len(s) + 1 /\ Len(s) \in Nat
      /\ \A i \in 1 .. Len(s) : t[i] = s[i]
      /\ t[Len(s) + 1] = x
  BY AppendProperties
<1>2. Entries(s) \cup {x} = Entries(t)
  BY <1>1 DEF Entries
<1>3. DroppedByPush(s, x, max) = {t[i] : i \in 1 .. k}
  BY DEF DroppedByPush
<1>4. p = IF k > 0 THEN SubSeq(t, k + 1, Len(t)) ELSE t
  BY <1>1 DEF PushDropOldest
<1>5. Len(t) \in Nat
  BY <1>1
<1> HIDE DEF t, p
<1>6. CASE k > 0
  <2>1. \A i \in k + 1 .. Len(t) : t[i] \in S
    BY <1>1, <1>6, ElementOfSeq
  <2>2. /\ Len(SubSeq(t, k + 1, Len(t))) = IF k + 1 <= Len(t) THEN Len(t) - (k + 1) + 1 ELSE 0
        /\ \A i \in 1 .. Len(t) - (k + 1) + 1 : SubSeq(t, k + 1, Len(t))[i] = t[(k + 1) + i - 1]
    BY <1>5, <2>1, SubSeqProperties
  <2>3. Len(p) = max
    BY <1>4, <1>5, <1>6, <2>2
  <2>4. ASSUME NEW i \in 1 .. max PROVE p[i] = t[k + i]
    BY <1>4, <1>5, <1>6, <2>2
  <2>5. ASSUME NEW i \in 1 .. Len(t)
        PROVE  t[i] \in Entries(p) \cup DroppedByPush(s, x, max)
    <3>1. CASE i <= k
      BY <3>1, <1>3, <1>5
    <3>2. CASE i > k
      <4>1. i - k \in 1 .. max /\ k + (i - k) = i
        BY <3>2, <1>5
      <4>2. p[i - k] = t[i]
        BY <4>1, <2>4
      <4> QED  BY <4>1, <4>2, <2>3 DEF Entries
    <3> QED  BY <3>1, <3>2, <1>5
  <2>6. Entries(p) \subseteq Entries(t)
    <3>1. ASSUME NEW i \in 1 .. Len(p) PROVE p[i] \in Entries(t)
      <4>1. k + i \in 1 .. Len(t)
        BY <2>3, <1>5, <1>6
      <4> QED  BY <4>1, <2>3, <2>4 DEF Entries
    <3> QED  BY <3>1 DEF Entries
  <2>7. DroppedByPush(s, x, max) \subseteq Entries(t)
    BY <1>3, <1>5 DEF Entries
  <2>8. Entries(t) \subseteq Entries(p) \cup DroppedByPush(s, x, max)
    BY <2>5 DEF Entries
  <2> QED  BY <1>2, <2>6, <2>7, <2>8 DEF p
<1>7. CASE ~(k > 0)
  <2>1. DroppedByPush(s, x, max) = {}
    BY <1>3, <1>5, <1>7
  <2> QED  BY <1>2, <1>4, <1>7, <2>1 DEF p
<1> QED  BY <1>6, <1>7

(* A push that drops nothing leaves the earlier entries where they are. *)
LEMMA PushKeepsHead ==
    ASSUME NEW S, NEW s \in Seq(S), NEW x \in S, NEW max \in Nat \ {0},
           DroppedByPush(s, x, max) = {}
    PROVE  /\ Len(PushDropOldest(s, x, max)) = Len(s) + 1
           /\ \A i \in 1 .. Len(s) : PushDropOldest(s, x, max)[i] = s[i]
<1>1. /\ Append(s, x) \in Seq(S) /\ Len(Append(s, x)) = Len(s) + 1 /\ Len(s) \in Nat
      /\ \A i \in 1 .. Len(s) : Append(s, x)[i] = s[i]
  BY AppendProperties
<1>2. ~(Len(Append(s, x)) > max)
  <2> SUFFICES ASSUME Len(Append(s, x)) > max PROVE FALSE
    OBVIOUS
  <2>1. 1 \in 1 .. Len(Append(s, x)) - max
    BY <1>1
  <2> QED  BY <2>1 DEF DroppedByPush
<1> QED  BY <1>1, <1>2 DEF PushDropOldest

(* Acknowledging n entries removes the first n and keeps the others in place. *)
LEMMA DropFirstProperties ==
    ASSUME NEW S, NEW s \in Seq(S), NEW n \in Nat
    PROVE  /\ DropFirst(s, n) \in Seq(S)
           /\ Len(DropFirst(s, n)) <= Len(s)
           /\ \A i \in n + 1 .. Len(s) : s[i] \in Entries(DropFirst(s, n))
           /\ Entries(DropFirst(s, n)) \subseteq Entries(s)
<1>1. Len(s) \in Nat
  BY LenProperties
<1>2. CASE n >= Len(s)
  BY <1>1, <1>2, EmptySeq DEF DropFirst, Entries
<1>3. CASE n < Len(s)
  <2> DEFINE d == SubSeq(s, n + 1, Len(s))
  <2>1. \A i \in n + 1 .. Len(s) : s[i] \in S
    BY <1>1, <1>3, ElementOfSeq
  <2>2. /\ d \in Seq(S) /\ Len(d) = Len(s) - n
        /\ \A i \in 1 .. Len(s) - n : d[i] = s[n + i]
    BY <1>1, <1>3, <2>1, SubSeqProperties
  <2>3. DropFirst(s, n) = d
    BY <1>1, <1>3 DEF DropFirst
  <2>4. ASSUME NEW i \in n + 1 .. Len(s) PROVE s[i] \in Entries(d)
    <3>1. i - n \in 1 .. Len(d) /\ d[i - n] = s[i]
      BY <1>1, <2>2
    <3> QED  BY <3>1 DEF Entries
  <2>5. Entries(d) \subseteq Entries(s)
    BY <1>1, <2>2 DEF Entries
  <2> QED  BY <1>1, <1>3, <2>2, <2>3, <2>4, <2>5
<1> QED  BY <1>1, <1>2, <1>3

(* The entries of a buffer of S are in S. *)
LEMMA EntriesType ==
    ASSUME NEW S, NEW s \in Seq(S)
    PROVE  Entries(s) \subseteq S
BY ElementOfSeq DEF Entries

-----------------------------------------------------------------------------
(* The upload path.                                                              *)

(* Enqueue accounts for the sample it adds and for every one it drops. *)
LEMMA QueuePush ==
    ASSUME NEW b \in Seq(Int), NEW t \in Int
    PROVE  Entries(b) \cup {t} = Entries(PushDropOldest(b, t, MaxQueue))
                                    \cup DroppedByPush(b, t, MaxQueue)
<1>1. MaxQueue \in Nat \ {0}
  BY UploadAssumption
<1>2. \A S, s, x : s \in Seq(S) /\ x \in S =>
         Entries(s) \cup {x} = Entries(PushDropOldest(s, x, MaxQueue))
                                 \cup DroppedByPush(s, x, MaxQueue)
  BY <1>1, PushEntries
<1> QED  BY <1>2, Zenon

(* recordTransition does so for the event it adds. *)
LEMMA EventPush ==
    ASSUME NEW b \in Seq(EventType), NEW e \in EventType
    PROVE  Entries(b) \cup {e} = Entries(PushDropOldest(b, e, MaxEvents))
                                    \cup DroppedByPush(b, e, MaxEvents)
BY PushEntries, UploadAssumption

(* A free connection is a well-formed request record. *)
LEMMA FreeReqType == FreeReq \in ReqType
BY EmptySeq DEF FreeReq, ReqType

(* When the agent hangs up, a connection stays as it is or becomes free. *)
LEMMA HangUpType ==
    ASSUME TypeOK, NEW c \in Conns \cup {NoConn}
    PROVE  /\ HangUp(reqs, c) \in [Conns -> ReqType]
           /\ \A d \in Conns : HangUp(reqs, c)[d] \in {reqs[d], FreeReq}
BY FreeReqType DEF HangUp, TypeOK

(* When the server answers, the other connections are untouched. *)
LEMMA AnswerType ==
    ASSUME TypeOK, NEW c \in Conns, NEW g \in {"ok", "err"}, Answer(c, g)
    PROVE  /\ reqs' \in [Conns -> ReqType]
           /\ \A d \in Conns : d # c => reqs'[d] = reqs[d]
           /\ reqs'[c] = IF c = conn THEN [reqs[c] EXCEPT !.stage = g] ELSE FreeReq
<1>1. reqs \in [Conns -> ReqType] /\ reqs[c] \in ReqType
  BY DEF TypeOK
<1>2. [reqs[c] EXCEPT !.stage = g] \in ReqType
  BY <1>1 DEF ReqType
<1> QED  BY <1>1, <1>2, FreeReqType DEF Answer

(* Every step keeps every variable in its type and both buffers within bounds. *)
LEMMA TypeStep == TypeOK /\ [Next]_vars => TypeOK'
<1> SUFFICES ASSUME TypeOK, [Next]_vars PROVE TypeOK'
  OBVIOUS
<1> USE UploadAssumption
<1>0. now \in Nat /\ ClientTime \in Int
  BY DEF TypeOK, ClientTime
<1>1. CASE TickSample
  <2>1. buf' \in Seq(Int) /\ Len(buf') <= MaxQueue
    BY <1>0, <1>1, PushType DEF TickSample, Enqueue, TypeOK
  <2>2. disk' \in {buf', disk}
    BY <1>1 DEF TickSample, Enqueue, Persist
  <2>3. disk' \in Seq(Int) /\ Len(disk') <= MaxQueue
    <3>1. CASE disk' = buf'
      BY <3>1, <2>1
    <3>2. CASE disk' = disk
      BY <3>2 DEF TypeOK
    <3> QED  BY <2>2, <3>1, <3>2
  <2>4. Entries(buf) \cup {ClientTime} \subseteq Int
    BY <1>0, EntriesType DEF TypeOK
  <2>5. DroppedByPush(buf, ClientTime, MaxQueue) \subseteq Int
    <3>1. buf \in Seq(Int) /\ MaxQueue \in Nat \ {0}
      BY DEF TypeOK
    <3> QED  BY <1>0, <2>4, <3>1, PushEntries
  <2>6. now' \in Nat /\ tick' = "flush" /\ conn' = NoConn
    BY <1>0, <1>1 DEF TickSample, TypeOK
  <2> QED
    BY <1>0, <1>1, <2>1, <2>3, <2>5, <2>6 DEF TickSample, Enqueue, TypeOK, serverVars
<1>2. CASE TickSampleError
  BY <1>2 DEF TickSampleError, TypeOK, serverVars, history
<1>3. CASE FlushNothing
  BY <1>3 DEF FlushNothing, TypeOK, serverVars, history
<1>4. ASSUME NEW c \in Conns, BeginUpload(c) PROVE TypeOK'
  <2>1. reqs' \in [Conns -> ReqType]
    BY <1>4 DEF BeginUpload, TypeOK, ReqType
  <2> QED  BY <1>4, <2>1 DEF BeginUpload, TypeOK, serverVars, history
<1>5. CASE UploadFails
  <2>1. HangUp(reqs, conn) \in [Conns -> ReqType]
    BY HangUpType DEF TypeOK
  <2> QED  BY <1>5, <2>1 DEF UploadFails, TypeOK, serverVars, history
<1>6. CASE AckSamples
  <2>1. conn \in Conns
    BY <1>6 DEF AckSamples, TypeOK
  <2>2. reqs[conn] \in ReqType
    BY <2>1 DEF TypeOK
  <2>3. Len(reqs[conn].samples) \in Nat
    BY <2>2, LenProperties DEF ReqType
  <2>4. buf' \in Seq(Int) /\ Len(buf') <= Len(buf)
    BY <1>6, <2>3, DropFirstProperties DEF AckSamples, TypeOK
  <2>5. Len(buf') <= MaxQueue
    BY <2>4, LenProperties DEF TypeOK
  <2>6. disk' \in Seq(Int) /\ Len(disk') <= MaxQueue
    <3>1. CASE disk' = buf'
      BY <3>1, <2>4, <2>5
    <3>2. CASE disk' = disk
      BY <3>2 DEF TypeOK
    <3> QED  BY <1>6, <3>1, <3>2 DEF AckSamples, Persist
  <2>7. tick' = "ackEvents" /\ conn' = conn
    BY <1>6 DEF AckSamples
  <2> QED  BY <1>6, <2>1, <2>4, <2>5, <2>6, <2>7 DEF AckSamples, TypeOK, serverVars, history
<1>7. CASE AckEvents
  <2>1. conn \in Conns
    BY <1>7 DEF AckEvents, TypeOK
  <2>2. reqs[conn] \in ReqType
    BY <2>1 DEF TypeOK
  <2>3. Len(reqs[conn].events) \in Nat
    BY <2>2, LenProperties DEF ReqType
  <2>4. pend' \in Seq(EventType) /\ Len(pend') <= Len(pend)
    BY <1>7, <2>3, DropFirstProperties DEF AckEvents, TypeOK
  <2>5. Len(pend') <= MaxEvents
    BY <2>4, LenProperties DEF TypeOK
  <2>6. reqs' \in [Conns -> ReqType]
    BY <1>7, HangUpType DEF AckEvents, TypeOK
  <2> QED  BY <1>7, <2>4, <2>5, <2>6 DEF AckEvents, TypeOK, serverVars, history
<1>8. ASSUME NEW on \in MonitorStates, RecordTransition(on) PROVE TypeOK'
  <2> DEFINE e == [ts |-> ClientTime, on |-> on]
  <2>1. e \in EventType
    BY <1>0 DEF EventType
  <2> HIDE DEF e
  <2>2. /\ pend' = PushDropOldest(pend, e, MaxEvents)
        /\ recordedEv' = recordedEv \cup {e}
        /\ excusedEv' = excusedEv \cup DroppedByPush(pend, e, MaxEvents)
        /\ overrun' = (overrun \/ (DroppedByPush(pend, e, MaxEvents) # {} /\ conn # NoConn))
    BY <1>8 DEF RecordTransition, e
  <2>3. pend' \in Seq(EventType) /\ Len(pend') <= MaxEvents
    BY <2>1, <2>2, PushType DEF TypeOK
  <2>4. Entries(pend) \subseteq EventType
    BY EntriesType DEF TypeOK
  <2>5. DroppedByPush(pend, e, MaxEvents) \subseteq EventType
    BY <2>1, <2>4, PushEntries DEF TypeOK
  <2>6. recordedEv' \subseteq EventType /\ excusedEv' \subseteq EventType
    BY <2>1, <2>2, <2>5 DEF TypeOK
  <2>7. overrun' \in BOOLEAN
    BY <2>2 DEF TypeOK
  <2>8. now' \in Nat /\ lastOn' \in {-1, 0, 1}
    BY <1>0, <1>8 DEF RecordTransition
  <2> QED
    BY <1>8, <2>3, <2>6, <2>7, <2>8 DEF RecordTransition, TypeOK, serverVars
<1>9. CASE Stop
  <2>1. HangUp(reqs, conn) \in [Conns -> ReqType]
    BY HangUpType DEF TypeOK
  <2>2. Entries(buf) \subseteq Int /\ Entries(pend) \subseteq EventType
    BY EntriesType DEF TypeOK
  <2>3. buf' = <<>> /\ buf' \in Seq(Int) /\ Len(buf') <= MaxQueue
    BY <1>9, EmptySeq DEF Stop
  <2>4. pend' = <<>> /\ pend' \in Seq(EventType) /\ Len(pend') <= MaxEvents
    BY <1>9, EmptySeq DEF Stop
  <2>5. excused' \subseteq Int /\ excusedEv' \subseteq EventType
    BY <1>9, <2>2 DEF Stop, TypeOK
  <2> QED  BY <1>9, <2>1, <2>3, <2>4, <2>5 DEF Stop, TypeOK, serverVars
<1>10. ASSUME NEW readable \in BOOLEAN, Start(readable) PROVE TypeOK'
  <2>1. Entries(disk) \subseteq Int
    BY EntriesType DEF TypeOK
  <2>2. buf' \in Seq(Int) /\ Len(buf') <= MaxQueue
    BY <1>10, EmptySeq DEF Start, TypeOK
  <2>3. excused' \subseteq Int
    BY <1>10, <2>1 DEF Start, TypeOK
  <2> QED  BY <1>10, <2>2, <2>3 DEF Start, TypeOK, serverVars
<1>11. CASE PassTime
  BY <1>0, <1>11 DEF PassTime, TypeOK, agentVars, serverVars, history
<1>12a. ASSUME NEW c \in Conns, Receive(c) PROVE TypeOK'
  <2>1. reqs' \in [Conns -> ReqType]
    BY <1>0, <1>12a DEF Receive, TypeOK, ReqType
  <2> QED  BY <1>12a, <2>1 DEF Receive, TypeOK, agentVars, serverVars, history
<1>12. ASSUME NEW c \in Conns, InsertSamples(c) PROVE TypeOK'
  <2>1. reqs[c] \in ReqType
    BY DEF TypeOK
  <2>2. Entries(reqs[c].samples) \subseteq Int
    BY <2>1, EntriesType DEF ReqType
  <2>3. reqs' \in [Conns -> ReqType]
    BY <1>12, <2>1 DEF InsertSamples, TypeOK, ReqType
  <2>4. samples' \subseteq Int /\ excused' \subseteq Int
    BY <1>12, <2>2 DEF InsertSamples, TypeOK
  <2> QED  BY <1>12, <2>3, <2>4 DEF InsertSamples, TypeOK, agentVars
<1>13. ASSUME NEW c \in Conns, InsertMonitorEvents(c) PROVE TypeOK'
  <2>1. reqs[c] \in ReqType
    BY DEF TypeOK
  <2>2. Entries(reqs[c].events) \subseteq EventType
    BY <2>1, EntriesType DEF ReqType
  <2>3. reqs' \in [Conns -> ReqType]
    BY <1>13, AnswerType DEF InsertMonitorEvents
  <2>4. events' \subseteq EventType /\ excusedEv' \subseteq EventType
    BY <1>13, <2>2 DEF InsertMonitorEvents, TypeOK
  <2> QED  BY <1>13, <2>3, <2>4 DEF InsertMonitorEvents, TypeOK, agentVars
<1>14. ASSUME NEW c \in Conns, HandlerFails(c) PROVE TypeOK'
  <2>1. reqs' \in [Conns -> ReqType]
    BY <1>14, AnswerType DEF HandlerFails
  <2> QED  BY <1>14, <2>1 DEF HandlerFails, TypeOK, agentVars, serverVars, history
<1>15. CASE UNCHANGED vars
  BY <1>15 DEF vars, TypeOK, agentVars, serverVars, history
<1>16. CASE Next
  BY <1>1, <1>2, <1>3, <1>4, <1>5, <1>6, <1>7, <1>8, <1>9, <1>10, <1>11,
     <1>12a, <1>12, <1>13, <1>14, <1>16, Zenon DEF Next
<1> QED  BY <1>15, <1>16

(* The initial state is well typed. *)
LEMMA TypeInit == Init => TypeOK
<1> SUFFICES ASSUME Init PROVE TypeOK
  OBVIOUS
<1>1. /\ <<>> \in Seq(Int) /\ <<>> \in Seq(EventType)
      /\ Len(<<>>) <= MaxQueue /\ Len(<<>>) <= MaxEvents
  BY EmptySeq, UploadAssumption
<1>2. reqs \in [Conns -> ReqType]
  BY FreeReqType DEF Init
<1> QED  BY <1>1, <1>2, UploadAssumption DEF Init, TypeOK

(* Type correctness: in every reachable state of one device's upload path both *)
(* buffers respect their capacity and the cycle holds a connection exactly     *)
(* between sending a batch and acknowledging it.                               *)
THEOREM TypeCorrect == Spec => []TypeOK
BY TypeInit, TypeStep, PTL DEF Spec

-----------------------------------------------------------------------------
(* Steps that start no request and finish no transaction. *)
Quiet ==
    \/ TickSample \/ TickSampleError \/ FlushNothing
    \/ UploadFails \/ AckSamples \/ AckEvents
    \/ Stop \/ PassTime
    \/ \E readable \in BOOLEAN : Start(readable)
    \/ \E on \in MonitorStates : RecordTransition(on)
    \/ UNCHANGED vars

(* Every step is quiet, starts a request or is a step of its handler. *)
LEMMA StepKinds ==
    [Next]_vars <=> \/ Quiet
                    \/ \E c \in Conns : \/ BeginUpload(c) \/ Receive(c)
                                        \/ InsertSamples(c) \/ InsertMonitorEvents(c)
                                        \/ HandlerFails(c)
BY Zenon DEF Next, Quiet

(* A free connection carries nothing. *)
LEMMA FreeReqEmpty ==
    /\ FreeReq.stage = "free"
    /\ Entries(FreeReq.samples) = {} /\ Entries(FreeReq.events) = {}
BY DEF FreeReq, Entries

(* A quiet step at most closes connections and adds nothing to the tables. *)
LEMMA QuietStep ==
    ASSUME TypeOK, Quiet
    PROVE  /\ \A c \in Conns : reqs'[c] \in {reqs[c], FreeReq}
           /\ samples' = samples /\ events' = events
           /\ excused \subseteq excused' /\ excusedEv \subseteq excusedEv'
           /\ overrun => overrun'
<1> USE DEF serverVars, history, agentVars
<1>0. \A c \in Conns : HangUp(reqs, conn)[c] \in {reqs[c], FreeReq}
  BY HangUpType DEF TypeOK
<1>1. CASE TickSample
  BY <1>1 DEF TickSample, Enqueue
<1>2. CASE TickSampleError
  BY <1>2 DEF TickSampleError
<1>3. CASE FlushNothing
  BY <1>3 DEF FlushNothing
<1>4. CASE UploadFails
  BY <1>0, <1>4 DEF UploadFails
<1>5. CASE AckSamples
  BY <1>5 DEF AckSamples
<1>6. CASE AckEvents
  BY <1>0, <1>6 DEF AckEvents
<1>7. CASE Stop
  BY <1>0, <1>7 DEF Stop
<1>8. CASE PassTime
  BY <1>8 DEF PassTime
<1>9. ASSUME NEW readable \in BOOLEAN, Start(readable)
      PROVE  /\ reqs' = reqs
             /\ samples' = samples /\ events' = events
             /\ excused \subseteq excused' /\ excusedEv' = excusedEv
             /\ overrun' = overrun
  BY <1>9 DEF Start
<1>10. ASSUME NEW on \in MonitorStates, RecordTransition(on)
       PROVE  /\ reqs' = reqs
              /\ samples' = samples /\ events' = events
              /\ excused' = excused /\ excusedEv \subseteq excusedEv'
              /\ overrun => overrun'
  BY <1>10 DEF RecordTransition
<1>11. CASE UNCHANGED vars
  BY <1>11 DEF vars
<1> QED
  BY <1>1, <1>2, <1>3, <1>4, <1>5, <1>6, <1>7, <1>8, <1>9, <1>10, <1>11 DEF Quiet

(* Committed rows stay committed, and only a transaction commits rows. *)
LEMMA CommittedStep ==
    TypeOK /\ CommittedIsStored /\ [Next]_vars => CommittedIsStored'
<1> SUFFICES ASSUME TypeOK, CommittedIsStored, [Next]_vars PROVE CommittedIsStored'
  OBVIOUS
<1>1. CASE Quiet
  BY <1>1, QuietStep, FreeReqEmpty DEF CommittedIsStored
<1>2. ASSUME NEW c \in Conns, BeginUpload(c) PROVE CommittedIsStored'
  BY <1>2 DEF BeginUpload, CommittedIsStored, TypeOK, serverVars, history
<1>2a. ASSUME NEW c \in Conns, Receive(c) PROVE CommittedIsStored'
  <2>1. /\ \A d \in Conns : d # c => reqs'[d] = reqs[d]
        /\ reqs'[c].stage = "read"
    BY <1>2a DEF Receive, TypeOK, ReqType
  <2> QED  BY <1>2a, <2>1 DEF Receive, CommittedIsStored, serverVars, history
<1>3. ASSUME NEW c \in Conns, InsertSamples(c) PROVE CommittedIsStored'
  BY <1>3 DEF InsertSamples, CommittedIsStored, TypeOK, ReqType
<1>4. ASSUME NEW c \in Conns, InsertMonitorEvents(c) PROVE CommittedIsStored'
  <2>1. /\ \A d \in Conns : d # c => reqs'[d] = reqs[d]
        /\ reqs'[c] \in {FreeReq, [reqs[c] EXCEPT !.stage = "ok"]}
    BY <1>4, AnswerType DEF InsertMonitorEvents
  <2>2. reqs[c] \in ReqType
    BY DEF TypeOK
  <2>3. Entries(reqs[c].events) \subseteq events' \cup excusedEv'
    BY <1>4 DEF InsertMonitorEvents
  <2>4. Entries(reqs[c].samples) \subseteq samples' \cup excused'
    BY <1>4 DEF InsertMonitorEvents, CommittedIsStored
  <2> QED
    BY <1>4, <2>1, <2>2, <2>3, <2>4, FreeReqEmpty
    DEF InsertMonitorEvents, CommittedIsStored, ReqType
<1>5. ASSUME NEW c \in Conns, HandlerFails(c) PROVE CommittedIsStored'
  <2>1. /\ \A d \in Conns : d # c => reqs'[d] = reqs[d]
        /\ reqs'[c] \in {FreeReq, [reqs[c] EXCEPT !.stage = "err"]}
    BY <1>5, AnswerType DEF HandlerFails
  <2>2. reqs[c] \in ReqType
    BY DEF TypeOK
  <2> QED
    BY <1>5, <2>1, <2>2, FreeReqEmpty
    DEF HandlerFails, CommittedIsStored, ReqType, serverVars, history
<1> QED  BY <1>1, <1>2, <1>2a, <1>3, <1>4, <1>5, StepKinds

(* Only a process that runs holds something in memory. *)
LEMMA DownStep == DownHoldsNothing /\ [Next]_vars => DownHoldsNothing'
<1> SUFFICES ASSUME DownHoldsNothing, [Next]_vars PROVE DownHoldsNothing'
  OBVIOUS
<1> USE DEF DownHoldsNothing, agentVars
<1>1. CASE Quiet
  <2>1. CASE up /\ up'
    BY <2>1
  <2>2. CASE Stop
    BY <2>2 DEF Stop
  <2>3. CASE PassTime
    BY <2>3 DEF PassTime
  <2>4. CASE UNCHANGED vars
    BY <2>4 DEF vars
  <2>5. ASSUME NEW readable \in BOOLEAN, Start(readable) PROVE up'
    BY <2>5 DEF Start
  <2>6. ASSUME NEW on \in MonitorStates, RecordTransition(on) PROVE up /\ up'
    BY <2>6 DEF RecordTransition
  <2>7. TickSample \/ TickSampleError \/ FlushNothing \/ UploadFails
           \/ AckSamples \/ AckEvents => up /\ up'
    BY DEF TickSample, TickSampleError, FlushNothing, UploadFails, AckSamples, AckEvents
  <2> QED  BY <1>1, <2>1, <2>2, <2>3, <2>4, <2>5, <2>6, <2>7 DEF Quiet
<1>2. ASSUME NEW c \in Conns, BeginUpload(c) \/ Receive(c) \/ InsertSamples(c)
                 \/ InsertMonitorEvents(c) \/ HandlerFails(c)
      PROVE  DownHoldsNothing'
  BY <1>2 DEF BeginUpload, Receive, InsertSamples, InsertMonitorEvents, HandlerFails
<1> QED  BY <1>1, <1>2, StepKinds

(* The cycle's batch stays the queue, and the head of the event buffer. *)
LEMMA BatchStep ==
    TypeOK /\ DownHoldsNothing /\ BatchInFlight /\ [Next]_vars => BatchInFlight'
<1> SUFFICES ASSUME TypeOK, DownHoldsNothing, BatchInFlight, [Next]_vars PROVE BatchInFlight'
  OBVIOUS
<1> USE UploadAssumption DEF agentVars, history, serverVars
<1>1. ASSUME tick' \in {"idle", "flush"}, conn' = NoConn PROVE BatchInFlight'
  BY <1>1 DEF BatchInFlight
<1>2. CASE Quiet
  <2>1. CASE TickSample
    BY <1>1, <2>1 DEF TickSample, TypeOK
  <2>2. CASE TickSampleError
    BY <1>1, <2>2 DEF TickSampleError, TypeOK
  <2>3. CASE FlushNothing \/ UploadFails \/ AckEvents \/ Stop
    BY <1>1, <2>3 DEF FlushNothing, UploadFails, AckEvents, Stop, TypeOK
  <2>4. CASE AckSamples
    BY <2>4 DEF AckSamples, BatchInFlight
  <2>5. CASE PassTime
    BY <2>5 DEF PassTime, BatchInFlight
  <2>6. ASSUME NEW readable \in BOOLEAN, Start(readable) PROVE BatchInFlight'
    BY <1>1, <2>6 DEF Start, DownHoldsNothing, TypeOK
  <2>7. ASSUME NEW on \in MonitorStates, RecordTransition(on) PROVE BatchInFlight'
    <3> DEFINE e == [ts |-> ClientTime, on |-> on]
    <3>1. e \in EventType
      BY DEF EventType, TypeOK, ClientTime
    <3>2. /\ pend' = PushDropOldest(pend, e, MaxEvents)
          /\ overrun' = (overrun \/ (DroppedByPush(pend, e, MaxEvents) # {} /\ conn # NoConn))
      BY <2>7 DEF RecordTransition
    <3> HIDE DEF e
    <3>3. /\ UNCHANGED <<buf, tick, conn, reqs>>
      BY <2>7 DEF RecordTransition
    <3>4. pend \in Seq(EventType) /\ Len(pend) \in Nat
      BY LenProperties DEF TypeOK
    <3>5. CASE DroppedByPush(pend, e, MaxEvents) = {} /\ conn # NoConn
      <4>1. /\ Len(pend') = Len(pend) + 1
            /\ \A i \in 1 .. Len(pend) : pend'[i] = pend[i]
        BY <3>1, <3>2, <3>4, <3>5, PushKeepsHead
      <4>2. reqs[conn] \in ReqType
        BY <3>5 DEF TypeOK
      <4>3. Len(reqs[conn].events) \in Nat
        BY <4>2, LenProperties DEF ReqType
      <4> QED  BY <3>2, <3>3, <3>4, <3>5, <4>1, <4>3 DEF BatchInFlight, TypeOK
    <3>6. CASE ~(DroppedByPush(pend, e, MaxEvents) = {}) /\ conn # NoConn
      BY <3>2, <3>3, <3>6 DEF BatchInFlight
    <3>7. CASE conn = NoConn
      BY <1>1, <3>3, <3>7 DEF TypeOK
    <3> QED  BY <3>5, <3>6, <3>7
  <2>8. CASE UNCHANGED vars
    BY <2>8 DEF BatchInFlight, vars
  <2> QED  BY <1>2, <2>1, <2>2, <2>3, <2>4, <2>5, <2>6, <2>7, <2>8 DEF Quiet
<1>3. ASSUME NEW c \in Conns, BeginUpload(c) PROVE BatchInFlight'
  BY <1>3, LenProperties DEF BeginUpload, BatchInFlight, TypeOK
<1>4. ASSUME NEW c \in Conns, Receive(c) \/ InsertSamples(c) PROVE BatchInFlight'
  <2>1. /\ \A d \in Conns : /\ reqs'[d].samples = reqs[d].samples
                            /\ reqs'[d].events = reqs[d].events
        /\ \A d \in Conns : d # c => reqs'[d].stage = reqs[d].stage
        /\ reqs[c].stage \in {"sent", "read"}
    <3>1. reqs \in [Conns -> ReqType] /\ reqs[c] \in ReqType
      BY DEF TypeOK
    <3>2. CASE Receive(c)
      BY <3>1, <3>2 DEF Receive, ReqType
    <3>3. CASE InsertSamples(c)
      BY <3>1, <3>3 DEF InsertSamples, ReqType
    <3> QED  BY <1>4, <3>2, <3>3
  <2>2. UNCHANGED <<buf, pend, tick, conn, overrun>>
    BY <1>4 DEF Receive, InsertSamples
  <2>3. tick \in {"wait", "ackEvents"} => conn \in Conns
    BY DEF TypeOK
  <2>4. tick = "ackEvents" => conn # c
    BY <2>1 DEF BatchInFlight
  <2>5. conn # NoConn => conn \in Conns
    BY DEF TypeOK
  <2>6. /\ tick' = "wait" => reqs'[conn'].samples = buf'
        /\ tick' = "ackEvents" => reqs'[conn'].stage = "ok"
    BY <2>1, <2>2, <2>3, <2>4 DEF BatchInFlight
  <2> QED  BY <2>1, <2>2, <2>5, <2>6 DEF BatchInFlight
<1>5. ASSUME NEW c \in Conns, InsertMonitorEvents(c) \/ HandlerFails(c)
      PROVE  BatchInFlight'
  <2>1. UNCHANGED <<buf, pend, tick, conn, overrun>> /\ reqs[c].stage \in {"sent", "read", "half"}
    BY <1>5 DEF InsertMonitorEvents, HandlerFails
  <2>2. CASE c = conn
    <3>1. reqs'[c] \in {[reqs[c] EXCEPT !.stage = g] : g \in {"ok", "err"}}
      BY <1>5, <2>2, AnswerType DEF InsertMonitorEvents, HandlerFails
    <3>2. reqs'[c].samples = reqs[c].samples /\ reqs'[c].events = reqs[c].events
      BY <3>1 DEF TypeOK, ReqType
    <3>3. tick # "ackEvents"
      BY <2>1, <2>2 DEF BatchInFlight
    <3> QED  BY <2>1, <2>2, <3>2, <3>3 DEF BatchInFlight
  <2>3. CASE c # conn /\ conn # NoConn
    <3>1. reqs'[conn] = reqs[conn]
      BY <1>5, <2>3, AnswerType DEF InsertMonitorEvents, HandlerFails, TypeOK
    <3> QED  BY <2>1, <2>3, <3>1 DEF BatchInFlight
  <2>4. CASE conn = NoConn
    BY <1>1, <2>1, <2>4 DEF TypeOK
  <2> QED  BY <2>2, <2>3, <2>4
<1> QED  BY <1>2, <1>3, <1>4, <1>5, StepKinds

(* Nothing is invented: tables, buffers and requests hold what was recorded. *)
LEMMA RecordedStep == TypeOK /\ AllRecorded /\ [Next]_vars => AllRecorded'
<1> SUFFICES ASSUME TypeOK, AllRecorded, [Next]_vars PROVE AllRecorded'
  OBVIOUS
<1> USE UploadAssumption DEF agentVars, history, serverVars
<1>0. /\ now \in Nat /\ Skew \in Int
      /\ buf \in Seq(Int) /\ disk \in Seq(Int) /\ pend \in Seq(EventType)
      /\ recorded \subseteq Int /\ recordedEv \subseteq EventType
  BY DEF TypeOK
<1>1. CASE TickSample
  <2>1. Entries(buf') \subseteq Entries(buf) \cup {ClientTime}
    <3>1. ClientTime \in Int
      BY <1>0 DEF ClientTime
    <3>2. buf' = PushDropOldest(buf, ClientTime, MaxQueue)
      BY <1>1 DEF TickSample, Enqueue
    <3> QED  BY <1>0, <3>1, <3>2, QueuePush
  <2>2. disk' \in {buf', disk}
    BY <1>1 DEF TickSample, Enqueue, Persist
  <2>3. recorded' = recorded \cup {ClientTime} /\ now' = now + 1
    BY <1>1 DEF TickSample, Enqueue
  <2>4. \A t \in recorded' : t < ClientTime'
    BY <1>0, <2>3 DEF AllRecorded, ClientTime
  <2>5. \A e \in recordedEv' : e.ts < ClientTime'
    BY <1>0, <1>1 DEF AllRecorded, ClientTime, TickSample, EventType
  <2>6. samples' \cup Entries(buf') \cup Entries(disk') \subseteq recorded'
    BY <1>1, <2>1, <2>2, <2>3 DEF TickSample, AllRecorded
  <2> QED  BY <1>1, <2>3, <2>4, <2>5, <2>6 DEF TickSample, AllRecorded
<1>2. CASE TickSampleError
  BY <1>2 DEF TickSampleError, AllRecorded, ClientTime
<1>3. CASE FlushNothing
  BY <1>3 DEF FlushNothing, AllRecorded, ClientTime
<1>4. CASE UploadFails
  BY <1>4, HangUpType, FreeReqEmpty DEF UploadFails, AllRecorded, ClientTime, TypeOK
<1>5. CASE AckSamples
  <2>1. reqs[conn] \in ReqType
    BY <1>5 DEF AckSamples, TypeOK
  <2>2. Len(reqs[conn].samples) \in Nat
    BY <2>1, LenProperties DEF ReqType
  <2>3. Entries(buf') \subseteq Entries(buf)
    BY <1>0, <1>5, <2>2, DropFirstProperties DEF AckSamples
  <2>4. disk' \in {buf', disk}
    BY <1>5 DEF AckSamples, Persist
  <2>5. samples' \cup Entries(buf') \cup Entries(disk') \subseteq recorded'
    BY <1>5, <2>3, <2>4 DEF AckSamples, AllRecorded
  <2> QED  BY <1>5, <2>5 DEF AckSamples, AllRecorded, ClientTime
<1>6. CASE AckEvents
  <2>1. reqs[conn] \in ReqType
    BY <1>6 DEF AckEvents, TypeOK
  <2>2. Len(reqs[conn].events) \in Nat
    BY <2>1, LenProperties DEF ReqType
  <2>3. Entries(pend') \subseteq Entries(pend)
    BY <1>0, <1>6, <2>2, DropFirstProperties DEF AckEvents
  <2>4. \A c \in Conns : HangUp(reqs, conn)[c] \in {reqs[c], FreeReq}
    BY HangUpType DEF TypeOK
  <2> QED  BY <1>6, <2>3, <2>4, FreeReqEmpty DEF AckEvents, AllRecorded, ClientTime
<1>7. CASE Stop
  <2>1. Entries(buf') = {} /\ Entries(pend') = {}
    BY <1>7 DEF Stop, Entries
  <2>2. \A c \in Conns : HangUp(reqs, conn)[c] \in {reqs[c], FreeReq}
    BY HangUpType DEF TypeOK
  <2> QED  BY <1>7, <2>1, <2>2, FreeReqEmpty DEF Stop, AllRecorded, ClientTime
<1>8. CASE PassTime
  <2>1. \A t \in recorded : t < ClientTime'
    BY <1>0, <1>8 DEF PassTime, AllRecorded, ClientTime
  <2>2. \A e \in recordedEv : e.ts < ClientTime'
    BY <1>0, <1>8 DEF PassTime, AllRecorded, ClientTime, EventType
  <2> QED  BY <1>8, <2>1, <2>2 DEF PassTime, AllRecorded
<1>9. ASSUME NEW readable \in BOOLEAN, Start(readable) PROVE AllRecorded'
  <2>1. Entries(buf') \subseteq Entries(disk) /\ disk' = disk
    BY <1>9 DEF Start, Entries
  <2> QED  BY <1>9, <2>1 DEF Start, AllRecorded, ClientTime
<1>10. ASSUME NEW on \in MonitorStates, RecordTransition(on) PROVE AllRecorded'
  <2> DEFINE e == [ts |-> ClientTime, on |-> on]
  <2>1. e \in EventType /\ e.ts = ClientTime
    BY <1>0 DEF EventType, ClientTime
  <2>2. /\ pend' = PushDropOldest(pend, e, MaxEvents)
        /\ recordedEv' = recordedEv \cup {e}
        /\ now' = now + 1
    BY <1>10 DEF RecordTransition
  <2> HIDE DEF e
  <2>3. Entries(pend') \subseteq Entries(pend) \cup {e}
    BY <1>0, <2>1, <2>2, PushEntries
  <2>4. \A d \in recordedEv' : d.ts < ClientTime'
    BY <1>0, <2>1, <2>2 DEF AllRecorded, ClientTime, EventType
  <2>5. \A t \in recorded : t < ClientTime'
    BY <1>0, <2>2 DEF AllRecorded, ClientTime
  <2> QED  BY <1>10, <2>2, <2>3, <2>4, <2>5 DEF RecordTransition, AllRecorded
<1>11. ASSUME NEW c \in Conns, BeginUpload(c) PROVE AllRecorded'
  BY <1>11 DEF BeginUpload, AllRecorded, ClientTime, TypeOK
<1>11a. ASSUME NEW c \in Conns, Receive(c) PROVE AllRecorded'
  <2>1. \A d \in Conns : /\ reqs'[d].samples = reqs[d].samples
                         /\ reqs'[d].events = reqs[d].events
    BY <1>11a DEF Receive, TypeOK, ReqType
  <2> QED  BY <1>11a, <2>1 DEF Receive, AllRecorded, ClientTime
<1>12. ASSUME NEW c \in Conns, InsertSamples(c) PROVE AllRecorded'
  <2>1. \A d \in Conns : /\ reqs'[d].samples = reqs[d].samples
                         /\ reqs'[d].events = reqs[d].events
    BY <1>12 DEF InsertSamples, TypeOK, ReqType
  <2>2. samples' \subseteq samples \cup Entries(reqs[c].samples)
    BY <1>12 DEF InsertSamples
  <2> QED  BY <1>12, <2>1, <2>2 DEF InsertSamples, AllRecorded, ClientTime
<1>13. ASSUME NEW c \in Conns, NEW g \in {"ok", "err"}, Answer(c, g)
       PROVE  \A d \in Conns : /\ Entries(reqs'[d].samples) \subseteq recorded
                               /\ Entries(reqs'[d].events) \subseteq recordedEv
  <2>1. reqs[c] \in ReqType
    BY DEF TypeOK
  <2>2. [reqs[c] EXCEPT !.stage = g].samples = reqs[c].samples
        /\ [reqs[c] EXCEPT !.stage = g].events = reqs[c].events
    BY <2>1 DEF ReqType
  <2>3. /\ Entries(reqs'[c].samples) \subseteq Entries(reqs[c].samples)
        /\ Entries(reqs'[c].events) \subseteq Entries(reqs[c].events)
    <3>1. reqs'[c] = IF c = conn THEN [reqs[c] EXCEPT !.stage = g] ELSE FreeReq
      BY <1>13, AnswerType
    <3> QED  BY <2>2, <3>1, FreeReqEmpty
  <2>4. \A d \in Conns : d # c => reqs'[d] = reqs[d]
    BY <1>13, AnswerType
  <2> QED  BY <2>3, <2>4 DEF AllRecorded
<1>14. ASSUME NEW c \in Conns, InsertMonitorEvents(c) PROVE AllRecorded'
  <2>1. events' \subseteq events \cup Entries(reqs[c].events)
    BY <1>14 DEF InsertMonitorEvents
  <2> QED  BY <1>13, <1>14, <2>1 DEF InsertMonitorEvents, AllRecorded, ClientTime
<1>15. ASSUME NEW c \in Conns, HandlerFails(c) PROVE AllRecorded'
  BY <1>13, <1>15 DEF HandlerFails, AllRecorded, ClientTime
<1>16. CASE UNCHANGED vars
  BY <1>16 DEF vars, AllRecorded, ClientTime
<1> QED
  BY <1>1, <1>2, <1>3, <1>4, <1>5, <1>6, <1>7, <1>8, <1>9, <1>10, <1>11, <1>11a,
     <1>12, <1>14, <1>15, <1>16, StepKinds, Zenon DEF Quiet

(* A quiet step records at most a sample and an event stamped now. *)
LEMMA QuietRecords ==
    ASSUME Quiet
    PROVE  /\ \A t \in recorded' : t \in recorded \/ t = ClientTime
           /\ \A e \in recordedEv' : e \in recordedEv \/ e.ts = ClientTime
<1> USE DEF history
<1>1. CASE TickSample
  BY <1>1 DEF TickSample, Enqueue
<1>2. ASSUME NEW on \in MonitorStates, RecordTransition(on)
      PROVE  /\ \A t \in recorded' : t \in recorded
             /\ \A e \in recordedEv' : e \in recordedEv \/ e.ts = ClientTime
  BY <1>2 DEF RecordTransition
<1>3. ASSUME NEW readable \in BOOLEAN, Start(readable)
      PROVE  UNCHANGED <<recorded, recordedEv>>
  BY <1>3 DEF Start
<1>4. TickSampleError \/ FlushNothing \/ UploadFails \/ AckSamples \/ AckEvents
         \/ Stop \/ PassTime \/ UNCHANGED vars => UNCHANGED <<recorded, recordedEv>>
  BY DEF TickSampleError, FlushNothing, UploadFails, AckSamples, AckEvents,
         Stop, PassTime, vars
<1> QED  BY <1>1, <1>2, <1>3, <1>4 DEF Quiet

(* The queue never gives up a sample the server has not committed. *)
LEMMA SampleCustodyStep ==
    ASSUME TypeOK, BatchInFlight, CommittedIsStored, SampleCustody, [Next]_vars
    PROVE  SampleCustody'
<1> USE DEF SampleCustody, Held, agentVars, serverVars, history
<1>1. ASSUME UNCHANGED <<up, buf, disk, recorded>>,
             samples \subseteq samples', excused \subseteq excused'
      PROVE  SampleCustody'
  BY <1>1
<1>2. CASE TickSample
  <2>1. buf \in Seq(Int) /\ ClientTime \in Int
    BY UploadAssumption DEF TypeOK, ClientTime
  <2>2. Entries(buf) \cup {ClientTime} = Entries(buf') \cup DroppedByPush(buf, ClientTime, MaxQueue)
    BY <1>2, <2>1, QueuePush DEF TickSample, Enqueue
  <2>3. /\ recorded' = recorded \cup {ClientTime}
        /\ excused' = excused \cup DroppedByPush(buf, ClientTime, MaxQueue)
        /\ samples' = samples /\ up /\ up'
    BY <1>2 DEF TickSample, Enqueue
  <2> QED  BY <2>2, <2>3
<1>3. CASE AckSamples
  <2>1. Entries(buf) \subseteq samples \cup excused
    BY <1>3 DEF AckSamples, BatchInFlight, CommittedIsStored, TypeOK
  <2> QED  BY <1>3, <2>1 DEF AckSamples
<1>4. CASE Stop
  BY <1>4 DEF Stop
<1>5. ASSUME NEW readable \in BOOLEAN, Start(readable) PROVE SampleCustody'
  BY <1>5 DEF Start
<1>6. CASE TickSampleError \/ FlushNothing \/ UploadFails \/ AckEvents
              \/ PassTime \/ UNCHANGED vars
  <2>1. UNCHANGED <<up, buf, disk, recorded, samples, excused>>
    BY <1>6 DEF TickSampleError, FlushNothing, UploadFails, AckEvents, PassTime, vars
  <2> QED  BY <1>1, <2>1
<1>7. ASSUME NEW on \in MonitorStates, RecordTransition(on) PROVE SampleCustody'
  BY <1>1, <1>7 DEF RecordTransition
<1>8. ASSUME NEW c \in Conns, BeginUpload(c) \/ Receive(c) \/ InsertSamples(c)
                 \/ InsertMonitorEvents(c) \/ HandlerFails(c)
      PROVE  SampleCustody'
  <2>1. /\ UNCHANGED <<up, buf, disk, recorded>>
        /\ samples \subseteq samples' /\ excused \subseteq excused'
    BY <1>8 DEF BeginUpload, Receive, InsertSamples, InsertMonitorEvents, HandlerFails
  <2> QED  BY <1>1, <2>1
<1> QED
  BY <1>2, <1>3, <1>4, <1>5, <1>6, <1>7, <1>8, StepKinds, Zenon DEF Quiet

(* Nor, while it does not overflow during an upload, does the event buffer. *)
LEMMA EventCustodyStep ==
    ASSUME TypeOK, BatchInFlight, CommittedIsStored, EventCustody, [Next]_vars
    PROVE  EventCustody'
<1> USE DEF EventCustody, agentVars, serverVars, history
<1>1. ASSUME UNCHANGED <<pend, recordedEv, overrun>>,
             events \subseteq events', excusedEv \subseteq excusedEv'
      PROVE  EventCustody'
  BY <1>1
<1>2. ASSUME NEW on \in MonitorStates, RecordTransition(on) PROVE EventCustody'
  <2> DEFINE e == [ts |-> ClientTime, on |-> on]
  <2>1. e \in EventType /\ pend \in Seq(EventType)
    BY UploadAssumption DEF EventType, TypeOK, ClientTime
  <2>2. /\ pend' = PushDropOldest(pend, e, MaxEvents)
        /\ recordedEv' = recordedEv \cup {e}
        /\ excusedEv' = excusedEv \cup DroppedByPush(pend, e, MaxEvents)
        /\ overrun => overrun'
        /\ events' = events
    BY <1>2 DEF RecordTransition
  <2> HIDE DEF e
  <2>3. Entries(pend) \cup {e} = Entries(pend') \cup DroppedByPush(pend, e, MaxEvents)
    BY <2>1, <2>2, EventPush
  <2> QED  BY <2>2, <2>3
<1>3. CASE AckEvents
  <2> DEFINE sent == reqs[conn].events
  <2>1. conn \in Conns /\ reqs[conn].stage = "ok"
    BY <1>3 DEF AckEvents, BatchInFlight, TypeOK
  <2>2. reqs[conn] \in ReqType /\ pend \in Seq(EventType)
    BY <2>1 DEF TypeOK
  <2>3. Len(sent) \in Nat /\ Len(pend) \in Nat
    BY <2>2, LenProperties DEF ReqType
  <2>4. pend' = DropFirst(pend, Len(sent))
    BY <1>3 DEF AckEvents
  <2>5. \A i \in Len(sent) + 1 .. Len(pend) : pend[i] \in Entries(pend')
    BY <2>2, <2>3, <2>4, DropFirstProperties
  <2>6. Entries(sent) \subseteq events \cup excusedEv
    BY <2>1 DEF CommittedIsStored
  <2>7. ASSUME ~overrun PROVE Entries(pend) \subseteq Entries(pend') \cup events \cup excusedEv
    <3>1. ASSUME NEW i \in 1 .. Len(pend)
          PROVE  pend[i] \in Entries(pend') \cup events \cup excusedEv
      <4>1. CASE i <= Len(sent)
        <5>1. conn # NoConn
          BY <2>1, UploadAssumption
        <5>2. i \in 1 .. Len(sent) /\ pend[i] = sent[i]
          BY <2>3, <2>7, <4>1, <5>1 DEF BatchInFlight
        <5>3. pend[i] \in Entries(sent)
          BY <5>2 DEF Entries
        <5> QED  BY <2>6, <5>3
      <4>2. CASE ~(i <= Len(sent))
        BY <2>3, <2>5, <4>2
      <4> QED  BY <4>1, <4>2
    <3> QED  BY <3>1 DEF Entries
  <2>8. UNCHANGED <<events, recordedEv, excusedEv, overrun>>
    BY <1>3 DEF AckEvents
  <2> QED  BY <2>7, <2>8
<1>4. CASE Stop
  BY <1>4 DEF Stop
<1>5. ASSUME NEW readable \in BOOLEAN, Start(readable) PROVE EventCustody'
  BY <1>1, <1>5 DEF Start
<1>6. CASE TickSample \/ TickSampleError \/ FlushNothing \/ UploadFails \/ AckSamples
              \/ PassTime \/ UNCHANGED vars
  <2>1. UNCHANGED <<pend, recordedEv, overrun, events, excusedEv>>
    BY <1>6 DEF TickSample, TickSampleError, FlushNothing, UploadFails, AckSamples,
                PassTime, vars
  <2> QED  BY <1>1, <2>1
<1>7. ASSUME NEW c \in Conns, BeginUpload(c) \/ Receive(c) \/ InsertSamples(c)
                 \/ InsertMonitorEvents(c) \/ HandlerFails(c)
      PROVE  EventCustody'
  <2>1. /\ UNCHANGED <<pend, recordedEv, overrun>>
        /\ events \subseteq events' /\ excusedEv \subseteq excusedEv'
    BY <1>7 DEF BeginUpload, Receive, InsertSamples, InsertMonitorEvents, HandlerFails
  <2> QED  BY <1>1, <2>1
<1> QED
  BY <1>2, <1>3, <1>4, <1>5, <1>6, <1>7, StepKinds, Zenon DEF Quiet

(* A request keeps carrying all that is older than its newest unstored entry. *)
LEMMA NoHoleStep ==
    ASSUME TypeOK, DownHoldsNothing, AllRecorded, SampleCustody, EventCustody,
           RequestHasNoHole, [Next]_vars
    PROVE  RequestHasNoHole'
<1> USE DEF serverVars, history, agentVars
<1>0. recorded \subseteq Int /\ recordedEv \subseteq EventType /\ ClientTime \in Int
  BY UploadAssumption DEF TypeOK, ClientTime
<1>1. CASE Quiet
  <2>1. /\ \A c \in Conns : reqs'[c] \in {reqs[c], FreeReq}
        /\ samples' = samples /\ events' = events
        /\ excused \subseteq excused' /\ excusedEv \subseteq excusedEv'
        /\ overrun => overrun'
    BY <1>1, QuietStep
  <2>2. ASSUME NEW c \in Conns, reqs'[c].stage \in {"sent", "read"},
               NEW t \in Entries(reqs'[c].samples), NEW s \in recorded', s < t
        PROVE  s \in samples' \cup excused' \cup Entries(reqs'[c].samples)
    <3>1. reqs'[c] = reqs[c] /\ t \in recorded
      BY <2>1, <2>2, FreeReqEmpty DEF AllRecorded
    <3>2. t < ClientTime
      BY <3>1 DEF AllRecorded
    <3>3. s \in recorded
      BY <1>0, <1>1, <2>2, <3>1, <3>2, QuietRecords
    <3> QED  BY <2>1, <2>2, <3>1, <3>3 DEF RequestHasNoHole
  <2>3. ASSUME NEW c \in Conns, reqs'[c].stage \in {"sent", "read", "half"}, ~overrun',
               NEW e \in Entries(reqs'[c].events), NEW d \in recordedEv', d.ts < e.ts
        PROVE  d \in events' \cup excusedEv' \cup Entries(reqs'[c].events)
    <3>1. reqs'[c] = reqs[c] /\ e \in recordedEv /\ ~overrun
      BY <2>1, <2>3, FreeReqEmpty DEF AllRecorded
    <3>2. e.ts < ClientTime /\ e.ts \in Int
      BY <1>0, <3>1 DEF AllRecorded, EventType
    <3>3. d \in recordedEv
      BY <1>0, <1>1, <2>3, <3>2, QuietRecords
    <3> QED  BY <2>1, <2>3, <3>1, <3>3 DEF RequestHasNoHole
  <2> QED  BY <2>2, <2>3 DEF RequestHasNoHole
<1>2. ASSUME NEW c \in Conns, BeginUpload(c) PROVE RequestHasNoHole'
  <2>1. /\ UNCHANGED <<samples, events, recorded, recordedEv, excused, excusedEv, overrun>>
        /\ \A d \in Conns : d # c => reqs'[d] = reqs[d]
        /\ reqs'[c] = [stage |-> "sent", samples |-> buf, events |-> pend, at |-> 0]
        /\ up
    BY <1>2 DEF BeginUpload, TypeOK
  <2>2. recorded \subseteq samples \cup Entries(buf) \cup excused
    BY <2>1 DEF SampleCustody, Held
  <2>3. ~overrun => recordedEv \subseteq events \cup Entries(pend) \cup excusedEv
    BY DEF EventCustody
  <2> QED  BY <2>1, <2>2, <2>3 DEF RequestHasNoHole
<1>2a. ASSUME NEW c \in Conns, Receive(c) PROVE RequestHasNoHole'
  <2>1. /\ \A d \in Conns : /\ reqs'[d].samples = reqs[d].samples
                            /\ reqs'[d].events = reqs[d].events
        /\ \A d \in Conns : d # c => reqs'[d].stage = reqs[d].stage
        /\ reqs'[c].stage = "read" /\ reqs[c].stage = "sent"
    BY <1>2a DEF Receive, TypeOK, ReqType
  <2>2. UNCHANGED <<samples, events, recorded, recordedEv, excused, excusedEv, overrun>>
    BY <1>2a DEF Receive
  <2> QED  BY <2>1, <2>2 DEF RequestHasNoHole
<1>3. ASSUME NEW c \in Conns, InsertSamples(c) PROVE RequestHasNoHole'
  <2>1. /\ \A d \in Conns : d # c => reqs'[d] = reqs[d]
        /\ reqs'[c].stage = "half" /\ reqs'[c].events = reqs[c].events
        /\ reqs[c].stage = "read"
    BY <1>3 DEF InsertSamples, TypeOK, ReqType
  <2>2. /\ UNCHANGED <<events, recorded, recordedEv, excusedEv, overrun>>
        /\ samples \subseteq samples' /\ excused \subseteq excused'
    BY <1>3 DEF InsertSamples
  <2> QED  BY <2>1, <2>2 DEF RequestHasNoHole
<1>4. ASSUME NEW c \in Conns, InsertMonitorEvents(c) \/ HandlerFails(c)
      PROVE  RequestHasNoHole'
  <2>1. /\ \A d \in Conns : d # c => reqs'[d] = reqs[d]
        /\ reqs'[c].stage \in {"free", "ok", "err"}
    <3>1. \E g \in {"ok", "err"} : Answer(c, g)
      BY <1>4 DEF InsertMonitorEvents, HandlerFails
    <3>2. reqs[c] \in ReqType
      BY DEF TypeOK
    <3> QED  BY <3>1, <3>2, AnswerType, FreeReqEmpty DEF ReqType
  <2>2. /\ UNCHANGED <<samples, excused, recorded, recordedEv, overrun>>
        /\ events \subseteq events' /\ excusedEv \subseteq excusedEv'
    BY <1>4 DEF InsertMonitorEvents, HandlerFails
  <2> QED  BY <2>1, <2>2 DEF RequestHasNoHole
<1> QED  BY <1>1, <1>2, <1>2a, <1>3, <1>4, StepKinds

(* So no row arrives ahead of an older one that may still come. *)
LEMMA OvertakeStep ==
    ASSUME TypeOK, AllRecorded, RequestHasNoHole, NoSampleOvertakes, NoEventOvertakes,
           [Next]_vars
    PROVE  NoSampleOvertakes' /\ NoEventOvertakes'
<1> USE DEF serverVars, history, agentVars
<1>0. recorded \subseteq Int /\ recordedEv \subseteq EventType /\ ClientTime \in Int
  BY UploadAssumption DEF TypeOK, ClientTime
<1>1. CASE Quiet
  <2>1. /\ samples' = samples /\ events' = events
        /\ excused \subseteq excused' /\ excusedEv \subseteq excusedEv'
        /\ overrun => overrun'
    BY <1>1, QuietStep
  <2>2. ASSUME NEW t \in samples', NEW s \in recorded', s < t
        PROVE  s \in samples' \cup excused'
    <3>1. t \in samples /\ t \in Int /\ t < ClientTime
      BY <1>0, <2>1 DEF AllRecorded
    <3>2. s \in recorded
      BY <1>0, <1>1, <2>2, <3>1, QuietRecords
    <3> QED  BY <2>1, <2>2, <3>1, <3>2 DEF NoSampleOvertakes
  <2>3. ASSUME ~overrun', NEW e \in events', NEW d \in recordedEv', d.ts < e.ts
        PROVE  d \in events' \cup excusedEv'
    <3>1. e \in events /\ e.ts \in Int /\ e.ts < ClientTime
      BY <1>0, <2>1 DEF AllRecorded, EventType
    <3>2. d \in recordedEv
      BY <1>0, <1>1, <2>3, <3>1, QuietRecords
    <3> QED  BY <2>1, <2>3, <3>1, <3>2 DEF NoEventOvertakes
  <2> QED  BY <2>2, <2>3 DEF NoSampleOvertakes, NoEventOvertakes
<1>2. ASSUME NEW c \in Conns, BeginUpload(c) \/ Receive(c) \/ HandlerFails(c)
      PROVE  NoSampleOvertakes' /\ NoEventOvertakes'
  <2>1. UNCHANGED <<samples, events, recorded, recordedEv, excused, excusedEv, overrun>>
    BY <1>2 DEF BeginUpload, Receive, HandlerFails
  <2> QED  BY <2>1 DEF NoSampleOvertakes, NoEventOvertakes
<1>3. ASSUME NEW c \in Conns, InsertSamples(c)
      PROVE  NoSampleOvertakes' /\ NoEventOvertakes'
  <2>1. /\ reqs[c].stage = "read"
        /\ samples' \cup excused' = samples \cup excused \cup Entries(reqs[c].samples)
        /\ samples' \subseteq samples \cup Entries(reqs[c].samples)
        /\ UNCHANGED <<events, recorded, recordedEv, excusedEv, overrun>>
    BY <1>3 DEF InsertSamples
  <2>2. ASSUME NEW t \in samples', NEW s \in recorded', s < t
        PROVE  s \in samples' \cup excused'
    BY <2>1, <2>2 DEF NoSampleOvertakes, RequestHasNoHole
  <2>3. NoEventOvertakes'
    BY <2>1 DEF NoEventOvertakes
  <2> QED  BY <2>2, <2>3 DEF NoSampleOvertakes
<1>4. ASSUME NEW c \in Conns, InsertMonitorEvents(c)
      PROVE  NoSampleOvertakes' /\ NoEventOvertakes'
  <2>1. /\ reqs[c].stage = "half"
        /\ events' \cup excusedEv' = events \cup excusedEv \cup Entries(reqs[c].events)
        /\ events' \subseteq events \cup Entries(reqs[c].events)
        /\ UNCHANGED <<samples, recorded, recordedEv, excused, overrun>>
    BY <1>4 DEF InsertMonitorEvents
  <2>2. ASSUME ~overrun', NEW e \in events', NEW d \in recordedEv', d.ts < e.ts
        PROVE  d \in events' \cup excusedEv'
    BY <2>1, <2>2 DEF NoEventOvertakes, RequestHasNoHole
  <2>3. NoSampleOvertakes'
    BY <2>1 DEF NoSampleOvertakes
  <2> QED  BY <2>2, <2>3 DEF NoEventOvertakes
<1> QED  BY <1>1, <1>2, <1>3, <1>4, StepKinds

(* The invariant holds initially, *)
LEMMA UploadInvInit == Init => UploadInv
<1> SUFFICES ASSUME Init PROVE UploadInv
  OBVIOUS
<1>1. Entries(<<>>) = {}
  BY DEF Entries
<1>2. \A c \in Conns : reqs[c] = FreeReq
  BY DEF Init
<1>3. /\ DownHoldsNothing /\ BatchInFlight /\ SampleCustody /\ EventCustody
      /\ NoSampleOvertakes /\ NoEventOvertakes
  BY DEF Init, DownHoldsNothing, BatchInFlight, SampleCustody, EventCustody,
         NoSampleOvertakes, NoEventOvertakes
<1>4. CommittedIsStored /\ AllRecorded /\ RequestHasNoHole
  BY <1>1, <1>2, FreeReqEmpty DEF Init, CommittedIsStored, AllRecorded, RequestHasNoHole
<1> QED  BY <1>3, <1>4, TypeInit DEF UploadInv

(* and every step keeps it. *)
LEMMA UploadInvStep == UploadInv /\ [Next]_vars => UploadInv'
BY TypeStep, DownStep, BatchStep, CommittedStep, RecordedStep, NoHoleStep,
   SampleCustodyStep, EventCustodyStep, OvertakeStep DEF UploadInv

(* The inductive invariant of the upload path. *)
THEOREM UploadInvariant == Spec => []UploadInv
BY UploadInvInit, UploadInvStep, PTL DEF Spec

(* No sample is lost between the reading and its row, whatever the capacities,  *)
(* however uploads fail, answers are lost, requests linger and processes die.   *)
THEOREM SampleCustodyHolds == Spec => []SampleCustody
<1>1. UploadInv => SampleCustody
  BY DEF UploadInv
<1> QED  BY <1>1, UploadInvariant, PTL

(* No transition is, unless the event buffer overflowed during an upload. *)
THEOREM EventCustodyHolds == Spec => []EventCustody
<1>1. UploadInv => EventCustody
  BY DEF UploadInv
<1> QED  BY <1>1, UploadInvariant, PTL

(* The stored readings and transitions have no hole an older one could fill. *)
THEOREM NothingOvertakes == Spec => [](NoSampleOvertakes /\ NoEventOvertakes)
<1>1. UploadInv => NoSampleOvertakes /\ NoEventOvertakes
  BY DEF UploadInv
<1> QED  BY <1>1, UploadInvariant, PTL

-----------------------------------------------------------------------------
(* UploadPath implements Delivery: every step is a step of the promise, or none. *)

(* The initial states are initial states of both promises. *)
LEMMA DeliveryInit == Init => Samples!Init /\ Transitions!Init
BY DEF Init, Samples!Init, Transitions!Init

(* A transaction stores a batch without overtaking a reading not given up. *)
LEMMA StoreSamples ==
    ASSUME UploadInv, UploadInv', NEW c \in Conns, InsertSamples(c)
    PROVE  Samples!Store
<1> DEFINE sent == Entries(reqs[c].samples)
           kept == {t \in sent : InWindow(t, reqs[c].at)}
<1>1. /\ samples' = samples \cup kept
      /\ excused' = excused \cup (sent \ kept)
      /\ recorded' = recorded
  BY DEF InsertSamples
<1>2. kept \in SUBSET recorded /\ sent \ kept \in SUBSET recorded
  BY DEF UploadInv, AllRecorded
<1>3. \A t \in kept, s \in recorded : s < t => s \in samples' \cup excused'
  BY <1>1 DEF UploadInv, NoSampleOvertakes
<1> HIDE DEF kept, sent
<1> QED  BY <1>1, <1>2, <1>3 DEF Samples!Store

(* Each step takes a reading, gives some up, stores some or does nothing. *)
LEMMA SamplesStep ==
    UploadInv /\ UploadInv' /\ [Next]_vars => [Samples!Next]_(Samples!deliveryVars)
<1> SUFFICES ASSUME UploadInv, UploadInv', [Next]_vars
             PROVE  [Samples!Next]_(Samples!deliveryVars)
  OBVIOUS
<1> USE DEF Samples!Next, Samples!deliveryVars
<1>1. CASE TickSample
  <2> DEFINE lost == DroppedByPush(buf, ClientTime, MaxQueue)
  <2>1. ClientTime \in Int /\ buf \in Seq(Int)
    BY UploadAssumption DEF UploadInv, TypeOK, ClientTime
  <2>2. lost \subseteq Entries(buf) \cup {ClientTime}
    BY <2>1, QueuePush
  <2>3. recorded' = recorded \cup {ClientTime} /\ excused' = excused \cup lost
    BY <1>1 DEF TickSample, Enqueue
  <2>4. samples' = samples
    BY <1>1 DEF TickSample, serverVars
  <2>5. lost \in SUBSET recorded' /\ ClientTime \in recorded'
    BY <2>2, <2>3 DEF UploadInv, AllRecorded
  <2>6. \A s \in recorded : s < ClientTime
    BY DEF UploadInv, AllRecorded
  <2> HIDE DEF lost
  <2>7. Samples!Take
    BY <2>3, <2>4, <2>5, <2>6 DEF Samples!Take
  <2> QED  BY <2>7
<1>2. CASE Stop
  <2>1. Entries(buf) \ Entries(disk) \in SUBSET recorded
    BY DEF UploadInv, AllRecorded
  <2>2. Samples!GiveUp
    BY <1>2, <2>1 DEF Stop, Samples!GiveUp, serverVars
  <2> QED  BY <2>2
<1>3. ASSUME NEW readable \in BOOLEAN, Start(readable) PROVE Samples!GiveUp
  <2>1. {} \in SUBSET recorded /\ Entries(disk) \in SUBSET recorded
    BY DEF UploadInv, AllRecorded
  <2>2. UNCHANGED <<recorded, samples>>
    BY <1>3 DEF Start, serverVars
  <2>3. excused' = excused \cup {} \/ excused' = excused \cup Entries(disk)
    BY <1>3 DEF Start
  <2> QED  BY <2>1, <2>2, <2>3 DEF Samples!GiveUp
<1>4. ASSUME NEW c \in Conns, InsertSamples(c) PROVE Samples!Store
  BY <1>4, StoreSamples
<1>5. ASSUME NEW c \in Conns, BeginUpload(c) \/ Receive(c) \/ InsertMonitorEvents(c)
                 \/ HandlerFails(c)
      PROVE  UNCHANGED <<recorded, samples, excused>>
  BY <1>5 DEF BeginUpload, Receive, InsertMonitorEvents, HandlerFails, serverVars, history
<1>6. ASSUME NEW on \in MonitorStates, RecordTransition(on)
      PROVE  UNCHANGED <<recorded, samples, excused>>
  BY <1>6 DEF RecordTransition, serverVars
<1>7. CASE TickSampleError \/ FlushNothing \/ UploadFails \/ AckSamples \/ AckEvents
              \/ PassTime \/ UNCHANGED vars
  BY <1>7 DEF TickSampleError, FlushNothing, UploadFails, AckSamples, AckEvents,
              PassTime, vars, serverVars, history
<1> QED
  BY <1>1, <1>2, <1>3, <1>4, <1>5, <1>6, <1>7 DEF Next

(* The same for the transitions' transaction. *)
LEMMA StoreTransitions ==
    ASSUME UploadInv, UploadInv', NEW c \in Conns, InsertMonitorEvents(c)
    PROVE  Transitions!Store
<1> DEFINE sent == Entries(reqs[c].events)
           kept == {e \in sent : InWindow(e.ts, reqs[c].at)}
           dropped == IF overrun THEN recordedEv \cup excusedEv ELSE excusedEv
<1>1. /\ events' = events \cup kept
      /\ excusedEv' = excusedEv \cup (sent \ kept)
      /\ recordedEv' = recordedEv /\ overrun' = overrun
  BY DEF InsertMonitorEvents
<1>2. kept \in SUBSET recordedEv /\ sent \ kept \in SUBSET recordedEv
  BY DEF UploadInv, AllRecorded
<1>3. \A e \in kept, d \in recordedEv : d.ts < e.ts => d \in events' \cup dropped'
  BY <1>1 DEF UploadInv, NoEventOvertakes
<1>4. dropped' = dropped \cup (sent \ kept)
  BY <1>1
<1> HIDE DEF kept, sent
<1> QED  BY <1>1, <1>2, <1>3, <1>4 DEF Transitions!Store, EventOlder

(* A transition recorded while the buffer is full drops the oldest one; during an *)
(* upload that voids the promise for all taken so far.                            *)
LEMMA TakeTransition ==
    ASSUME UploadInv, NEW on \in MonitorStates, RecordTransition(on)
    PROVE  Transitions!Take
<1> DEFINE e == [ts |-> ClientTime, on |-> on]
           pushed == DroppedByPush(pend, e, MaxEvents)
           dropped == IF overrun THEN recordedEv \cup excusedEv ELSE excusedEv
<1>1. e \in EventType /\ e.ts = ClientTime
  BY UploadAssumption DEF UploadInv, TypeOK, ClientTime, EventType
<1>2. /\ recordedEv' = recordedEv \cup {e}
      /\ excusedEv' = excusedEv \cup pushed
      /\ events' = events
      /\ overrun => overrun'
  BY DEF RecordTransition, serverVars
<1>3. pend \in Seq(EventType)
  BY DEF UploadInv, TypeOK
<1> HIDE DEF e
<1>4. pushed \subseteq Entries(pend) \cup {e}
  BY <1>1, <1>3, EventPush
<1>5. pushed \in SUBSET recordedEv'
  BY <1>2, <1>4 DEF UploadInv, AllRecorded
<1> HIDE DEF pushed
<1>6. \A d \in recordedEv : EventOlder(d, e)
  BY <1>1 DEF UploadInv, AllRecorded, EventOlder
<1>7. \E lost \in SUBSET recordedEv' : dropped' = dropped \cup lost
  <2>1. CASE overrun'
    <3>1. dropped' = dropped \cup recordedEv'
      BY <1>2, <1>5, <2>1
    <3> QED  BY <3>1
  <2>2. CASE ~overrun'
    <3>1. dropped' = dropped \cup pushed
      BY <1>2, <2>2
    <3> QED  BY <1>5, <3>1
  <2> QED  BY <2>1, <2>2
<1> HIDE DEF dropped
<1>8. \E lost \in SUBSET recordedEv' :
         /\ \A d \in recordedEv : EventOlder(d, e)
         /\ recordedEv' = recordedEv \cup {e}
         /\ dropped' = dropped \cup lost
         /\ events' = events
  BY <1>2, <1>6, <1>7
<1> QED  BY <1>2, <1>8 DEF Transitions!Take, dropped

(* Each step takes a transition, gives some up, stores some or does nothing. *)
LEMMA TransitionsStep ==
    UploadInv /\ UploadInv' /\ [Next]_vars => [Transitions!Next]_(Transitions!deliveryVars)
<1> SUFFICES ASSUME UploadInv, UploadInv', [Next]_vars
             PROVE  [Transitions!Next]_(Transitions!deliveryVars)
  OBVIOUS
<1> USE DEF Transitions!Next, Transitions!deliveryVars
<1>1. ASSUME NEW on \in MonitorStates, RecordTransition(on) PROVE Transitions!Take
  BY <1>1, TakeTransition
<1>2. CASE Stop
  <2>1. Entries(pend) \in SUBSET recordedEv
    BY DEF UploadInv, AllRecorded
  <2>2. /\ excusedEv' = excusedEv \cup Entries(pend)
        /\ UNCHANGED <<recordedEv, events, overrun>>
    BY <1>2 DEF Stop, serverVars
  <2>3. Transitions!GiveUp
    BY <2>1, <2>2 DEF Transitions!GiveUp
  <2> QED  BY <2>3
<1>3. ASSUME NEW c \in Conns, InsertMonitorEvents(c) PROVE Transitions!Store
  BY <1>3, StoreTransitions
<1>4. ASSUME NEW c \in Conns, BeginUpload(c) \/ Receive(c) \/ InsertSamples(c)
                 \/ HandlerFails(c)
      PROVE  UNCHANGED <<recordedEv, events, excusedEv, overrun>>
  BY <1>4 DEF BeginUpload, Receive, InsertSamples, HandlerFails, serverVars, history
<1>5. ASSUME NEW readable \in BOOLEAN, Start(readable)
      PROVE  UNCHANGED <<recordedEv, events, excusedEv, overrun>>
  BY <1>5 DEF Start, serverVars
<1>6. ASSUME TickSample \/ TickSampleError \/ FlushNothing \/ UploadFails \/ AckSamples
                \/ AckEvents \/ PassTime \/ UNCHANGED vars
      PROVE  UNCHANGED <<recordedEv, events, excusedEv, overrun>>
  BY <1>6 DEF TickSample, TickSampleError, FlushNothing, UploadFails, AckSamples,
              AckEvents, PassTime, vars, serverVars, history
<1>7. ASSUME UNCHANGED <<recordedEv, events, excusedEv, overrun>>
      PROVE  UNCHANGED Transitions!deliveryVars
  BY <1>7
<1> QED
  BY <1>1, <1>2, <1>3, <1>4, <1>5, <1>6, <1>7 DEF Next

(* The upload path delivers its samples as Delivery promises, for every capacity *)
(* and window and whatever fails on the way.                                     *)
THEOREM SamplesDelivered == Spec => DeliversSamples
BY UploadInvariant, DeliveryInit, SamplesStep, PTL DEF Spec, DeliversSamples, Samples!Spec

(* And its transitions, unless their buffer overflows during an upload. *)
THEOREM TransitionsDelivered == Spec => DeliversTransitions
BY UploadInvariant, DeliveryInit, TransitionsStep, PTL
   DEF Spec, DeliversTransitions, Transitions!Spec
=============================================================================
