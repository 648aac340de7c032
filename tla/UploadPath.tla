------------------------------ MODULE UploadPath ------------------------------
(***************************************************************************)
(* One device's path from a reading to a database row.                     *)
(*                                                                         *)
(* The agent's sample cycle (core.go Tick/flush) stamps a sample, appends  *)
(* it to the disk-backed queue and uploads the whole backlog; a second     *)
(* goroutine (monitorPollLoop) records monitor on/off transitions in       *)
(* memory while an upload may be in flight.  The server handler inserts    *)
(* the samples and then the events, each in its own transaction, and       *)
(* answers.  Requests and answers may be lost or late: an upload the agent *)
(* has given up on can still be carried out by the server.  The process    *)
(* may die between any two steps and starts again from the queue file.     *)
(*                                                                         *)
(* A sample is its timestamp: what else it holds no property here depends  *)
(* on.  One unit of `now' is the spacing of the 1/min ticker (and of the   *)
(* transition poll), so two readings never share a timestamp.              *)
(***************************************************************************)
EXTENDS BoundedBuffer

CONSTANTS
    MaxQueue,       \* capacity of the sample queue (10080 in the program)
    MaxEvents,      \* capacity of the event buffer (maxPendingEvents)
    MaxBody,        \* entries that fit maxIngestBytes, the server's body cap
    MaxBackdate,    \* maxBackdateSecs: oldest timestamp the server accepts
    MaxFuture,      \* maxFutureSecs: how far ahead of the server it accepts
    Skew,           \* the device clock minus the server clock
    MonitorStates,  \* what the prober reports; {} for a sampler without one
    Conns,          \* connections that can be open at the server at a time
    NoConn,         \* no upload in flight
    MaxTime         \* bound: readings and transitions stop at this time

ASSUME UploadAssumption ==
    /\ MaxQueue \in Nat \ {0} /\ MaxEvents \in Nat \ {0}
    /\ MaxBody \in Nat /\ MaxBackdate \in Nat /\ MaxFuture \in Nat
    /\ Skew \in Int /\ MaxTime \in Nat
    /\ MonitorStates \subseteq {0, 1}
    /\ NoConn \notin Conns

VARIABLES
    now,        \* the server's clock
    up,         \* the agent process runs
    buf,        \* Queue.buf, in memory
    disk,       \* what queue.json holds
    pend,       \* Agent.pendingEvents, in memory only
    lastOn,     \* Agent.lastMonitorOn, -1 unknown
    tick,       \* where the sample cycle is
    conn,       \* the connection the cycle's upload uses
    reqs,       \* the requests at the server, by connection
    samples,    \* the device's rows in table samples
    events,     \* and in table monitor_events
    \* History, never read by an action:
    recorded, recordedEv,   \* every sample and event the agent took
    excused, excusedEv,     \* those given up on a path meant to: drop-oldest,
                            \* an out-of-window timestamp, memory at a crash
    overrun                 \* drop-oldest hit the events during an upload

agentVars == <<up, buf, disk, pend, lastOn, tick, conn>>
serverVars == <<samples, events>>
history == <<recorded, recordedEv, excused, excusedEv, overrun>>
vars == <<now, agentVars, reqs, serverVars, history>>

EventType == [ts : Int, on : {0, 1}]
\* A request: how far its handler is, what it carries, when the server read it.
ReqType == [stage : {"free", "sent", "read", "half", "ok", "err"},
            samples : Seq(Int), events : Seq(EventType), at : Nat]
FreeReq == [stage |-> "free", samples |-> <<>>, events |-> <<>>, at |-> 0]

TypeOK ==
    /\ now \in Nat
    /\ up \in BOOLEAN
    /\ buf \in Seq(Int) /\ Len(buf) <= MaxQueue
    /\ disk \in Seq(Int) /\ Len(disk) <= MaxQueue
    /\ pend \in Seq(EventType) /\ Len(pend) <= MaxEvents
    /\ lastOn \in {-1, 0, 1}
    /\ tick \in {"idle", "flush", "wait", "ackEvents"}
    /\ conn \in Conns \cup {NoConn}
    /\ conn = NoConn <=> tick \in {"idle", "flush"}
    /\ reqs \in [Conns -> ReqType]
    /\ samples \subseteq Int /\ recorded \subseteq Int /\ excused \subseteq Int
    /\ events \subseteq EventType
    /\ recordedEv \subseteq EventType /\ excusedEv \subseteq EventType
    /\ overrun \in BOOLEAN

Init ==
    /\ now = 0
    /\ up = TRUE
    /\ buf = <<>> /\ disk = <<>> /\ pend = <<>>
    /\ lastOn = -1
    /\ tick = "idle"
    /\ conn = NoConn
    /\ reqs = [c \in Conns |-> FreeReq]
    /\ samples = {} /\ events = {}
    /\ recorded = {} /\ recordedEv = {}
    /\ excused = {} /\ excusedEv = {}
    /\ overrun = FALSE

-----------------------------------------------------------------------------
(* The agent.                                                              *)

ClientTime == now + Skew

\* persist rewrites the queue file atomically; on any error the old file stays.
Persist(b) ==
    \/ disk' = b
    \/ disk' = disk

Enqueue(ts) ==
    /\ buf' = PushDropOldest(buf, ts, MaxQueue)
    /\ Persist(buf')
    /\ recorded' = recorded \cup {ts}
    /\ excused' = excused \cup DroppedByPush(buf, ts, MaxQueue)

\* Mutant: a cycle may start while another one waits for its answer.
TickSampleOverlapping ==
    /\ up
    /\ now < MaxTime
    /\ Enqueue(ClientTime)
    /\ now' = now + 1
    /\ tick' = IF tick = "idle" THEN "flush" ELSE tick
    /\ UNCHANGED <<up, pend, lastOn, conn, reqs, serverVars,
                   recordedEv, excusedEv, overrun>>

\* A cycle starts and takes its reading; one at a time (tickBusy).
TickSample ==
    /\ up /\ tick = "idle"
    /\ now < MaxTime
    /\ Enqueue(ClientTime)
    /\ now' = now + 1
    /\ tick' = "flush"
    /\ UNCHANGED <<up, pend, lastOn, conn, reqs, serverVars,
                   recordedEv, excusedEv, overrun>>

\* The sampler returns an error: nothing is queued, the backlog is still sent.
TickSampleError ==
    /\ up /\ tick = "idle"
    /\ tick' = "flush"
    /\ UNCHANGED <<now, up, buf, disk, pend, lastOn, conn, reqs, serverVars, history>>

FlushNothing ==
    /\ up /\ tick = "flush"
    /\ buf = <<>> /\ pend = <<>>
    /\ tick' = "idle"
    /\ UNCHANGED <<now, up, buf, disk, pend, lastOn, conn, reqs, serverVars, history>>

\* Mutant: only the newest entry of each buffer is sent.
BeginUploadNewest(c) ==
    /\ up /\ tick = "flush"
    /\ buf # <<>> \/ pend # <<>>
    /\ reqs[c].stage = "free"
    /\ LET Newest(s) == IF s = <<>> THEN s ELSE <<s[Len(s)]>>
       IN  reqs' = [reqs EXCEPT ![c] =
                    [stage |-> "sent", samples |-> Newest(buf),
                     events |-> Newest(pend), at |-> 0]]
    /\ conn' = c
    /\ tick' = "wait"
    /\ UNCHANGED <<now, up, buf, disk, pend, lastOn, serverVars, history>>

\* Snapshot both buffers and send everything in one request.
BeginUpload(c) ==
    /\ up /\ tick = "flush"
    /\ buf # <<>> \/ pend # <<>>
    /\ reqs[c].stage = "free"
    /\ reqs' = [reqs EXCEPT ![c] =
                    [stage |-> "sent", samples |-> buf, events |-> pend, at |-> 0]]
    /\ conn' = c
    /\ tick' = "wait"
    /\ UNCHANGED <<now, up, buf, disk, pend, lastOn, serverVars, history>>

\* The agent's end of the connection closes; the server may still be at work.
HangUp(rs, c) ==
    IF c \in Conns /\ rs[c].stage \in {"ok", "err"}
    THEN [rs EXCEPT ![c] = FreeReq]
    ELSE rs

\* A timeout, a lost answer, or any status but 200: keep everything.
UploadFails ==
    /\ up /\ tick = "wait"
    /\ reqs' = HangUp(reqs, conn)
    /\ conn' = NoConn
    /\ tick' = "idle"
    /\ UNCHANGED <<now, up, buf, disk, pend, lastOn, serverVars, history>>

\* Mutant: any answer acknowledges the samples, also an error.
AckSamplesOfAnyAnswer ==
    /\ up /\ tick = "wait"
    /\ reqs[conn].stage \in {"ok", "err"}
    /\ buf' = DropFirst(buf, Len(reqs[conn].samples))
    /\ Persist(buf')
    /\ tick' = "ackEvents"
    /\ UNCHANGED <<now, up, pend, lastOn, conn, reqs, serverVars, history>>

\* Mutant: the acknowledgement leaves one sample too many behind.
AckSamplesButOne ==
    /\ up /\ tick = "wait"
    /\ reqs[conn].stage = "ok"
    /\ LET n == Len(reqs[conn].samples)
       IN  buf' = DropFirst(buf, IF n = 0 THEN 0 ELSE n - 1)
    /\ Persist(buf')
    /\ tick' = "ackEvents"
    /\ UNCHANGED <<now, up, pend, lastOn, conn, reqs, serverVars, history>>

\* 200: the queue drops as many samples as were sent.
AckSamples ==
    /\ up /\ tick = "wait"
    /\ reqs[conn].stage = "ok"
    /\ buf' = DropFirst(buf, Len(reqs[conn].samples))
    /\ Persist(buf')
    /\ tick' = "ackEvents"
    /\ UNCHANGED <<now, up, pend, lastOn, conn, reqs, serverVars, history>>

\* Mutant: the event buffer is emptied, whatever was recorded since.
AckEventsAll ==
    /\ up /\ tick = "ackEvents"
    /\ pend' = <<>>
    /\ reqs' = HangUp(reqs, conn)
    /\ conn' = NoConn
    /\ tick' = "idle"
    /\ UNCHANGED <<now, up, buf, disk, lastOn, serverVars, history>>

\* Then the event buffer drops as many events as were sent.
AckEvents ==
    /\ up /\ tick = "ackEvents"
    /\ pend' = DropFirst(pend, Len(reqs[conn].events))
    /\ reqs' = HangUp(reqs, conn)
    /\ conn' = NoConn
    /\ tick' = "idle"
    /\ UNCHANGED <<now, up, buf, disk, lastOn, serverVars, history>>

\* The poll goroutine sees the monitor in another state than last time.
RecordTransition(on) ==
    /\ up /\ now < MaxTime
    /\ on # lastOn
    /\ LET e == [ts |-> ClientTime, on |-> on]
           dropped == DroppedByPush(pend, e, MaxEvents)
       IN  /\ pend' = PushDropOldest(pend, e, MaxEvents)
           /\ recordedEv' = recordedEv \cup {e}
           /\ excusedEv' = excusedEv \cup dropped
           /\ overrun' = (overrun \/ (dropped # {} /\ conn # NoConn))
    /\ lastOn' = on
    /\ now' = now + 1
    /\ UNCHANGED <<up, buf, disk, tick, conn, reqs, serverVars, recorded, excused>>

\* The process ends: crash, kill, power loss, relaunch or shutdown.  What only
\* memory held is gone.
Stop ==
    /\ up
    /\ up' = FALSE
    /\ buf' = <<>> /\ pend' = <<>> /\ lastOn' = -1
    /\ tick' = "idle" /\ conn' = NoConn
    /\ reqs' = HangUp(reqs, conn)
    /\ excused' = excused \cup (Entries(buf) \ Entries(disk))
    /\ excusedEv' = excusedEv \cup Entries(pend)
    /\ UNCHANGED <<now, disk, serverVars, recorded, recordedEv, overrun>>

\* Mutant: a start does not load the queue file.
StartEmpty(readable) ==
    /\ ~up
    /\ up' = TRUE
    /\ buf' = <<>>
    /\ UNCHANGED <<now, disk, pend, lastOn, tick, conn, reqs, serverVars, history>>

\* NewQueue loads the file; an unreadable or corrupt one counts as empty, and stays
\* until the queue is next written.
Start(readable) ==
    /\ ~up
    /\ up' = TRUE
    /\ buf' = IF readable THEN disk ELSE <<>>
    /\ excused' = IF readable THEN excused ELSE excused \cup Entries(disk)
    /\ UNCHANGED <<now, disk, pend, lastOn, tick, conn, reqs, serverVars,
                   recorded, recordedEv, excusedEv, overrun>>

\* Time passes without a reading: the machine sleeps or the agent is down.
PassTime ==
    /\ now < MaxTime
    /\ now' = now + 1
    /\ UNCHANGED <<agentVars, reqs, serverVars, history>>

-----------------------------------------------------------------------------
(* The server's handler for the request on connection c.                   *)

InWindow(ts, at) == ts >= at - MaxBackdate /\ ts <= at + MaxFuture

\* An answer for a connection the agent has left goes nowhere.
Answer(c, stage) ==
    reqs' = [reqs EXCEPT ![c] = IF c = conn THEN [@ EXCEPT !.stage = stage]
                                            ELSE FreeReq]

BodyFits(c) == Len(reqs[c].samples) + Len(reqs[c].events) <= MaxBody

\* The body is read and the handler notes the time, once.
Receive(c) ==
    /\ reqs[c].stage = "sent"
    /\ BodyFits(c)
    /\ reqs' = [reqs EXCEPT ![c] = [@ EXCEPT !.stage = "read", !.at = now]]
    /\ UNCHANGED <<now, agentVars, serverVars, history>>

\* InsertSamples: one transaction, INSERT OR IGNORE of the in-window rows.
InsertSamples(c) ==
    /\ reqs[c].stage = "read"
    /\ LET sent == Entries(reqs[c].samples)
           kept == {t \in sent : InWindow(t, reqs[c].at)}
       IN  /\ samples' = samples \cup kept
           /\ excused' = excused \cup (sent \ kept)
    /\ reqs' = [reqs EXCEPT ![c].stage = "half"]
    /\ UNCHANGED <<now, agentVars, events, recorded, recordedEv, excusedEv, overrun>>

\* InsertMonitorEvents: a second transaction; then the 200 is sent.
InsertMonitorEvents(c) ==
    /\ reqs[c].stage = "half"
    /\ LET sent == Entries(reqs[c].events)
           kept == {e \in sent : InWindow(e.ts, reqs[c].at)}
       IN  /\ events' = events \cup kept
           /\ excusedEv' = excusedEv \cup (sent \ kept)
    /\ Answer(c, "ok")
    /\ UNCHANGED <<now, agentVars, samples, recorded, recordedEv, excused, overrun>>

\* A body over the cap, a refused token, a database error, a server that stops:
\* the handler ends early.  What it committed stays.
HandlerFails(c) ==
    /\ reqs[c].stage \in {"sent", "read", "half"}
    /\ Answer(c, "err")
    /\ UNCHANGED <<now, agentVars, serverVars, history>>

-----------------------------------------------------------------------------
Next ==
    \/ TickSample \/ TickSampleError \/ FlushNothing
    \/ UploadFails \/ AckSamples \/ AckEvents
    \/ Stop \/ PassTime
    \/ \E readable \in BOOLEAN : Start(readable)
    \/ \E on \in MonitorStates : RecordTransition(on)
    \/ \E c \in Conns : \/ BeginUpload(c) \/ Receive(c)
                        \/ InsertSamples(c) \/ InsertMonitorEvents(c)
                        \/ HandlerFails(c)

Spec == Init /\ [][Next]_vars

\* The ticker keeps firing and the scheduled task keeps restarting the agent.
\* Strong fairness where a crash or a failed upload can intervene: some process
\* lives long enough, and some upload is carried through while the agent waits.
Fairness ==
    /\ WF_vars(\E readable \in BOOLEAN : Start(readable))
    /\ SF_vars(TickSample \/ TickSampleError)
    /\ SF_vars(FlushNothing \/ \E c \in Conns : BeginUpload(c))
    /\ SF_vars(\E c \in Conns : c = conn /\ Receive(c))
    /\ SF_vars(\E c \in Conns : c = conn /\ InsertSamples(c))
    /\ SF_vars(\E c \in Conns : c = conn /\ InsertMonitorEvents(c))
    /\ SF_vars(AckSamples)
    /\ WF_vars(AckEvents)
    /\ WF_vars(UploadFails)
    /\ \A c \in Conns : WF_vars(HandlerFails(c))

FairSpec == Spec /\ Fairness

-----------------------------------------------------------------------------
(* What the path promises.                                                 *)

Held == Entries(IF up THEN buf ELSE disk)

\* No sample is lost on a path not meant to lose it: until a sample is a row at
\* the server it stays in the queue (in queue.json while no process runs), also
\* when the answer is lost, when the server commits half a request, or when a
\* retry, a late duplicate and a crash interleave.
SampleCustody == recorded \subseteq samples \cup Held \cup excused

\* The same for transitions, which only memory holds: apart from one case, an
\* event leaves the buffer unstored only by drop-oldest, a crash or its
\* timestamp.  The case: the buffer overflows during an upload, the head moves,
\* and ackEvents then removes that many events nobody has sent.
EventCustody ==
    ~overrun => recordedEv \subseteq events \cup Entries(pend) \cup excusedEv

\* The server's record of the device has no hole: once a reading is stored, every
\* earlier one is stored or was given up.  A late duplicate of an old request or
\* a half-applied one never makes a newer row arrive ahead of an older one.
NoSampleOvertakes ==
    \A t \in samples, s \in recorded : s < t => s \in samples \cup excused

\* The same for the on/off transitions, whose order MonitorOnSeconds integrates.
NoEventOvertakes ==
    ~overrun => \A e \in events, d \in recordedEv :
                    d.ts < e.ts => d \in events \cup excusedEv

(* Why they hold: the inductive invariant behind the four invariants above.  *)

\* A process that is down holds nothing in memory.
DownHoldsNothing == ~up => buf = <<>> /\ pend = <<>> /\ tick = "idle"

\* While the cycle waits, its batch is the whole queue: only the cycle itself
\* enqueues.  The events it sent are still the head of the buffer, unless the
\* poll goroutine overflowed it.
BatchInFlight ==
    /\ tick = "wait" => reqs[conn].samples = buf
    /\ tick = "ackEvents" => reqs[conn].stage = "ok"
    /\ conn # NoConn /\ ~overrun =>
          LET sent == reqs[conn].events
          IN  Len(sent) <= Len(pend) /\ \A i \in 1 .. Len(sent) : pend[i] = sent[i]

\* A request past a transaction has its rows in the table or given up.
CommittedIsStored ==
    \A c \in Conns :
        /\ reqs[c].stage \in {"half", "ok"} =>
              Entries(reqs[c].samples) \subseteq samples \cup excused
        /\ reqs[c].stage = "ok" =>
              Entries(reqs[c].events) \subseteq events \cup excusedEv

\* Whatever exists anywhere was recorded, before now.
AllRecorded ==
    /\ samples \cup Entries(buf) \cup Entries(disk) \subseteq recorded
    /\ events \cup Entries(pend) \subseteq recordedEv
    /\ \A c \in Conns : /\ Entries(reqs[c].samples) \subseteq recorded
                        /\ Entries(reqs[c].events) \subseteq recordedEv
    /\ \A t \in recorded : t < ClientTime
    /\ \A e \in recordedEv : e.ts < ClientTime

\* A request the server has not finished with, however old, carries everything
\* not yet stored that is older than its newest entry.
RequestHasNoHole ==
    \A c \in Conns :
        /\ reqs[c].stage \in {"sent", "read"} =>
              \A t \in Entries(reqs[c].samples), s \in recorded : s < t =>
                  s \in samples \cup excused \cup Entries(reqs[c].samples)
        /\ reqs[c].stage \in {"sent", "read", "half"} /\ ~overrun =>
              \A e \in Entries(reqs[c].events), d \in recordedEv : d.ts < e.ts =>
                  d \in events \cup excusedEv \cup Entries(reqs[c].events)

UploadInv ==
    /\ TypeOK /\ DownHoldsNothing /\ BatchInFlight /\ CommittedIsStored
    /\ AllRecorded /\ RequestHasNoHole
    /\ SampleCustody /\ EventCustody /\ NoSampleOvertakes /\ NoEventOvertakes

(* The promise as a specification of its own.                               *)

Samples == INSTANCE Delivery WITH taken <- recorded, stored <- samples,
                                  dropped <- excused, Older <- <

\* Once the event buffer has overflowed during an upload nothing is promised of
\* the events taken so far.
EventOlder(d, e) == d.ts < e.ts
Transitions == INSTANCE Delivery
    WITH taken <- recordedEv, stored <- events, Older <- EventOlder,
         dropped <- IF overrun THEN recordedEv \cup excusedEv ELSE excusedEv

\* Readings and transitions reach the tables as Delivery says, whatever happens to
\* queue, uploads, answers and processes on the way.
DeliversSamples == Samples!Spec
DeliversTransitions == Transitions!Spec

\* However uploads fail, the backlog is eventually delivered and the queue runs
\* empty, again and again.
QueueDrains == []<>(up /\ buf = <<>>)
=============================================================================
