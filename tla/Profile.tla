-------------------------------- MODULE Profile --------------------------------
(***************************************************************************)
(* What the server knows of one computer: the build its agent runs and its *)
(* hardware inventory.                                                     *)
(*                                                                         *)
(* The agent collects the inventory on a goroutine of its own and attaches *)
(* it to an upload when it has changed since the server last accepted one, *)
(* or when that is long ago (core.go systemInfoLoop, pendingSystemInfo,    *)
(* markSystemInfoSent).  The server's handler compares the reported build  *)
(* with the row's, updates the row, logs a change and stores the           *)
(* inventory, each in a statement of its own; some may fail unnoticed      *)
(* (store.go TouchDevice, SetSystemInfo).  Uploads and answers may be      *)
(* lost or late, an abandoned request may still be carried out, and the    *)
(* process may be replaced by another build, newer or restored.            *)
(*                                                                         *)
(* An inventory is a value: its fingerprint is the inventory itself.       *)
(***************************************************************************)
EXTENDS Integers

CONSTANTS
    Inventories,    \* what the computer may be made of
    Partial,        \* a collection one of whose probes failed
    None,           \* no inventory, or none that the agent can collect
    Builds,         \* builds of the agent, by number; a build without one is 0
    ResendAfter,    \* systemInfoResendAfter
    Conns, NoConn,  \* requests that can be open at the server at a time
    Budgets         \* bounds of a behaviour: how often the hardware changes, the
                    \* agent restarts and a probe, an upload or a statement fails, and
                    \* which builds there are

ASSUME ProfileAssumption ==
    /\ Partial \notin Inventories /\ None \notin Inventories \cup {Partial}
    /\ Builds \subseteq Nat
    /\ ResendAfter \in Nat \ {0}
    /\ NoConn \notin Conns
    /\ Budgets \subseteq [hardware : Nat, restarts : Nat, failures : Nat,
                           builds : SUBSET Builds]

VARIABLES
    inv, build,     \* the computer: its hardware and the agent's build
    info,           \* Agent.sysInfo
    sent, sentAge,  \* Agent.sysInfoSent, time since sysInfoSentAt
    conn,           \* the connection the agent waits on
    reqs,           \* the requests, by connection
    row,            \* of the device: agent_build and system_info
    log,            \* device_events, as pairs of builds
    left,           \* of the budget of this behaviour
    \* History, never read by an action:
    doubt, writer,  \* the row's inventory may not be the one last accepted; the
                    \* request that wrote it, while its answer is awaited
    moves,          \* changes of the row's build, but for those whose event was
                    \* lost: an error, the server stopping, or another request
                    \* updating the row between the two statements of one
    wentBack,       \* the agent was replaced by an older build
    strayed         \* an abandoned request changed the row's build

computer == <<inv, build>>
agentVars == <<info, sent, sentAge, conn>>
history == <<doubt, writer, moves, wentBack, strayed>>
vars == <<computer, agentVars, reqs, row, log, left, history>>

Contents == Inventories \cup {Partial, None}
NoBuild == 0
Free == [stage |-> "free", build |-> NoBuild, info |-> None, old |-> NoBuild]

Init ==
    /\ inv \in Inventories \cup {None} /\ left \in Budgets /\ build \in left.builds
    /\ info = None /\ sent = None /\ sentAge = 0 /\ conn = NoConn
    /\ reqs = [c \in Conns |-> Free]
    /\ row = [build |-> NoBuild, info |-> None]
    /\ log = {}
    /\ doubt = FALSE /\ writer = NoConn
    /\ moves = {} /\ wentBack = FALSE /\ strayed = FALSE

\* Part of the budget is spent.
Spend(what) == left[what] > 0 /\ left' = [left EXCEPT ![what] = @ - 1]
Fail == Spend("failures")

-----------------------------------------------------------------------------
(* The computer and its agent.                                             *)

ChangeHardware(v) ==
    /\ inv \notin {v, None} /\ Spend("hardware")
    /\ inv' = v
    /\ UNCHANGED <<build, agentVars, reqs, row, log, history>>

\* refreshSystemInfo: a probe that fails blanks its part of the inventory.
Collect ==
    /\ info' = inv
    /\ UNCHANGED <<computer, sent, sentAge, conn, reqs, row, log, left, history>>

CollectInPart ==
    /\ inv # None /\ Fail
    /\ info' = Partial
    /\ UNCHANGED <<computer, sent, sentAge, conn, reqs, row, log, history>>

\* Mutant: a copy the server has accepted is never sent again.
PendingUnlessSent == info # None /\ info # sent

\* pendingSystemInfo.
Pending == info # None /\ (info # sent \/ sentAge = ResendAfter)

\* The agent uploads, one request at a time.
BeginUpload(c) ==
    /\ conn = NoConn /\ reqs[c].stage = "free"
    /\ conn' = c
    /\ reqs' = [reqs EXCEPT ![c] =
           [stage |-> "sent", build |-> build, info |-> IF Pending THEN info ELSE None,
            old |-> NoBuild]]
    /\ UNCHANGED <<computer, info, sent, sentAge, row, log, left, history>>

\* The agent no longer listens on c: its answer is gone, its handler is not.
HangUp(c) ==
    /\ reqs' = [reqs EXCEPT ![c] = IF @.stage = "ok" THEN Free ELSE @]
    /\ conn' = NoConn

\* A timeout, a lost answer, any status but 200.
UploadFails ==
    /\ conn # NoConn /\ Fail
    /\ HangUp(conn)
    /\ UNCHANGED <<computer, info, sent, sentAge, row, log, history>>

\* Mutant: what is marked is the inventory of now, not the one attached.
AckLatest ==
    /\ conn # NoConn /\ reqs[conn].stage = "ok"
    /\ HangUp(conn)
    /\ IF reqs[conn].info # None
       THEN sent' = info /\ sentAge' = 0 /\ doubt' = (writer # conn)
       ELSE UNCHANGED <<sent, sentAge, doubt>>
    /\ UNCHANGED <<computer, info, row, log, left, writer, moves, wentBack, strayed>>

\* 200: markSystemInfoSent, if one was attached.
Ack ==
    /\ conn # NoConn /\ reqs[conn].stage = "ok"
    /\ HangUp(conn)
    /\ IF reqs[conn].info # None
       THEN sent' = reqs[conn].info /\ sentAge' = 0 /\ doubt' = (writer # conn)
       ELSE UNCHANGED <<sent, sentAge, doubt>>
    /\ UNCHANGED <<computer, info, row, log, left, writer, moves, wentBack, strayed>>

\* Another process takes over, of the same build, an update or a restored one.
\* What it collects first and what it sends start from nothing.
Restart(b) ==
    /\ b \in left.builds /\ Spend("restarts")
    /\ build' = b
    /\ wentBack' = (wentBack \/ b < build)
    /\ info' = None /\ sent' = None /\ sentAge' = 0
    /\ IF conn = NoConn THEN UNCHANGED <<reqs, conn>> ELSE HangUp(conn)
    /\ UNCHANGED <<inv, row, log, doubt, writer, moves, strayed>>

\* Mutant: the age is not capped.
PassTimeUncapped ==
    /\ sentAge' = sentAge + 1
    /\ UNCHANGED <<computer, info, sent, conn, reqs, row, log, left, history>>

\* Counted up to the age that matters.
PassTime ==
    /\ sentAge < ResendAfter
    /\ sentAge' = sentAge + 1
    /\ UNCHANGED <<computer, info, sent, conn, reqs, row, log, left, history>>

-----------------------------------------------------------------------------
(* The handler of the request on connection c.                             *)

At(c, stage) == reqs[c].stage = stage
Enter(c, stage) == reqs' = [reqs EXCEPT ![c].stage = stage]

\* TouchDevice notes the row's build; an error reads as no build.
TouchReads(c) ==
    /\ At(c, "sent")
    /\ \/ /\ reqs' = [reqs EXCEPT ![c].stage = "read", ![c].old = row.build]
          /\ UNCHANGED left
       \/ row.build # NoBuild /\ Fail /\ Enter(c, "read")
    /\ UNCHANGED <<computer, agentVars, row, log, history>>

\* Mutant: the builds compared the wrong way round.
EventSwapped(c) ==
    LET e == <<reqs[c].build, reqs[c].old>>
    IN IF NoBuild \in {e[1], e[2]} \/ e[1] = e[2] THEN {} ELSE {e}

\* The change of build that a handler has noted, if any.
Event(c) ==
    LET e == <<reqs[c].old, reqs[c].build>>
    IN IF NoBuild \in {e[1], e[2]} \/ e[1] = e[2] THEN {} ELSE {e}

\* Mutant: the build is read once the row has the new one.
TouchUpdatesFirst(c) ==
    /\ At(c, "read")
    /\ row' = [row EXCEPT !.build = reqs[c].build]
    /\ reqs' = [reqs EXCEPT ![c].stage = "touched", ![c].old = reqs[c].build]
    /\ moves' = IF reqs[c].old = row.build THEN moves \cup Event(c) ELSE moves
    /\ strayed' = (strayed \/ (c # conn /\ row.build # reqs[c].build))
    /\ UNCHANGED <<computer, agentVars, log, left, doubt, writer, wentBack>>

\* Then updates the row.  If another request has updated it in between, the change
\* is not the one noted.
TouchUpdates(c) ==
    /\ At(c, "read")
    /\ row' = [row EXCEPT !.build = reqs[c].build]
    /\ Enter(c, "touched")
    /\ moves' = IF reqs[c].old = row.build THEN moves \cup Event(c) ELSE moves
    /\ strayed' = (strayed \/ (c # conn /\ row.build # reqs[c].build))
    /\ UNCHANGED <<computer, agentVars, log, left, doubt, writer, wentBack>>

\* And logs the change it has noted; an error is swallowed.
TouchLogs(c) ==
    /\ At(c, "touched")
    /\ reqs' = [reqs EXCEPT ![c].stage = "logged", ![c].old = NoBuild]
    /\ \/ log' = log \cup Event(c) /\ UNCHANGED <<left, moves>>
       \/ Event(c) # {} /\ Fail /\ moves' = moves \ Event(c) /\ UNCHANGED log
    /\ UNCHANGED <<computer, agentVars, row, doubt, writer, wentBack, strayed>>

\* SetSystemInfo, if there is one: its failure does not fail the request.
SetSystemInfo(c) ==
    /\ At(c, "logged")
    /\ Enter(c, "stored")
    /\ IF reqs[c].info = None THEN UNCHANGED <<row, left, doubt, writer>>
       ELSE \/ /\ row' = [row EXCEPT !.info = reqs[c].info]
               /\ writer' = c /\ doubt' = TRUE
               /\ UNCHANGED left
            \/ /\ Fail
               /\ writer' = IF writer = c THEN NoConn ELSE writer
               /\ UNCHANGED <<row, doubt>>
    /\ UNCHANGED <<computer, agentVars, log, moves, wentBack, strayed>>

\* The rows are inserted (UploadPath) and the 200 is sent; for a connection the agent
\* has left it goes nowhere.
Finish(c) ==
    /\ At(c, "stored")
    /\ IF c = conn THEN Enter(c, "ok") ELSE reqs' = [reqs EXCEPT ![c] = Free]
    /\ UNCHANGED <<computer, agentVars, row, log, left, history>>

\* An error, a refusal, or the server stops: the agent waits for what will not come.
HandlerFails(c) ==
    /\ reqs[c].stage \notin {"free", "ok"}
    /\ reqs' = [reqs EXCEPT ![c] = Free]
    /\ IF c = conn THEN Fail /\ conn' = NoConn ELSE UNCHANGED <<left, conn>>
    /\ moves' = IF At(c, "touched") THEN moves \ Event(c) ELSE moves
    /\ UNCHANGED <<computer, info, sent, sentAge, row, log, doubt, writer,
                   wentBack, strayed>>

-----------------------------------------------------------------------------
Handle(c) ==
    TouchReads(c) \/ TouchUpdates(c) \/ TouchLogs(c) \/ SetSystemInfo(c) \/ Finish(c)

Next ==
    \/ \E v \in Inventories : ChangeHardware(v)
    \/ \E b \in Builds : Restart(b)
    \/ Collect \/ CollectInPart \/ UploadFails \/ Ack \/ PassTime
    \/ \E c \in Conns : BeginUpload(c) \/ Handle(c) \/ HandlerFails(c)

Spec == Init /\ [][Next]_vars

\* The agent's loops run and its uploads go on, though some fail; what it has
\* abandoned ends.
Fairness ==
    /\ WF_vars(Collect) /\ WF_vars(PassTime) /\ WF_vars(Ack)
    /\ WF_vars(\E c \in Conns : BeginUpload(c))
    /\ \A c \in Conns : WF_vars(Handle(c))

FairSpec == Spec /\ Fairness

-----------------------------------------------------------------------------
(* What the server's knowledge is worth.                                   *)

TypeOK ==
    /\ inv \in Inventories \cup {None} /\ build \in Builds
    /\ info \in Contents /\ sent \in Contents /\ sentAge \in 0 .. ResendAfter
    /\ conn \in Conns \cup {NoConn}
    /\ reqs \in [Conns -> [stage : {"free", "sent", "read", "touched", "logged",
                                    "stored", "ok"},
                           build : Builds \cup {NoBuild}, info : Contents,
                           old : Builds \cup {NoBuild}]]
    /\ row \in [build : Builds \cup {NoBuild}, info : Contents]
    /\ log \subseteq Builds \X Builds /\ moves \subseteq Builds \X Builds
    /\ left \in [hardware : Nat, restarts : Nat, failures : Nat, builds : SUBSET Builds]
    /\ writer \in Conns \cup {NoConn}
    /\ {doubt, wentBack, strayed} \subseteq BOOLEAN

\* An inventory the agent keeps to itself as known is the one in the row, though it
\* may change while its upload is under way and requests it has given up on may be
\* carried out after others.  The exceptions: that upload's store failed unnoticed, or
\* another since was stored and its answer has not arrived.
KnownIsStored == ~doubt /\ sent # None => row.info = sent

\* Whatever is lost, late, half done or swallowed as an error: once the hardware stays
\* as it is, the server has it and keeps it.
ProfileCatchesUp == <>[](row.info = inv)

\* No change of the row's build goes unrecorded though it is logged two statements
\* after it is seen: it is in the log, or a handler is about to put it there.  The
\* exceptions are an error, a stop of the server, and a row that another request
\* updates between the first two.
AuditComplete ==
    moves \subseteq log \cup UNION {IF At(c, "touched") THEN Event(c) ELSE {} : c \in Conns}

\* The log accuses no device of a downgrade that did not go back to an older build,
\* unless an abandoned request was carried out.
DowngradeHasCause == \A e \in log : e[2] < e[1] => wentBack \/ strayed
=============================================================================
