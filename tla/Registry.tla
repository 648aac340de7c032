------------------------------- MODULE Registry -------------------------------
(***************************************************************************)
(* Who a computer is to the server, and what is stored in its name.        *)
(*                                                                         *)
(* The operator prepares a device slot; its one-time secret travels in     *)
(* enroll.json to a computer, whose agent exchanges it for a durable token *)
(* (main.go resolveCredentials, enroll.go, creds.go; store.go              *)
(* ConsumeEnrollment) and reports with it.  handleIngest looks the device  *)
(* up, touches its row, reads its title preference and inserts, each in a  *)
(* database access of its own, while the operator revokes, opts out,       *)
(* clears titles, deletes and prepares.  Answers may be lost, requests     *)
(* late, the agent may die between any two steps.                          *)
(*                                                                         *)
(* A slot's secret and its token are named by the slot's UUID: both are    *)
(* issued at most once.  SQLite hands out row ids: the largest plus one.   *)
(***************************************************************************)
EXTENDS Integers, FiniteSets

CONSTANTS
    Uuids,          \* device slots ever prepared
    Computers,
    Handlers,       \* ingest requests at work at a time
    Attempts,       \* tries of enrollWithRetry
    EnrollTTL,      \* enrollTTL
    MaxTime,        \* bound on the clock
    MaxFailures,    \* bound on failing database accesses and file writes
    NoUuid, Torn    \* no identity; a credentials file cut short

ASSUME RegistryAssumption ==
    /\ NoUuid \notin Uuids /\ Torn \notin Uuids /\ NoUuid # Torn
    /\ IsFiniteSet(Uuids)
    /\ Attempts \in Nat \ {0} /\ EnrollTTL \in Nat
    /\ MaxTime \in Nat /\ MaxFailures \in Nat

VARIABLES
    now,
    devs,       \* table devices, by row id
    rows,       \* table samples: under which id, sent as whom, with a title?
    comp,       \* the computers
    enr,        \* the enrollment request of a computer's current attempt
    strays,     \* secrets in requests whose sender no longer listens
    hs,         \* the ingest handlers
    failures,
    \* History, never read by an action:
    used,       \* slots prepared so far
    lost,       \* tokens issued that were lost with an answer, a crash or a
                \* failed write before the credentials file held them
    inherited,  \* slots that took over a deleted slot's row id while one of
                \* its requests was at work
    cleared,    \* slots opted out whose titles were cleared since
    leaks       \* slots with a request that had its answer on titles before
                \* that, or got none
history == <<used, lost, inherited, cleared, leaks>>
vars == <<now, devs, rows, comp, enr, strays, hs, failures, history>>

Ids == 1 .. Cardinality(Uuids)
Identity == Uuids \cup {NoUuid}

DeviceType == [uuid : Uuids, secret : BOOLEAN, expires : Nat, token : BOOLEAN,
               revoked : BOOLEAN, logTitles : BOOLEAN, host : Identity]
NoRow == [uuid |-> NoUuid]
RowIds == {i \in Ids : devs[i] # NoRow}

\* file: enroll.json; creds: credentials.json; got: identity in memory only.
ComputerType == [pc : {"off", "enroll", "wait", "save", "remove", "run"},
                 file : Identity, creds : Identity \cup {Torn}, got : Identity,
                 tries : 0 .. Attempts]
NewComputer == [pc |-> "off", file |-> NoUuid, creds |-> NoUuid, got |-> NoUuid,
                tries |-> 0]
HandlerType == [stage : {"free", "found", "touched", "decided"}, id : Ids \cup {0},
                from : Identity, titled : BOOLEAN]
Free == [stage |-> "free", id |-> 0, from |-> NoUuid, titled |-> FALSE]

Init ==
    /\ now = 0
    /\ devs = [i \in Ids |-> NoRow]
    /\ rows = {}
    /\ comp = [c \in Computers |-> NewComputer]
    /\ enr = [c \in Computers |-> "none"]
    /\ strays = {}
    /\ hs = [h \in Handlers |-> Free]
    /\ failures = 0
    /\ used = {} /\ lost = {} /\ inherited = {} /\ cleared = {} /\ leaks = {}

Fail == failures < MaxFailures /\ failures' = failures + 1

PassTime ==
    /\ now < MaxTime
    /\ now' = now + 1
    /\ UNCHANGED <<devs, rows, comp, enr, strays, hs, failures, history>>

-----------------------------------------------------------------------------
(* The operator.                                                           *)

NextId == IF RowIds = {} THEN 1 ELSE 1 + CHOOSE i \in RowIds : \A j \in RowIds : j <= i

PrepareEnrollment(u) ==
    /\ u \notin used
    /\ devs' = [devs EXCEPT ![NextId] =
           [uuid |-> u, secret |-> TRUE, expires |-> now + EnrollTTL, token |-> FALSE,
            revoked |-> FALSE, logTitles |-> TRUE, host |-> NoUuid]]
    /\ used' = used \cup {u}
    /\ inherited' = IF \E h \in Handlers : hs[h].stage # "free" /\ hs[h].id = NextId
                    THEN inherited \cup {u} ELSE inherited
    /\ UNCHANGED <<now, rows, comp, enr, strays, hs, failures, lost, cleared, leaks>>

\* The installer leaves enroll.json on a computer, or on several.
Install(c, u) ==
    /\ u \in used /\ comp[c].pc = "off"
    /\ comp' = [comp EXCEPT ![c].file = u]
    /\ UNCHANGED <<now, devs, rows, enr, strays, hs, failures, history>>

SetRevoked(i, revoked) ==
    /\ i \in RowIds
    /\ devs' = [devs EXCEPT ![i].revoked = revoked]
    /\ UNCHANGED <<now, rows, comp, enr, strays, hs, failures, history>>

SetLogTitles(i, on) ==
    /\ i \in RowIds
    /\ devs' = [devs EXCEPT ![i].logTitles = on]
    /\ cleared' = IF on THEN cleared \ {devs[i].uuid} ELSE cleared
    /\ UNCHANGED <<now, rows, comp, enr, strays, hs, failures, used, lost, inherited, leaks>>

ClearDeviceTitles(i) ==
    /\ i \in RowIds
    /\ rows' = {[r EXCEPT !.titled = @ /\ r.id # i] : r \in rows}
    /\ cleared' = IF devs[i].logTitles THEN cleared ELSE cleared \cup {devs[i].uuid}
    /\ leaks' = IF \E h \in Handlers : hs[h].stage = "decided" /\ hs[h].id = i /\ hs[h].titled
                THEN leaks \cup {devs[i].uuid} ELSE leaks
    /\ UNCHANGED <<now, devs, comp, enr, strays, hs, failures, used, lost, inherited>>

\* Mutant: the samples stay behind.
DeleteRowOnly(i) ==
    /\ i \in RowIds
    /\ devs' = [devs EXCEPT ![i] = NoRow]
    /\ UNCHANGED <<now, rows, comp, enr, strays, hs, failures, history>>

\* One transaction over all tables.
DeleteDevice(i) ==
    /\ i \in RowIds
    /\ devs' = [devs EXCEPT ![i] = NoRow]
    /\ rows' = {r \in rows : r.id # i}
    /\ UNCHANGED <<now, comp, enr, strays, hs, failures, history>>

-----------------------------------------------------------------------------
(* Enrollment, at the server.                                              *)

\* Mutant: a secret is not void once consumed.
OpenForAgain(i, u) ==
    devs[i] # NoRow /\ devs[i].uuid = u /\ ~devs[i].revoked
    /\ (devs[i].token \/ now <= devs[i].expires)

\* The slot a secret opens: unused, unexpired, not revoked.
OpenFor(i, u) ==
    devs[i] # NoRow /\ devs[i].uuid = u /\ ~devs[i].revoked
    /\ devs[i].secret /\ ~devs[i].token /\ now <= devs[i].expires

\* ConsumeEnrollment: the token is issued, the secret void, in one transaction.
Consume(u) ==
    devs' = [i \in Ids |-> IF OpenFor(i, u)
                           THEN [devs[i] EXCEPT !.secret = FALSE, !.token = TRUE,
                                                !.host = u]
                           ELSE devs[i]]

HandleEnroll(c) ==
    /\ enr[c] = "sent"
    /\ \/ /\ \E i \in Ids : OpenFor(i, comp[c].file)
          /\ Consume(comp[c].file)
          /\ enr' = [enr EXCEPT ![c] = "ok"]
          /\ UNCHANGED failures
       \/ /\ \A i \in Ids : ~OpenFor(i, comp[c].file)
          /\ enr' = [enr EXCEPT ![c] = "rejected"]
          /\ UNCHANGED <<devs, failures>>
       \* The rate limiter or the database refuses.
       \/ /\ Fail
          /\ enr' = [enr EXCEPT ![c] = "error"]
          /\ UNCHANGED devs
    /\ UNCHANGED <<now, rows, comp, strays, hs, history>>

\* A request whose sender has given up is carried out all the same, or lost.
HandleStray(u) ==
    /\ u \in strays
    /\ strays' = strays \ {u}
    /\ Consume(u)
    /\ lost' = IF \E i \in Ids : OpenFor(i, u) THEN lost \cup {u} ELSE lost
    /\ UNCHANGED <<now, rows, comp, enr, hs, failures, used, inherited, cleared, leaks>>

-----------------------------------------------------------------------------
(* Enrollment, at the computer.                                            *)

\* LoadCredentials, then enroll.json.  A file cut short, or no secret: exit.
Start(c) ==
    /\ comp[c].pc = "off"
    /\ \/ comp[c].creds \in Uuids /\ comp' = [comp EXCEPT ![c].pc = "run"]
       \/ /\ comp[c].creds = NoUuid /\ comp[c].file # NoUuid
          /\ comp' = [comp EXCEPT ![c].pc = "enroll", ![c].tries = 0]
    /\ UNCHANGED <<now, devs, rows, enr, strays, hs, failures, history>>

SendEnroll(c) ==
    /\ comp[c].pc = "enroll"
    /\ comp' = [comp EXCEPT ![c].pc = "wait", ![c].tries = @ + 1]
    /\ enr' = [enr EXCEPT ![c] = "sent"]
    /\ UNCHANGED <<now, devs, rows, strays, hs, failures, history>>

EnrollAnswered(c) ==
    /\ comp[c].pc = "wait"
    /\ \/ /\ enr[c] = "ok"
          /\ comp' = [comp EXCEPT ![c].pc = "save", ![c].got = comp[c].file]
       \/ /\ enr[c] = "rejected"
          /\ comp' = [comp EXCEPT ![c].pc = "off"]
    /\ enr' = [enr EXCEPT ![c] = "none"]
    /\ UNCHANGED <<now, devs, rows, strays, hs, failures, history>>

\* What becomes of a request its sender no longer waits for.
Abandon(c) ==
    /\ enr' = [enr EXCEPT ![c] = "none"]
    /\ strays' = IF enr[c] = "sent" THEN strays \cup {comp[c].file} ELSE strays
    /\ lost' = IF enr[c] = "ok" THEN lost \cup {comp[c].file} ELSE lost

\* Mutant: the attempts are not counted.
EnrollFailsAgain(c) ==
    /\ comp[c].pc = "wait"
    /\ Abandon(c)
    /\ comp' = [comp EXCEPT ![c].pc = "enroll"]
    /\ UNCHANGED <<now, devs, rows, hs, failures, used, inherited, cleared, leaks>>

\* Any other status, a timeout, a lost answer: again, a bounded number of times.
EnrollFails(c) ==
    /\ comp[c].pc = "wait"
    /\ Abandon(c)
    /\ comp' = [comp EXCEPT ![c].pc = IF comp[c].tries < Attempts THEN "enroll" ELSE "off"]
    /\ UNCHANGED <<now, devs, rows, hs, failures, used, inherited, cleared, leaks>>

\* Mutant: a failed write is not noticed.
SaveUnchecked(c) ==
    /\ comp[c].pc = "save"
    /\ \E creds \in {comp[c].got, NoUuid} :
          comp' = [comp EXCEPT ![c].pc = "remove", ![c].creds = creds, ![c].got = NoUuid]
    /\ UNCHANGED <<now, devs, rows, enr, strays, hs, failures, history>>

SaveCredentials(c) ==
    /\ comp[c].pc = "save"
    /\ comp' = [comp EXCEPT ![c].pc = "remove", ![c].creds = comp[c].got, ![c].got = NoUuid]
    /\ UNCHANGED <<now, devs, rows, enr, strays, hs, failures, history>>

\* The write fails, having truncated the file or not: the agent exits.
SaveFails(c) ==
    /\ comp[c].pc = "save"
    /\ Fail
    /\ \E creds \in {NoUuid, Torn} :
          comp' = [comp EXCEPT ![c].pc = "off", ![c].creds = creds, ![c].got = NoUuid]
    /\ lost' = lost \cup {comp[c].got}
    /\ UNCHANGED <<now, devs, rows, enr, strays, hs, used, inherited, cleared, leaks>>

\* Best effort: a leftover file is void.
RemoveEnrollFile(c, done) ==
    /\ comp[c].pc = "remove"
    /\ comp' = [comp EXCEPT ![c].pc = "run", ![c].file = IF done THEN NoUuid ELSE @]
    /\ UNCHANGED <<now, devs, rows, enr, strays, hs, failures, history>>

\* The agent process ends, perhaps in the middle of the write.
Crash(c) ==
    /\ comp[c].pc # "off"
    /\ \E creds \in IF comp[c].pc = "save" THEN {NoUuid, Torn} ELSE {comp[c].creds} :
          comp' = [comp EXCEPT ![c].pc = "off", ![c].creds = creds, ![c].got = NoUuid]
    /\ IF comp[c].pc = "wait" THEN Abandon(c)
       ELSE /\ lost' = IF comp[c].pc = "save" THEN lost \cup {comp[c].got} ELSE lost
            /\ UNCHANGED <<enr, strays>>
    /\ UNCHANGED <<now, devs, rows, hs, failures, used, inherited, cleared, leaks>>

-----------------------------------------------------------------------------
(* Reporting: handleIngest.                                                *)

\* The row a token stands for.
KnownBy(i, u) ==
    devs[i] # NoRow /\ devs[i].uuid = u /\ devs[i].token /\ ~devs[i].revoked

\* DeviceByToken.  Any other token is answered 401 and changes nothing.
DeviceByToken(h, c, i) ==
    /\ hs[h].stage = "free"
    /\ comp[c].pc = "run"
    /\ KnownBy(i, comp[c].creds)
    /\ hs' = [hs EXCEPT ![h] = [Free EXCEPT !.stage = "found", !.id = i,
                                            !.from = comp[c].creds]]
    /\ UNCHANGED <<now, devs, rows, comp, enr, strays, failures, history>>

\* Hostname, version, build and last_seen of the row with that id, if any.
TouchDevice(h) ==
    /\ hs[h].stage = "found"
    /\ hs' = [hs EXCEPT ![h].stage = "touched"]
    /\ devs' = [i \in Ids |-> IF i = hs[h].id /\ i \in RowIds
                              THEN [devs[i] EXCEPT !.host = hs[h].from] ELSE devs[i]]
    /\ UNCHANGED <<now, rows, comp, enr, strays, failures, history>>

\* Mutant: the preference is not looked at.
DeviceLogTitlesIgnored(h) ==
    /\ hs[h].stage = "touched"
    /\ hs' = [hs EXCEPT ![h].stage = "decided", ![h].titled = TRUE]
    /\ UNCHANGED <<now, devs, rows, comp, enr, strays, failures, history>>

\* A missing row, or a failing query, keeps the titles.
DeviceLogTitles(h) ==
    /\ hs[h].stage = "touched"
    /\ \/ /\ hs' = [hs EXCEPT ![h].stage = "decided",
                              ![h].titled = hs[h].id \in RowIds => devs[hs[h].id].logTitles]
          /\ UNCHANGED <<failures, leaks>>
       \/ /\ Fail
          /\ hs' = [hs EXCEPT ![h].stage = "decided", ![h].titled = TRUE]
          /\ leaks' = leaks \cup {devs[i].uuid : i \in RowIds \cap {hs[h].id}}
    /\ UNCHANGED <<now, devs, rows, comp, enr, strays, used, lost, inherited, cleared>>

\* The foreign key refuses rows without a device.
InsertSamples(h) ==
    /\ hs[h].stage = "decided"
    /\ hs[h].id \in RowIds
    /\ rows' = rows \cup {[id |-> hs[h].id, from |-> hs[h].from, titled |-> hs[h].titled]}
    /\ hs' = [hs EXCEPT ![h] = Free]
    /\ UNCHANGED <<now, devs, comp, enr, strays, failures, history>>

\* An error, or the server stops.
HandlerFails(h) ==
    /\ hs[h].stage # "free"
    /\ hs' = [hs EXCEPT ![h] = Free]
    /\ UNCHANGED <<now, devs, rows, comp, enr, strays, failures, history>>

-----------------------------------------------------------------------------
(* The device list.                                                        *)

\* Mutant: the last second is not the slot's any more.
DeviceStatusEarly(i) ==
    IF devs[i].revoked             THEN "revoked"
    ELSE IF devs[i].token          THEN "active"
    ELSE IF devs[i].expires <= now THEN "expired"
                                   ELSE "pending"

DeviceStatus(i) ==
    IF devs[i].revoked            THEN "revoked"
    ELSE IF devs[i].token         THEN "active"
    ELSE IF devs[i].expires < now THEN "expired"
                                  ELSE "pending"

-----------------------------------------------------------------------------
Next ==
    \/ PassTime
    \/ \E u \in Uuids : PrepareEnrollment(u) \/ HandleStray(u)
    \/ \E i \in Ids : \/ \E b \in BOOLEAN : SetRevoked(i, b) \/ SetLogTitles(i, b)
                      \/ ClearDeviceTitles(i) \/ DeleteDevice(i)
    \/ \E c \in Computers : \/ \E u \in Uuids : Install(c, u)
                            \/ HandleEnroll(c) \/ Start(c) \/ SendEnroll(c)
                            \/ EnrollAnswered(c) \/ EnrollFails(c)
                            \/ SaveCredentials(c) \/ SaveFails(c) \/ Crash(c)
                            \/ \E done \in BOOLEAN : RemoveEnrollFile(c, done)
    \/ \E h \in Handlers : \/ \E c \in Computers, i \in Ids : DeviceByToken(h, c, i)
                           \/ TouchDevice(h) \/ DeviceLogTitles(h)
                           \/ InsertSamples(h) \/ HandlerFails(h)

Spec == Init /\ [][Next]_vars

-----------------------------------------------------------------------------
(* What the registry promises.                                             *)

TypeOK ==
    /\ now \in Nat /\ failures \in 0 .. MaxFailures
    /\ devs \in [Ids -> DeviceType \cup {NoRow}]
    /\ rows \subseteq [id : Ids, from : Uuids, titled : BOOLEAN]
    /\ comp \in [Computers -> ComputerType]
    /\ enr \in [Computers -> {"none", "sent", "ok", "rejected", "error"}]
    /\ hs \in [Handlers -> HandlerType]
    /\ strays \subseteq Uuids
    /\ \A set \in {used, lost, inherited, cleared, leaks} : set \subseteq Uuids

\* The computers that hold an identity or are about to receive it.
Holders(u) == {c \in Computers : \/ u \in {comp[c].creds, comp[c].got}
                                 \/ comp[c].file = u /\ enr[c] = "ok"}

\* One computer per identity: however often a secret is copied, resent and
\* delivered late, it buys one token for one computer.
OneIdentity ==
    \A u \in Uuids : Cardinality(Holders(u)) <= IF u \in lost THEN 0 ELSE 1

\* A token once issued is in its computer's hands, or was lost with an answer, a
\* crash or a failed write.
IdentityCustody ==
    \A i \in RowIds : devs[i].token =>
        devs[i].uuid \in lost \/ Holders(devs[i].uuid) # {}

\* What is stored of a device was reported with its own token: a deleted device's
\* rows never turn up under another.  The exception: a request that was at work
\* while its device was deleted and a new one took over the row id.
RowsBelongToSender ==
    /\ \A r \in rows : /\ r.id \in RowIds
                       /\ devs[r.id].uuid \in {r.from} \cup inherited
    /\ \A i \in RowIds : devs[i].host \in {NoUuid, devs[i].uuid}
                         \/ devs[i].uuid \in inherited

\* The dashboard's status is what the device would meet with: a pending slot's secret
\* is accepted and no other's, an active device's token and no other's.
StatusIsTrue ==
    \A i \in RowIds :
        /\ DeviceStatus(i) = "pending" <=> OpenFor(i, devs[i].uuid)
        /\ DeviceStatus(i) = "active" <=> KnownBy(i, devs[i].uuid)

\* After opting a device out and clearing its titles none is stored for it, except
\* by a request that had its answer on titles before, or got none.
OptOutHolds ==
    \A i \in RowIds : devs[i].uuid \in cleared \ leaks =>
        \A r \in rows : r.id = i => ~r.titled
=============================================================================
