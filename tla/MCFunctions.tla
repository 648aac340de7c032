------------------------------ MODULE MCFunctions ------------------------------
(***************************************************************************)
(* For TLC, one at a time: the dashboard's queries, the rate limiter, the  *)
(* reading of a computer's inventory, the agent's log, its monitor probe,  *)
(* its measure of idleness and its autostart.  They share no state.        *)
(***************************************************************************)
EXTENDS MCQueries, RateLimiter, Inventory, LogFile, MonitorProbe, Autostart

VARIABLES
    subject,        \* what this behaviour is about
    input           \* of the inventory

\* A name for each input's kind, and the input of the other subjects.
NoInput == [kind |-> "none"]

-----------------------------------------------------------------------------
(* Tables: up to two structures, whole, marked as ended, or with one byte wrong. *)

Structures ==
    [data : {<<1, 4, 7, 0>>, <<2, 5, 7, 0, 3>>}, strings : {<<>>, <<<<3>>>>, <<<<3, 4>>, <<3>>>>}]

EncodeStrings(set) ==
    IF set = <<>> THEN <<0, 0>> ELSE FlattenSeq([i \in DOMAIN set |-> Append(set[i], 0)]) \o <<0>>

Encode(structs) ==
    FlattenSeq([i \in DOMAIN structs |-> structs[i].data \o EncodeStrings(structs[i].strings)])

Marker == <<EndOfTable, 4, 0, 0, 0, 0>>

Tables ==
    LET lists == UNION {[1 .. n -> Structures] : n \in 1 .. 2}
        whole == {[kind |-> "table", structs |-> l, bytes |-> Encode(l) \o m] :
                      l \in lists, m \in {<<>>, Marker}}
    IN  whole \cup UNION {{[kind |-> "wrong", bytes |-> [w.bytes EXCEPT ![i] = b]] :
                               i \in DOMAIN w.bytes, b \in {0, 3, 6, EndOfTable}} : w \in whole}

-----------------------------------------------------------------------------
(* What a machine is, and how firmware writes it down (DMTF DSP0134).      *)

Array(handle, use) == [type |-> 16, handle |-> handle, len |-> 15, at |-> (5 :> use)]
Arrays == <<Array(1, 3), Array(2, 4)>>

Sticks ==
    [size : {0, 3, 2 * 1024, (WordHigh - 1) * 1024, (DWordHigh - 1) * 1024},
     speed : {0, 5, WordMax, WordMax + 5}, rated : {9}, array : {1, 2}, len : {28, 34, 92}]

Word(n) == IF n < WordMax THEN n ELSE WordMax
SizeWord(kb) ==
    IF kb % 1024 # 0                    THEN WordHigh + kb
    ELSE IF kb \div 1024 < WordHigh - 1 THEN kb \div 1024
                                        ELSE WordHigh - 1

Device(stick) ==
    [type |-> 17, handle |-> 9, len |-> stick.len,
     at |-> 4 :> stick.array @@ 12 :> SizeWord(stick.size) @@ 28 :> stick.size \div 1024
            @@ 21 :> Word(stick.rated) @@ 84 :> stick.rated
            @@ 32 :> Word(stick.speed) @@ 88 :> stick.speed]

Machines ==
    {[kind |-> "memory", sticks |-> s, structs |-> o] :
        s \in [1 .. 2 -> Sticks], o \in {"arrays first", "arrays last"}}

Structs(m) ==
    LET devices == [i \in DOMAIN m.sticks |-> Device(m.sticks[i])]
    IN  IF m.structs = "arrays first" THEN Arrays \o devices ELSE devices \o Arrays

\* A socket: longer structures have a status, then a count, then a word for it.
Sockets == [cores : 0 .. ByteMax + 2, populated : BOOLEAN, len : {24, 38, 48}]
Socket(s) ==
    [type |-> 4, handle |-> 9, len |-> s.len,
     at |-> 24 :> (IF s.populated THEN Populated + 1 ELSE 0)
            @@ 35 :> (IF s.cores < ByteMax THEN s.cores ELSE ByteMax) @@ 42 :> s.cores]

CPUs == {[kind |-> "cpu", sockets |-> s] : s \in [1 .. 2 -> Sockets]}

\* Functions of a bus: of the board or of another's chip, stamped or not.
PCIFunctions == [ven : {1, 9}, sub : {<<0, 1>>, <<1, 1>>, <<5, 1>>, <<5, 2>>, <<6, 1>>}]
Buses == {[kind |-> "bus", ids |-> s] : s \in [1 .. 4 -> PCIFunctions]}

\* Texts of characters of one to four bytes.
Texts == {[kind |-> "text", chars |-> c] : c \in UNION {[1 .. n -> 1 .. 4] : n \in 0 .. 5}}
Character(width) == [i \in 1 .. width |-> IF i = 1 THEN width ELSE 0]
Bytes(chars) == FlattenSeq([i \in DOMAIN chars |-> Character(chars[i])])

Inputs == Tables \cup Machines \cup CPUs \cup Buses \cup Texts

-----------------------------------------------------------------------------
queriesVars == <<evs, from, to, rows, now, offset>>
QueriesIdle == evs = {} /\ from = 0 /\ to = 0 /\ rows = {} /\ now = 0 /\ offset = 0

\* Only the subject's own variables vary.
FunctionsInit ==
    /\ subject \in {"queries", "limiter", "inventory", "log", "probe", "idle",
                   "autostart"}
    /\ IF subject = "queries" THEN Init ELSE QueriesIdle
    /\ IF subject = "inventory" THEN input \in Inputs ELSE input = NoInput
    /\ IF subject = "probe" THEN DDCInit ELSE DDCInit /\ watcher = "absent"
    /\ LimiterInit /\ LogInit /\ IdleInit /\ AutostartInit

FunctionsNext ==
    /\ IF subject = "queries" THEN Next ELSE UNCHANGED queriesVars
    /\ IF subject = "limiter" THEN LimiterNext ELSE UNCHANGED limiterVars
    /\ IF subject = "log" THEN LogNext ELSE UNCHANGED logVars
    /\ IF subject = "probe" THEN DDCNext ELSE UNCHANGED ddcVars
    /\ IF subject = "idle" THEN IdleNext ELSE UNCHANGED idleVars
    /\ IF subject = "autostart" THEN AutostartNext ELSE UNCHANGED autostartVars
    /\ UNCHANGED <<subject, input>>

functionsVars ==
    <<queriesVars, limiterVars, logVars, probeVars, autostartVars, subject, input>>
FunctionsSpec == FunctionsInit /\ [][FunctionsNext]_functionsVars

-----------------------------------------------------------------------------
\* A table is read back as it was written, with or without strings and end marker.
TableReadsBack == input.kind = "table" => ParseSMBIOS(input.bytes) = input.structs

\* Wherever a table breaks off, what is read of it is what the whole would give: the
\* same structures, the last perhaps with fewer strings and none of them cut; also of
\* a table that is wrong somewhere.
CutTableReadsPrefix ==
    input.kind \in {"table", "wrong"} =>
        LET whole == ParseSMBIOS(input.bytes)
        IN  \A k \in 0 .. Len(input.bytes) :
                LET cut == ParseSMBIOS(SubSeq(input.bytes, 1, k))
                IN  /\ Len(cut) <= Len(whole)
                    /\ \A i \in DOMAIN cut :
                           /\ cut[i].data = whole[i].data
                           /\ IsPrefix(cut[i].strings, whole[i].strings)
                           /\ i < Len(cut) => cut[i].strings = whole[i].strings

\* The memory shown is the memory installed, though its numbers come in words, in
\* escapes to longer fields or not at all, and arrays after their devices: sizes add
\* up, the machine runs at its slowest stick, and what serves something else is not
\* counted.
MemoryAddsUp ==
    input.kind = "memory" =>
        LET Readable(n, escape, end, s) == IF n >= escape /\ s.len < end THEN 0 ELSE n
            SizeOf(s) == Readable(s.size, (WordHigh - 1) * 1024, 32, s)
            Configured(s) == IF s.len < 34 THEN 0 ELSE Readable(s.speed, WordMax, 92, s)
            SpeedOf(s) == IF Configured(s) = 0 THEN s.rated ELSE Configured(s)
            own == SelectSeq(input.sticks, LAMBDA s : s.array = 1)
            present == SelectSeq(own, LAMBDA s : SizeOf(s) # 0)
            info == BuildMemoryInfo(Structs(input))
        IN  /\ info.slots = Len(own) /\ info.modules = Len(present)
            /\ info.total = SumOver(present, SizeOf)
            /\ present # <<>> => /\ \E s \in ToSet(present) : info.speed = SpeedOf(s)
                                 /\ \A s \in ToSet(present) : info.speed <= SpeedOf(s)

\* Cores are those of the sockets in use, more than a byte can say included.
CoresAddUp ==
    input.kind = "cpu" =>
        LET CoresIn(s) == IF s.len < 36 \/ ~s.populated THEN 0
                          ELSE IF s.len < 44 /\ s.cores > ByteMax THEN ByteMax
                          ELSE s.cores
        IN  CPUCores([i \in DOMAIN input.sockets |-> Socket(input.sockets[i])])
                = SumOver(input.sockets, CoresIn)

\* The board's identity does not depend on the order in which a map is walked: were it
\* to change between two collections, each would count as changed hardware.
IdentityIsStable ==
    input.kind = "bus" =>
        LET reported == BoardIdentities(input.ids)
            Often(stamp) == Cardinality({i \in DOMAIN input.ids :
                                /\ input.ids[i].sub = stamp /\ input.ids[i].ven \in BoardVendors
                                /\ stamp[1] \notin BoardVendors \cup Unprogrammed})
        IN  \E stamp \in reported :
                /\ reported = {stamp}
                /\ IF stamp = NoStamp THEN \A i \in DOMAIN input.ids : Often(input.ids[i].sub) < 2
                   ELSE \A i \in DOMAIN input.ids : Often(input.ids[i].sub) <= Often(stamp)

\* A text is cut between characters, no earlier than it must.
ClipCutsBetweenCharacters ==
    input.kind = "text" =>
        LET fits == {n \in 0 .. Len(input.chars) :
                         Len(Bytes(SubSeq(input.chars, 1, n))) <= MaxInfoString}
        IN  Clip(Bytes(input.chars)) = Bytes(SubSeq(input.chars, 1, Max(fits)))

\* What the server is told of a computer is what the computer has, through lengths,
\* escapes, missing fields and broken tables.
InventoryIsExact ==
    /\ TableReadsBack /\ CutTableReadsPrefix
    /\ MemoryAddsUp /\ CoresAddUp
    /\ ClipCutsBetweenCharacters
=============================================================================
