------------------------------- MODULE Inventory -------------------------------
(***************************************************************************)
(* How a computer's inventory is read from what firmware and bus report    *)
(* (agent sysinfo.go), and cut to size by the server (server sysinfo.go).  *)
(*                                                                         *)
(* A structure of the firmware's table is a record: its type, its          *)
(* formatted area and its strings.  For its numbers the area is given by   *)
(* its length and, at each offset, the number that starts there: a number  *)
(* is present when it ends within the length.  Sizes are in KB.  Strings   *)
(* are clean; names of makers, products and buses are left out.            *)
(***************************************************************************)
EXTENDS Integers, Sequences, FiniteSets, FiniteSetsExt, SequencesExt

CONSTANTS
    ByteMax,        \* 0xFF
    WordHigh,       \* 0x8000
    DWordHigh,      \* 0x80000000
    Populated,      \* 0x40, of a socket's status
    BoardVendors,   \* the chip vendors whose functions are the board's own
    Unprogrammed,   \* subsystem vendors of no board: 0, 0xFFFF
    MaxInfoString   \* maxInfoString

ASSUME InventoryAssumption == 0 \in Unprogrammed

WordMax == 2 * WordHigh - 1

-----------------------------------------------------------------------------
(* The table: a sequence of bytes.                                         *)

EndOfTable == 127

\* Mutant: a string that the table cuts counts as one.
StringLengthCut(t, i) ==
    LET nuls == {k \in i .. Len(t) : t[k] = 0}
    IN  IF nuls = {} THEN Len(t) - i + 1 ELSE Min(nuls) - i

\* Length of the string that starts at i, or -1 if the table ends before it does.
StringLength(t, i) ==
    LET nuls == {k \in i .. Len(t) : t[k] = 0}
    IN  IF nuls = {} THEN -1 ELSE Min(nuls) - i

\* The strings of the set that starts at i, and where it ends.
Strings(t, i) ==
    LET walk[k \in Nat] ==
            LET n == StringLength(t, k)
            IN  CASE n < 0 -> [set |-> <<>>, next |-> Len(t) + 1]
                  [] n = 0 -> [set |-> <<>>, next |-> k + 1]
                  [] n > 0 -> [walk[k + n + 1]
                                  EXCEPT !.set = <<SubSeq(t, k, k + n - 1)>> \o @]
    IN  walk[i]

\* Mutant: the second NUL of an empty string set is taken for a header.
AfterOneNul(strings) == strings.next

\* Where the next structure starts: an empty string set is two NULs.
After(strings) == strings.next + IF strings.set = <<>> THEN 1 ELSE 0

\* parseSMBIOS: a malformed structure, or one that the table cuts, ends it.
ParseSMBIOS(t) ==
    LET from[i \in Nat] ==
            LET length == t[i + 1]
                strings == Strings(t, i + length)
            IN  IF i + 3 > Len(t) \/ length < 4 \/ i + length - 1 > Len(t) \/ t[i] = EndOfTable
                THEN <<>>
                ELSE <<[data |-> SubSeq(t, i, i + length - 1), strings |-> strings.set]>>
                     \o from[After(strings)]
    IN  from[1]

-----------------------------------------------------------------------------
(* Numbers in a structure.                                                 *)

Has(s, off, width) == off + width <= s.len
At(s, off, width) == IF Has(s, off, width) THEN s.at[off] ELSE 0

OfType(structs, type) == SelectSeq(structs, LAMBDA s : s.type = type)
SumOver(S, f(_)) == FoldSeq(LAMBDA s, sum : f(s) + sum, 0, S)

\* Mutant: the extended count is not read.
CoresOfByte(s) == At(s, 35, 1)

\* A socket's cores: 0xFF stands for the word at the end of a longer structure.
CoresOf(s) ==
    LET c == At(s, 35, 1)
    IN  IF c = ByteMax /\ Has(s, 42, 2) THEN At(s, 42, 2) ELSE c

IsEmptySocket(s) == Has(s, 24, 1) /\ (At(s, 24, 1) \div Populated) % 2 = 0

\* cpuCounts.
CPUCores(structs) ==
    SumOver(SelectSeq(OfType(structs, 4), LAMBDA s : ~IsEmptySocket(s)), CoresOf)

\* Mutant: a size in KB is read as one in MB.
ModuleSizeInMB(s) ==
    LET size == At(s, 12, 2)
    IN  CASE size \in {0, WordMax}  -> 0
          [] size = WordHigh - 1    -> (At(s, 28, 4) % DWordHigh) * 1024
          [] OTHER                  -> (size % WordHigh) * 1024

\* memoryModuleSize: nothing or unknown, too large for the word, in KB or in MB.
MemoryModuleSize(s) ==
    LET size == At(s, 12, 2)
    IN  IF size \in {0, WordMax}      THEN 0
        ELSE IF size = WordHigh - 1   THEN (At(s, 28, 4) % DWordHigh) * 1024
        ELSE IF size >= WordHigh      THEN size - WordHigh
                                      ELSE size * 1024

\* memorySpeed.
MemorySpeed(s, off, extOff) ==
    LET v == At(s, off, 2)
    IN  IF v = WordMax THEN At(s, extOff, 4) % DWordHigh ELSE v

Speed(s) ==
    LET configured == MemorySpeed(s, 32, 88)
    IN  IF configured = 0 THEN MemorySpeed(s, 21, 84) ELSE configured

\* buildMemoryInfo: the devices that no array of another use holds, in whatever order
\* the firmware lists arrays and devices.
BuildMemoryInfo(structs) ==
    LET arrays == ToSet(OfType(structs, 16))
        system == {a.handle : a \in {b \in arrays : At(b, 5, 1) = 3}}
        Counts(s) == arrays = {} \/ ~Has(s, 4, 2) \/ At(s, 4, 2) \in system
        devices == SelectSeq(OfType(structs, 17), Counts)
        modules == SelectSeq(devices, LAMBDA s : MemoryModuleSize(s) # 0)
        speeds == {Speed(m) : m \in ToSet(modules)} \ {0}
    IN  [slots |-> Len(devices), modules |-> Len(modules),
         total |-> SumOver(modules, MemoryModuleSize),
         speed |-> IF speeds = {} THEN 0 ELSE Min(speeds)]

-----------------------------------------------------------------------------
(* The board's stamp: on a PCI function, <<subsystem vendor, device>>.     *)

NoStamp == <<0, 0>>

\* How often each stamp occurs on the board's own functions.
StampCounts(ids) ==
    LET own == {i \in DOMAIN ids : /\ ids[i].ven \in BoardVendors
                                   /\ ids[i].sub[1] \notin Unprogrammed \cup BoardVendors}
    IN  [stamp \in {ids[i].sub : i \in own} |-> Cardinality({i \in own : ids[i].sub = stamp})]

Before(a, b) == a[1] < b[1] \/ (a[1] = b[1] /\ a[2] < b[2])

\* Mutant: of two stamps as frequent the first met wins.
BestFirst(counts, order) ==
    FoldLeft(LAMBDA best, k : IF counts[k] > best.n THEN [stamp |-> k, n |-> counts[k]]
                              ELSE best,
             [stamp |-> NoStamp, n |-> 0], order)

\* The loop of boardIdentity, which meets the map's keys in an order of its own.
Best(counts, order) ==
    FoldLeft(LAMBDA best, k :
                 IF counts[k] > best.n \/ (counts[k] = best.n /\ Before(k, best.stamp))
                 THEN [stamp |-> k, n |-> counts[k]] ELSE best,
             [stamp |-> NoStamp, n |-> 0], order)

\* boardIdentity: what may be reported.
BoardIdentities(ids) ==
    LET counts == StampCounts(ids)
        bests == {Best(counts, order) : order \in SetToSeqs(DOMAIN counts)}
    IN  {IF b.n < 2 THEN NoStamp ELSE b.stamp : b \in bests}

-----------------------------------------------------------------------------
(* A text is a sequence of bytes; the first of a character is the number   *)
(* of its bytes, the others are 0.                                         *)

IsValidText(s) ==
    LET leads == {i \in DOMAIN s : s[i] # 0}
        Covers(i, k) == i <= k /\ k < i + s[i]
    IN  /\ \A k \in DOMAIN s : Cardinality({i \in leads : Covers(i, k)}) = 1
        /\ \A i \in leads : i + s[i] - 1 <= Len(s)

\* Mutant: a character may be cut.
ClipBytes(s) == IF Len(s) <= MaxInfoString THEN s ELSE SubSeq(s, 1, MaxInfoString)

\* clip: bytes are dropped from the end until the text is valid.
Clip(s) ==
    IF Len(s) <= MaxInfoString THEN s
    ELSE SubSeq(s, 1, Max({n \in 0 .. MaxInfoString : IsValidText(SubSeq(s, 1, n))}))
=============================================================================
