---------------------------- MODULE RegistryProofs ----------------------------
(***************************************************************************)
(* Theorems about Registry, for any number of slots, computers and         *)
(* handlers, and every bound on the clock and on failures.                 *)
(***************************************************************************)
EXTENDS Registry, FiniteSetTheorems, TLAPS

(* Row ids.  SQLite hands out the largest plus one: at most one more than slots were *)
(* prepared, so the table of Ids is never too small.                                 *)

\* A set of numbers up to n has a largest one.
LEMMA IntervalMax ==
    ASSUME NEW n \in Nat, NEW S, S \subseteq 1 .. n, S # {}
    PROVE  \E i \in S : \A j \in S : j <= i
<1> DEFINE T == {n - i : i \in S}
<1>1. T \subseteq Nat /\ T # {}
  <2>1. \A i \in S : i \in Int /\ n - i \in Nat
    OBVIOUS
  <2>2. QED
    BY <2>1
<1>2. PICK x \in T : \A y \in T : ~ (<<y, x>> \in OpToRel(<, Nat))
  BY <1>1, NatLessThanWellFounded, WFMin
<1>3. PICK i \in S : x = n - i
  BY <1>2
<1>4. \A j \in S : ~ (n - j < n - i)
  BY <1>1, <1>2, <1>3 DEF OpToRel
<1>5. QED
  <2>1. \A j \in S : j \in Int
    OBVIOUS
  <2>2. QED
    BY <1>4, <2>1

LEMMA SlotCount ==
    /\ Cardinality(Uuids) \in Nat
    /\ \A S \in SUBSET Uuids : IsFiniteSet(S) /\ Cardinality(S) \in Nat
                               /\ Cardinality(S) <= Cardinality(Uuids)
<1>1. IsFiniteSet(Uuids)
  BY RegistryAssumption
<1>2. QED
  BY <1>1, FS_CardinalityType, FS_Subset

IdsInUse == \A i \in RowIds : i <= Cardinality(used)

\* What is in the table of devices: a device, or no row.
LEMMA RowTyped ==
    ASSUME TypeOK
    PROVE  /\ \A i \in Ids : i \in RowIds <=> devs[i] \in DeviceType
           /\ \A i \in RowIds : i \in Ids /\ devs[i].uuid \in Uuids
           /\ \A d \in DeviceType : d # NoRow
<1>1. \A d \in DeviceType : d # NoRow
  BY RegistryAssumption DEF DeviceType, NoRow
<1>2. QED
  BY <1>1 DEF TypeOK, RowIds, DeviceType

\* A new row's id is free and in the table.
LEMMA NextIdFresh ==
    ASSUME TypeOK, IdsInUse, NEW u \in Uuids, u \notin used
    PROVE  /\ NextId \in Ids /\ NextId \notin RowIds
           /\ \A i \in RowIds \cup {NextId} : i <= Cardinality(used \cup {u})
<1> DEFINE n == Cardinality(used)
           N == Cardinality(Uuids)
<1>1. /\ n \in Nat /\ N \in Nat
      /\ Cardinality(used \cup {u}) = n + 1
      /\ n + 1 <= N
  <2>1. used \in SUBSET Uuids /\ used \cup {u} \in SUBSET Uuids
    BY DEF TypeOK
  <2>2. IsFiniteSet(used)
    BY <2>1, SlotCount
  <2>3. QED
    BY <2>1, <2>2, SlotCount, FS_AddElement
<1>2. RowIds \subseteq 1 .. n
  BY <1>1 DEF IdsInUse, RowIds, Ids
<1>3. CASE RowIds = {}
  BY <1>1, <1>3 DEF NextId, Ids
<1>4. CASE RowIds # {}
  <2> DEFINE top == CHOOSE i \in RowIds : \A j \in RowIds : j <= i
  <2>1. top \in RowIds /\ \A j \in RowIds : j <= top
    BY <1>1, <1>2, <1>4, IntervalMax, Zenon
  <2>2. NextId = 1 + top
    BY <1>4 DEF NextId
  <2>3. top \in 1 .. n
    BY <1>2, <2>1
  <2>4. 1 + top \notin RowIds
    <3>1. ~(1 + top <= top)
      BY <1>1, <2>3
    <3>2. QED
      BY <2>1, <3>1
  <2> HIDE DEF top
  <2>5. 1 + top \in Ids /\ 1 + top <= n + 1
    BY <1>1, <2>3 DEF Ids
  <2>6. \A i \in RowIds : i <= n + 1
    BY <1>1, <1>2
  <2>7. QED
    BY <1>1, <2>2, <2>4, <2>5, <2>6
<1>5. QED
  BY <1>3, <1>4

-----------------------------------------------------------------------------
(* Types.  They need the points a computer passes on its way to an identity.  *)

\* An agent enrolls with a secret, without credentials, and while tries are left;
\* it waits for its own request, and has an identity in memory until it is written.
EnrollInOrder ==
    \A c \in Computers :
        /\ comp[c].pc = "enroll" => comp[c].tries < Attempts
        /\ comp[c].pc \in {"enroll", "wait", "save"} =>
             comp[c].creds = NoUuid /\ comp[c].file \in Uuids
        /\ comp[c].got # NoUuid <=> comp[c].pc = "save"
        /\ enr[c] # "none" => comp[c].pc = "wait"

\* A request at work has been let in by a row.
HandlersLetIn ==
    \A h \in Handlers : hs[h].stage # "free" => hs[h].id \in Ids /\ hs[h].from \in Uuids

TypeInv == TypeOK /\ IdsInUse /\ EnrollInOrder /\ HandlersLetIn

\* Every step leaves the ids of the rows alone, but for a new one and a deleted one.
LEMMA RowIdsKept ==
    ASSUME TypeOK, devs' \in [Ids -> DeviceType \cup {NoRow}],
           NEW i \in Ids, \A j \in Ids \ {i} : devs'[j] = devs[j]
    PROVE  RowIds' \subseteq RowIds \cup {i}
BY DEF RowIds, Ids

LEMMA OperatorTyped ==
    ASSUME TypeInv,
           \/ \E u \in Uuids : PrepareEnrollment(u)
           \/ \E i \in Ids : \/ \E b \in BOOLEAN : SetRevoked(i, b) \/ SetLogTitles(i, b)
                             \/ ClearDeviceTitles(i) \/ DeleteDevice(i)
    PROVE  TypeInv'
<1> USE DEF TypeInv, TypeOK, EnrollInOrder, HandlersLetIn
<1>1. ASSUME NEW u \in Uuids, PrepareEnrollment(u)
      PROVE  TypeInv'
  <2> DEFINE new == [uuid |-> u, secret |-> TRUE, expires |-> now + EnrollTTL,
                     token |-> FALSE, revoked |-> FALSE, logTitles |-> TRUE,
                     host |-> NoUuid]
  <2>1. new \in DeviceType
    BY RegistryAssumption DEF DeviceType, Identity
  <2>2. devs' = [devs EXCEPT ![NextId] = new] /\ u \notin used /\ used' = used \cup {u}
    BY <1>1 DEF PrepareEnrollment
  <2>3. /\ NextId \in Ids
        /\ \A i \in RowIds \cup {NextId} : i <= Cardinality(used \cup {u})
    BY <2>2, NextIdFresh
  <2> HIDE DEF new
  <2>4. devs' \in [Ids -> DeviceType \cup {NoRow}]
    BY <2>1, <2>2, <2>3
  <2>5. RowIds' \subseteq RowIds \cup {NextId}
    BY <2>2, <2>3, <2>4, RowIdsKept
  <2>6. IdsInUse'
    BY <2>2, <2>3, <2>5 DEF IdsInUse
  <2>7. QED
    BY <1>1, <2>4, <2>6 DEF PrepareEnrollment
<1>2. ASSUME NEW i \in Ids, NEW b \in BOOLEAN, SetRevoked(i, b) \/ SetLogTitles(i, b)
      PROVE  TypeInv'
  <2>1. devs[i] \in DeviceType
    BY <1>2, RowTyped DEF SetRevoked, SetLogTitles
  <2>2. devs' \in [Ids -> DeviceType \cup {NoRow}]
    BY <1>2, <2>1 DEF SetRevoked, SetLogTitles, DeviceType
  <2>3. RowIds' \subseteq RowIds
    BY <1>2, <2>2, RowIdsKept DEF SetRevoked, SetLogTitles
  <2>4. IdsInUse'
    BY <1>2, <2>3 DEF IdsInUse, SetRevoked, SetLogTitles, history
  <2>5. QED
    BY <1>2, <2>2, <2>4 DEF SetRevoked, SetLogTitles, history
<1>3. ASSUME NEW i \in Ids, ClearDeviceTitles(i)
      PROVE  TypeInv'
  <2>1. rows' \subseteq [id : Ids, from : Uuids, titled : BOOLEAN]
    BY <1>3 DEF ClearDeviceTitles
  <2>2. devs[i].uuid \in Uuids
    BY <1>3, RowTyped DEF ClearDeviceTitles
  <2>3. QED
    BY <1>3, <2>1, <2>2 DEF ClearDeviceTitles, IdsInUse, RowIds
<1>4. ASSUME NEW i \in Ids, DeleteDevice(i)
      PROVE  TypeInv'
  <2>1. RowIds' \subseteq RowIds
    BY <1>4, RowIdsKept DEF DeleteDevice
  <2>2. IdsInUse'
    BY <1>4, <2>1 DEF IdsInUse, DeleteDevice, history
  <2>3. QED
    BY <1>4, <2>2 DEF DeleteDevice, history
<1>5. QED
  BY <1>1, <1>2, <1>3, <1>4

\* What a consumed secret makes of the table.
LEMMA ConsumeTyped ==
    ASSUME TypeOK, NEW u \in Uuids, Consume(u)
    PROVE  /\ devs' \in [Ids -> DeviceType \cup {NoRow}]
           /\ RowIds' = RowIds
<1>1. \A i \in Ids : OpenFor(i, u) => devs[i] \in DeviceType
  BY DEF OpenFor, TypeOK
<1>2. \A i \in Ids : OpenFor(i, u) => /\ devs'[i] \in DeviceType
                                    /\ devs'[i].uuid = devs[i].uuid
  BY <1>1 DEF Consume, DeviceType, Identity
<1>3. \A i \in Ids : ~OpenFor(i, u) => devs'[i] = devs[i]
  BY DEF Consume
<1>4. devs' \in [Ids -> DeviceType \cup {NoRow}]
  BY <1>2, <1>3 DEF Consume, TypeOK
<1>5. QED
  BY <1>1, <1>2, <1>3, <1>4, RowTyped DEF RowIds

LEMMA ServerEnrollTyped ==
    ASSUME TypeInv,
           (\E c \in Computers : HandleEnroll(c)) \/ \E u \in Uuids : HandleStray(u)
    PROVE  TypeInv'
<1> USE DEF TypeInv, TypeOK, EnrollInOrder, HandlersLetIn
<1>1. ASSUME NEW c \in Computers, HandleEnroll(c)
      PROVE  TypeInv'
  <2>1. comp[c].file \in Uuids /\ comp[c].pc = "wait"
    BY <1>1 DEF HandleEnroll
  <2>2. devs' \in [Ids -> DeviceType \cup {NoRow}] /\ RowIds' = RowIds
    BY <1>1, <2>1, ConsumeTyped DEF HandleEnroll, RowIds
  <2>3. failures' \in 0 .. MaxFailures
    BY <1>1, RegistryAssumption DEF HandleEnroll, Fail
  <2>4. /\ enr' \in [Computers -> {"none", "sent", "ok", "rejected", "error"}]
        /\ \A d \in Computers : enr'[d] # "none" => comp[d].pc = "wait"
    BY <1>1, <2>1 DEF HandleEnroll
  <2>5. QED
    BY <1>1, <2>2, <2>3, <2>4 DEF HandleEnroll, history, IdsInUse
<1>2. ASSUME NEW u \in Uuids, HandleStray(u)
      PROVE  TypeInv'
  <2>1. devs' \in [Ids -> DeviceType \cup {NoRow}] /\ RowIds' = RowIds
    BY <1>2, ConsumeTyped DEF HandleStray
  <2>2. QED
    BY <1>2, <2>1 DEF HandleStray, IdsInUse
<1>3. QED
  BY <1>1, <1>2

\* A step of one computer: what it may have become.
LEMMA ComputerTyped ==
    ASSUME TypeInv,
           NEW c \in Computers,
           \/ \E u \in Uuids : Install(c, u)
           \/ Start(c) \/ SendEnroll(c) \/ EnrollAnswered(c) \/ EnrollFails(c)
           \/ SaveCredentials(c) \/ SaveFails(c) \/ Crash(c)
           \/ \E done \in BOOLEAN : RemoveEnrollFile(c, done)
    PROVE  TypeInv'
<1> USE DEF TypeInv, TypeOK, EnrollInOrder, HandlersLetIn
<1>0. ASSUME UNCHANGED <<now, devs, rows, hs, used>>, failures' \in 0 .. MaxFailures,
             comp' \in [Computers -> ComputerType],
             enr' \in [Computers -> {"none", "sent", "ok", "rejected", "error"}],
             strays' \subseteq Uuids, lost' \subseteq Uuids,
             UNCHANGED <<inherited, cleared, leaks>>,
             EnrollInOrder'
      PROVE  TypeInv'
  BY <1>0 DEF IdsInUse, RowIds
<1>1. CASE \E u \in Uuids : Install(c, u)
  <2>1. PICK u \in Uuids : Install(c, u)
    BY <1>1
  <2>2. comp' \in [Computers -> ComputerType]
    BY <2>1 DEF Install, ComputerType, Identity
  <2>3. EnrollInOrder'
    BY <2>1, <2>2 DEF Install
  <2>4. QED
    BY <1>0, <2>1, <2>2, <2>3 DEF Install, history
<1>2. CASE Start(c)
  <2>1. comp' \in [Computers -> ComputerType]
    BY <1>2, RegistryAssumption DEF Start, ComputerType
  <2>2. EnrollInOrder'
    BY <1>2, <2>1, RegistryAssumption DEF Start, ComputerType, Identity
  <2>3. QED
    BY <1>0, <1>2, <2>1, <2>2 DEF Start, history
<1>3. CASE SendEnroll(c)
  <2>1. comp' \in [Computers -> ComputerType]
    BY <1>3, RegistryAssumption DEF SendEnroll, ComputerType
  <2>2. EnrollInOrder'
    BY <1>3, <2>1 DEF SendEnroll, ComputerType
  <2>3. QED
    BY <1>0, <1>3, <2>1, <2>2 DEF SendEnroll, history
<1>4. CASE EnrollAnswered(c)
  <2>1. comp' \in [Computers -> ComputerType]
    BY <1>4 DEF EnrollAnswered, ComputerType
  <2>2. EnrollInOrder'
    BY <1>4, <2>1, RegistryAssumption DEF EnrollAnswered, ComputerType
  <2>3. QED
    BY <1>0, <1>4, <2>1, <2>2 DEF EnrollAnswered, history
<1>5. CASE EnrollFails(c)
  <2>1. comp' \in [Computers -> ComputerType]
    BY <1>5 DEF EnrollFails, ComputerType
  <2>2. EnrollInOrder'
    BY <1>5, <2>1 DEF EnrollFails, Abandon, ComputerType
  <2>3. strays' \subseteq Uuids /\ lost' \subseteq Uuids
    BY <1>5 DEF EnrollFails, Abandon
  <2>4. QED
    BY <1>0, <1>5, <2>1, <2>2, <2>3 DEF EnrollFails, Abandon
<1>6. CASE SaveCredentials(c)
  <2>1. comp' \in [Computers -> ComputerType]
    BY <1>6 DEF SaveCredentials, ComputerType, Identity
  <2>2. EnrollInOrder'
    BY <1>6, <2>1 DEF SaveCredentials, ComputerType
  <2>3. QED
    BY <1>0, <1>6, <2>1, <2>2 DEF SaveCredentials, history
<1>7. CASE SaveFails(c)
  <2>1. comp' \in [Computers -> ComputerType]
    BY <1>7 DEF SaveFails, ComputerType, Identity
  <2>2. EnrollInOrder'
    BY <1>7, <2>1 DEF SaveFails, ComputerType
  <2>3. failures' \in 0 .. MaxFailures /\ lost' \subseteq Uuids
    BY <1>7, RegistryAssumption DEF SaveFails, Fail, ComputerType, Identity
  <2>4. QED
    BY <1>0, <1>7, <2>1, <2>2, <2>3 DEF SaveFails
<1>8. CASE Crash(c)
  <2>1. PICK creds \in {NoUuid, Torn, comp[c].creds} :
             comp' = [comp EXCEPT ![c].pc = "off", ![c].creds = creds, ![c].got = NoUuid]
    BY <1>8, Zenon DEF Crash
  <2>2. comp' \in [Computers -> ComputerType]
    <3>1. creds \in Identity \cup {Torn} /\ NoUuid \in Identity
      BY <2>1 DEF ComputerType, Identity
    <3>2. [comp[c] EXCEPT !.pc = "off", !.creds = creds, !.got = NoUuid] \in ComputerType
      BY <3>1 DEF ComputerType
    <3>3. QED
      BY <2>1, <3>2
  <2>3. CASE comp[c].pc = "wait"
    <3>1. Abandon(c)
      BY <1>8, <2>3 DEF Crash
    <3>2. strays' \subseteq Uuids /\ lost' \subseteq Uuids
      BY <2>3, <3>1 DEF Abandon
    <3>3. EnrollInOrder'
      BY <2>1, <2>2, <3>1 DEF Abandon, ComputerType
    <3>4. QED
      BY <1>0, <1>8, <2>2, <3>1, <3>2, <3>3 DEF Crash, Abandon
  <2>4. CASE comp[c].pc # "wait"
    <3>1. /\ lost' = IF comp[c].pc = "save" THEN lost \cup {comp[c].got} ELSE lost
          /\ UNCHANGED <<enr, strays>>
      BY <1>8, <2>4 DEF Crash
    <3>2. lost' \subseteq Uuids
      BY <3>1 DEF ComputerType, Identity
    <3>3. EnrollInOrder'
      BY <2>1, <2>2, <2>4, <3>1 DEF ComputerType
    <3>4. QED
      BY <1>0, <1>8, <2>2, <3>1, <3>2, <3>3 DEF Crash
  <2>5. QED
    BY <2>3, <2>4
<1>9. CASE \E done \in BOOLEAN : RemoveEnrollFile(c, done)
  <2>1. PICK done \in BOOLEAN : RemoveEnrollFile(c, done)
    BY <1>9
  <2>2. PICK file \in {NoUuid, comp[c].file} :
             comp' = [comp EXCEPT ![c].pc = "run", ![c].file = file]
    BY <2>1, Zenon DEF RemoveEnrollFile
  <2>3. comp' \in [Computers -> ComputerType]
    <3>1. file \in Identity
      BY <2>2 DEF ComputerType, Identity
    <3>2. [comp[c] EXCEPT !.pc = "run", !.file = file] \in ComputerType
      BY <3>1 DEF ComputerType
    <3>3. QED
      BY <2>2, <3>2
  <2>4. EnrollInOrder'
    <3>1. comp[c].pc = "remove" /\ UNCHANGED enr
      BY <2>1 DEF RemoveEnrollFile
    <3>2. QED
      BY <2>2, <2>3, <3>1 DEF ComputerType
  <2>5. QED
    BY <1>0, <2>1, <2>3, <2>4 DEF RemoveEnrollFile, history
<1>10. QED
  BY <1>1, <1>2, <1>3, <1>4, <1>5, <1>6, <1>7, <1>8, <1>9

LEMMA HandlerTyped ==
    ASSUME TypeInv,
           NEW h \in Handlers,
           \/ \E c \in Computers, i \in Ids : DeviceByToken(h, c, i)
           \/ TouchDevice(h) \/ DeviceLogTitles(h) \/ InsertSamples(h) \/ HandlerFails(h)
    PROVE  TypeInv'
<1> USE DEF TypeInv, TypeOK, EnrollInOrder, HandlersLetIn
<1>1. ASSUME NEW c \in Computers, NEW i \in Ids, DeviceByToken(h, c, i)
      PROVE  TypeInv'
  <2>1. comp[c].creds \in Uuids
    BY <1>1, RowTyped DEF DeviceByToken, KnownBy, RowIds
  <2>2. hs' \in [Handlers -> HandlerType] /\ HandlersLetIn'
    BY <1>1, <2>1 DEF DeviceByToken, HandlerType, Free, Identity
  <2>3. QED
    BY <1>1, <2>2 DEF DeviceByToken, history, IdsInUse, RowIds
<1>2. CASE TouchDevice(h)
  <2>1. hs[h].id \in Ids /\ hs[h].from \in Uuids
    BY <1>2 DEF TouchDevice
  <2>2. devs' \in [Ids -> DeviceType \cup {NoRow}]
    BY <1>2, <2>1, RowTyped DEF TouchDevice, DeviceType, Identity
  <2>3. RowIds' \subseteq RowIds
    BY <1>2, <2>2, RowTyped DEF TouchDevice, RowIds
  <2>4. hs' \in [Handlers -> HandlerType] /\ HandlersLetIn'
    BY <1>2 DEF TouchDevice, HandlerType
  <2>5. QED
    BY <1>2, <2>2, <2>3, <2>4 DEF TouchDevice, history, IdsInUse
<1>3. CASE DeviceLogTitles(h)
  <2>1. PICK b \in BOOLEAN :
             hs' = [hs EXCEPT ![h].stage = "decided", ![h].titled = b]
    BY <1>3, Zenon DEF DeviceLogTitles
  <2>2. hs' \in [Handlers -> HandlerType] /\ HandlersLetIn'
    BY <1>3, <2>1 DEF DeviceLogTitles, HandlerType
  <2>3. failures' \in 0 .. MaxFailures
    BY <1>3, RegistryAssumption DEF DeviceLogTitles, Fail
  <2>4. leaks' \subseteq Uuids
    BY <1>3, RowTyped DEF DeviceLogTitles
  <2>5. QED
    BY <1>3, <2>2, <2>3, <2>4 DEF DeviceLogTitles, IdsInUse, RowIds
<1>4. CASE InsertSamples(h)
  <2>1. rows' \subseteq [id : Ids, from : Uuids, titled : BOOLEAN]
    BY <1>4 DEF InsertSamples, HandlerType
  <2>2. hs' \in [Handlers -> HandlerType] /\ HandlersLetIn'
    BY <1>4 DEF InsertSamples, HandlerType, Free, Identity
  <2>3. QED
    BY <1>4, <2>1, <2>2 DEF InsertSamples, history, IdsInUse, RowIds
<1>5. CASE HandlerFails(h)
  <2>1. hs' \in [Handlers -> HandlerType] /\ HandlersLetIn'
    BY <1>5 DEF HandlerFails, HandlerType, Free, Identity
  <2>2. QED
    BY <1>5, <2>1 DEF HandlerFails, history, IdsInUse, RowIds
<1>6. QED
  BY <1>1, <1>2, <1>3, <1>4, <1>5

LEMMA TypeInit == Init => TypeInv
<1> SUFFICES ASSUME Init PROVE TypeInv
  OBVIOUS
<1>1. NewComputer \in ComputerType /\ Free \in HandlerType
  BY RegistryAssumption DEF NewComputer, ComputerType, Free, HandlerType, Identity
<1>2. RowIds = {}
  BY DEF Init, RowIds
<1>3. 0 \in 0 .. MaxFailures
  BY RegistryAssumption
<1>4. TypeOK
  BY <1>1, <1>3 DEF Init, TypeOK
<1>5. QED
  BY <1>2, <1>4 DEF TypeInv, IdsInUse, EnrollInOrder, HandlersLetIn, Init, NewComputer, Free

LEMMA TypeInvariant ==
    ASSUME TypeInv, [Next]_vars
    PROVE  TypeInv'
<1>1. CASE UNCHANGED vars
  BY <1>1 DEF vars, history, TypeInv, TypeOK, IdsInUse, RowIds, EnrollInOrder, HandlersLetIn
<1>2. CASE PassTime
  BY <1>2 DEF PassTime, history, TypeInv, TypeOK, IdsInUse, RowIds, EnrollInOrder,
              HandlersLetIn
<1>3. CASE Next
  BY <1>2, <1>3, OperatorTyped, ServerEnrollTyped, ComputerTyped, HandlerTyped DEF Next
<1>4. QED
  BY <1>1, <1>3

\* Types, for any number of slots: in particular the table of row ids is large enough
\* for what SQLite hands out (store.go schema).
THEOREM RegistryTyped == Spec => []TypeOK
<1>1. TypeInv => TypeOK
  BY DEF TypeInv
<1>2. QED
  BY <1>1, TypeInit, TypeInvariant, PTL DEF Spec

-----------------------------------------------------------------------------
(* Slots.  A slot has one row at most, its secret is void once its token is issued,  *)
(* and no name turns up anywhere before its slot is prepared.                        *)

OneRowPerSlot ==
    \A i, j \in RowIds : devs[i].uuid = devs[j].uuid => i = j

SecretOrToken == \A i \in RowIds : devs[i].secret <=> ~devs[i].token

NamesIssued ==
    /\ \A i \in RowIds : devs[i].uuid \in used
    /\ \A c \in Computers :
         {comp[c].file, comp[c].creds, comp[c].got} \subseteq used \cup {NoUuid, Torn}
    /\ strays \subseteq used /\ lost \subseteq used /\ cleared \subseteq used

SlotsInv == OneRowPerSlot /\ SecretOrToken /\ NamesIssued

\* The rows stay those of the same slots, with the same secrets and tokens.
SlotsKept == RowIds' = RowIds /\ \A i \in RowIds : devs'[i].uuid = devs[i].uuid
TokensKept ==
    \A i \in RowIds : devs'[i].token = devs[i].token /\ devs'[i].secret = devs[i].secret

LEMMA EditsKeepSlots ==
    ASSUME TypeInv,
           \/ UNCHANGED devs
           \/ \E i \in Ids, b \in BOOLEAN : SetRevoked(i, b) \/ SetLogTitles(i, b)
           \/ \E h \in Handlers : TouchDevice(h)
    PROVE  SlotsKept /\ TokensKept
<1> USE RowTyped DEF TypeInv, SlotsKept, TokensKept
<1>1. CASE UNCHANGED devs
  BY <1>1 DEF RowIds
<1>2. ASSUME NEW i \in Ids, NEW b \in BOOLEAN, SetRevoked(i, b) \/ SetLogTitles(i, b)
      PROVE  SlotsKept /\ TokensKept
  <2>1. devs[i] \in DeviceType
    BY <1>2 DEF SetRevoked, SetLogTitles
  <2>2. /\ devs'[i] \in DeviceType /\ devs'[i].uuid = devs[i].uuid
        /\ devs'[i].token = devs[i].token /\ devs'[i].secret = devs[i].secret
    BY <1>2, <2>1 DEF SetRevoked, SetLogTitles, TypeOK, DeviceType
  <2>3. \A j \in Ids \ {i} : devs'[j] = devs[j]
    BY <1>2 DEF SetRevoked, SetLogTitles, TypeOK
  <2>4. QED
    BY <2>1, <2>2, <2>3 DEF RowIds
<1>3. ASSUME NEW h \in Handlers, TouchDevice(h)
      PROVE  SlotsKept /\ TokensKept
  <2>1. \A i \in RowIds : /\ devs'[i] \in DeviceType /\ devs'[i].uuid = devs[i].uuid
                         /\ devs'[i].token = devs[i].token
                         /\ devs'[i].secret = devs[i].secret
    BY <1>3 DEF TouchDevice, DeviceType, HandlersLetIn, Identity
  <2>2. \A i \in Ids \ RowIds : devs'[i] = devs[i]
    BY <1>3 DEF TouchDevice
  <2>3. QED
    BY <2>1, <2>2 DEF RowIds
<1>4. QED
  BY <1>1, <1>2, <1>3

\* Consuming a secret issues the token of the one slot it opens.
LEMMA ConsumeKeepsSlots ==
    ASSUME TypeInv, NEW u \in Uuids, Consume(u)
    PROVE  /\ SlotsKept
           /\ \A i \in RowIds : IF OpenFor(i, u) THEN devs'[i].token /\ ~devs'[i].secret
                                               ELSE devs'[i] = devs[i]
<1>1. RowIds' = RowIds
  BY ConsumeTyped DEF TypeInv
<1>2. \A i \in RowIds : i \in Ids /\ devs[i] \in DeviceType
  BY RowTyped DEF TypeInv
<1>3. \A i \in RowIds : ~OpenFor(i, u) => devs'[i] = devs[i]
  BY <1>2 DEF Consume
<1>4. \A i \in RowIds : OpenFor(i, u) =>
         devs'[i].uuid = devs[i].uuid /\ devs'[i].token /\ ~devs'[i].secret
  BY <1>2 DEF Consume, DeviceType
<1>5. QED
  BY <1>1, <1>3, <1>4 DEF SlotsKept

\* What an operator's delete leaves, and what a new slot adds.
LEMMA DeleteEffect ==
    ASSUME TypeInv, NEW i \in Ids, DeleteDevice(i)
    PROVE  RowIds' = RowIds \ {i} /\ \A j \in RowIds' : devs'[j] = devs[j]
BY DEF TypeInv, TypeOK, DeleteDevice, RowIds

LEMMA PrepareEffect ==
    ASSUME TypeInv, NEW u \in Uuids, PrepareEnrollment(u)
    PROVE  /\ NextId \notin RowIds /\ RowIds' = RowIds \cup {NextId} /\ NextId \in Ids
           /\ \A j \in RowIds : devs'[j] = devs[j]
           /\ devs'[NextId] \in DeviceType /\ devs'[NextId].uuid = u
           /\ devs'[NextId].secret /\ ~devs'[NextId].token /\ devs'[NextId].logTitles
           /\ devs'[NextId].host = NoUuid
<1> DEFINE new == [uuid |-> u, secret |-> TRUE, expires |-> now + EnrollTTL,
                   token |-> FALSE, revoked |-> FALSE, logTitles |-> TRUE,
                   host |-> NoUuid]
<1>1. /\ new \in DeviceType /\ new.uuid = u /\ new.secret /\ ~new.token
      /\ new.logTitles /\ new.host = NoUuid
  BY RegistryAssumption DEF TypeInv, TypeOK, DeviceType, Identity
<1>2. NextId \in Ids /\ NextId \notin RowIds
  BY NextIdFresh DEF TypeInv, PrepareEnrollment
<1>3. devs' = [devs EXCEPT ![NextId] = new]
  BY DEF PrepareEnrollment
<1> HIDE DEF new
<1>4. devs'[NextId] = new /\ \A j \in Ids \ {NextId} : devs'[j] = devs[j]
  BY <1>2, <1>3 DEF TypeInv, TypeOK
<1>5. new # NoRow
  BY <1>1, RowTyped DEF TypeInv
<1>6. QED
  BY <1>1, <1>2, <1>4, <1>5 DEF RowIds

\* The table's part of it, for whatever a step makes of the table.
LEMMA SlotsStay ==
    ASSUME SlotsInv, SlotsKept, used \subseteq used',
           \A i \in RowIds : devs'[i].secret <=> ~devs'[i].token
    PROVE  OneRowPerSlot' /\ SecretOrToken' /\ \A i \in RowIds' : devs'[i].uuid \in used'
BY DEF SlotsInv, SlotsKept, OneRowPerSlot, SecretOrToken, NamesIssued

\* A computer passes on names it had, or is given one that was issued.
LEMMA ComputerNames ==
    ASSUME TypeInv, SlotsInv,
           NEW c \in Computers,
           \/ \E u \in Uuids : Install(c, u)
           \/ Start(c) \/ SendEnroll(c) \/ EnrollAnswered(c) \/ EnrollFails(c)
           \/ SaveCredentials(c) \/ SaveFails(c) \/ Crash(c)
           \/ \E done \in BOOLEAN : RemoveEnrollFile(c, done)
    PROVE  /\ \A d \in Computers :
                {comp'[d].file, comp'[d].creds, comp'[d].got} \subseteq used \cup {NoUuid, Torn}
           /\ strays' \subseteq used /\ lost' \subseteq used
           /\ UNCHANGED <<devs, used, cleared>>
<1> USE DEF TypeInv, TypeOK, SlotsInv, NamesIssued, ComputerType
<1>1. CASE \E u \in Uuids : Install(c, u)
  BY <1>1 DEF Install, history
<1>2. CASE Start(c)
  BY <1>2 DEF Start, history
<1>3. CASE SendEnroll(c)
  BY <1>3 DEF SendEnroll, history
<1>4. CASE EnrollAnswered(c)
  BY <1>4 DEF EnrollAnswered, history
<1>5. CASE EnrollFails(c)
  <2>1. comp[c].file \in Uuids /\ comp[c].file \in used
    BY <1>5, RegistryAssumption DEF EnrollFails, EnrollInOrder
  <2>2. QED
    BY <1>5, <2>1 DEF EnrollFails, Abandon
<1>6. CASE SaveCredentials(c)
  BY <1>6 DEF SaveCredentials, history
<1>7. CASE SaveFails(c)
  <2>1. comp[c].got \in Uuids /\ comp[c].got \in used
    BY <1>7, RegistryAssumption DEF SaveFails, EnrollInOrder, Identity
  <2>2. QED
    BY <1>7, <2>1 DEF SaveFails
<1>8. CASE Crash(c)
  <2>1. PICK creds \in {NoUuid, Torn, comp[c].creds} :
             comp' = [comp EXCEPT ![c].pc = "off", ![c].creds = creds, ![c].got = NoUuid]
    BY <1>8, Zenon DEF Crash
  <2>2. \A d \in Computers :
          {comp'[d].file, comp'[d].creds, comp'[d].got} \subseteq used \cup {NoUuid, Torn}
    BY <2>1
  <2>3. CASE comp[c].pc = "wait"
    <3>1. comp[c].file \in Uuids /\ comp[c].file \in used
      BY <2>3, RegistryAssumption DEF EnrollInOrder
    <3>2. QED
      BY <1>8, <2>2, <2>3, <3>1 DEF Crash, Abandon
  <2>4. CASE comp[c].pc # "wait"
    <3>1. comp[c].pc = "save" => comp[c].got \in used
      BY RegistryAssumption DEF EnrollInOrder, Identity
    <3>2. QED
      BY <1>8, <2>2, <2>4, <3>1 DEF Crash
  <2>5. QED
    BY <2>3, <2>4
<1>9. CASE \E done \in BOOLEAN : RemoveEnrollFile(c, done)
  <2>1. PICK done \in BOOLEAN : RemoveEnrollFile(c, done)
    BY <1>9
  <2>2. PICK file \in {NoUuid, comp[c].file} :
             comp' = [comp EXCEPT ![c].pc = "run", ![c].file = file]
    BY <2>1, Zenon DEF RemoveEnrollFile
  <2>3. /\ comp'[c].file = file /\ comp'[c].creds = comp[c].creds
        /\ comp'[c].got = comp[c].got
        /\ \A d \in Computers \ {c} : comp'[d] = comp[d]
    BY <2>2
  <2>4. \A d \in Computers :
          {comp'[d].file, comp'[d].creds, comp'[d].got} \subseteq used \cup {NoUuid, Torn}
    BY <2>2, <2>3
  <2>5. QED
    BY <2>1, <2>4 DEF RemoveEnrollFile, history
<1>10. QED
  BY <1>1, <1>2, <1>3, <1>4, <1>5, <1>6, <1>7, <1>8, <1>9

LEMMA SlotsInvariant ==
    ASSUME TypeInv, SlotsInv, [Next]_vars
    PROVE  SlotsInv'
<1>0. ASSUME SlotsKept, UNCHANGED comp, used \subseteq used',
             \A i \in RowIds : devs'[i].secret <=> ~devs'[i].token,
             strays' \subseteq used, lost' \subseteq used, cleared' \subseteq used
      PROVE  SlotsInv'
  BY <1>0, SlotsStay DEF SlotsInv, NamesIssued
<1>1. ASSUME TokensKept
      PROVE  \A i \in RowIds : devs'[i].secret <=> ~devs'[i].token
  BY <1>1 DEF TokensKept, SlotsInv, SecretOrToken
<1>2. CASE UNCHANGED vars \/ PassTime
  BY <1>0, <1>1, <1>2, EditsKeepSlots DEF vars, PassTime, history, SlotsInv, NamesIssued
<1>3. ASSUME NEW u \in Uuids, PrepareEnrollment(u)
      PROVE  SlotsInv'
  <2>1. u \notin used /\ used' = used \cup {u} /\ UNCHANGED <<comp, strays, lost, cleared>>
    BY <1>3 DEF PrepareEnrollment
  <2>2. OneRowPerSlot'
    BY <1>3, <2>1, PrepareEffect DEF SlotsInv, OneRowPerSlot, NamesIssued
  <2>3. SecretOrToken'
    BY <1>3, <2>1, PrepareEffect DEF SlotsInv, SecretOrToken
  <2>4. NamesIssued'
    BY <1>3, <2>1, PrepareEffect DEF SlotsInv, NamesIssued
  <2>5. QED
    BY <2>2, <2>3, <2>4 DEF SlotsInv
<1>4. ASSUME NEW i \in Ids, DeleteDevice(i)
      PROVE  SlotsInv'
  <2>1. UNCHANGED <<comp, strays, lost, cleared, used>>
    BY <1>4 DEF DeleteDevice, history
  <2>2. QED
    BY <1>4, <2>1, DeleteEffect DEF SlotsInv, OneRowPerSlot, SecretOrToken, NamesIssued
<1>5. ASSUME NEW i \in Ids, NEW b \in BOOLEAN, SetRevoked(i, b) \/ SetLogTitles(i, b)
      PROVE  SlotsInv'
  <2>1. /\ UNCHANGED <<comp, strays, lost, used>>
        /\ cleared' \subseteq cleared
    BY <1>5 DEF SetRevoked, SetLogTitles, history
  <2>2. QED
    BY <1>0, <1>1, <1>5, <2>1, EditsKeepSlots DEF SlotsInv, NamesIssued
<1>6. ASSUME NEW i \in Ids, ClearDeviceTitles(i)
      PROVE  SlotsInv'
  <2>1. /\ UNCHANGED <<devs, comp, strays, lost, used>>
        /\ cleared' \subseteq cleared \cup {devs[i].uuid} /\ i \in RowIds
    BY <1>6 DEF ClearDeviceTitles
  <2>2. QED
    BY <1>0, <1>1, <2>1, EditsKeepSlots DEF SlotsInv, NamesIssued
<1>7. ASSUME NEW u \in Uuids, Consume(u)
      PROVE  SlotsKept /\ \A i \in RowIds : devs'[i].secret <=> ~devs'[i].token
  BY <1>7, ConsumeKeepsSlots DEF SlotsInv, SecretOrToken
<1>8. ASSUME NEW u \in Uuids, HandleStray(u)
      PROVE  SlotsInv'
  <2>1. /\ UNCHANGED <<comp, used, cleared>>
        /\ strays' \subseteq strays /\ lost' \subseteq lost \cup {u} /\ u \in strays
    BY <1>8 DEF HandleStray
  <2>2. QED
    BY <1>0, <1>7, <1>8, <2>1 DEF HandleStray, SlotsInv, NamesIssued
<1>9. ASSUME NEW c \in Computers, HandleEnroll(c)
      PROVE  SlotsInv'
  <2>1. comp[c].file \in Uuids
    BY <1>9 DEF HandleEnroll, TypeInv, EnrollInOrder
  <2>2. UNCHANGED <<comp, used, cleared, strays, lost>>
    BY <1>9 DEF HandleEnroll, history
  <2>3. CASE UNCHANGED devs
    BY <1>0, <1>1, <2>2, <2>3, EditsKeepSlots DEF SlotsInv, NamesIssued
  <2>4. CASE Consume(comp[c].file)
    BY <1>0, <1>7, <2>1, <2>2, <2>4 DEF SlotsInv, NamesIssued
  <2>5. QED
    BY <1>9, <2>3, <2>4 DEF HandleEnroll
<1>10. ASSUME NEW c \in Computers,
              \/ \E u \in Uuids : Install(c, u)
              \/ Start(c) \/ SendEnroll(c) \/ EnrollAnswered(c) \/ EnrollFails(c)
              \/ SaveCredentials(c) \/ SaveFails(c) \/ Crash(c)
              \/ \E done \in BOOLEAN : RemoveEnrollFile(c, done)
       PROVE  SlotsInv'
  BY <1>1, <1>10, ComputerNames, EditsKeepSlots, SlotsStay DEF SlotsInv, NamesIssued
<1>11. ASSUME NEW h \in Handlers,
              \/ \E c \in Computers, i \in Ids : DeviceByToken(h, c, i)
              \/ TouchDevice(h) \/ DeviceLogTitles(h) \/ InsertSamples(h) \/ HandlerFails(h)
       PROVE  SlotsInv'
  <2>1. UNCHANGED devs \/ TouchDevice(h)
    BY <1>11 DEF DeviceByToken, DeviceLogTitles, InsertSamples, HandlerFails
  <2>2. UNCHANGED <<comp, strays, lost, used, cleared>>
    BY <1>11 DEF DeviceByToken, TouchDevice, DeviceLogTitles, InsertSamples, HandlerFails,
                 history
  <2>3. QED
    BY <1>0, <1>1, <2>1, <2>2, EditsKeepSlots DEF SlotsInv, NamesIssued
<1>12. QED
  BY <1>2, <1>3, <1>4, <1>5, <1>6, <1>8, <1>9, <1>10, <1>11 DEF Next

LEMMA SlotsInit == Init => SlotsInv
BY DEF Init, SlotsInv, OneRowPerSlot, SecretOrToken, NamesIssued, RowIds, NewComputer

\* The status the dashboard shows of a device is what its secret or token would meet
\* with (store.go scanDeviceStatus, ConsumeEnrollment, DeviceByToken).
THEOREM StatusHolds == Spec => []StatusIsTrue
<1>1. TypeInv /\ SlotsInv => StatusIsTrue
  <2> SUFFICES ASSUME TypeInv, SlotsInv, NEW i \in RowIds
               PROVE  /\ DeviceStatus(i) = "pending" <=> OpenFor(i, devs[i].uuid)
                      /\ DeviceStatus(i) = "active" <=> KnownBy(i, devs[i].uuid)
    BY DEF StatusIsTrue
  <2>1. devs[i] \in DeviceType /\ devs[i] # NoRow /\ now \in Nat
    BY RowTyped DEF TypeInv, TypeOK
  <2>2. devs[i].secret <=> ~devs[i].token
    BY DEF SlotsInv, SecretOrToken
  <2>3. devs[i].expires < now <=> ~(now <= devs[i].expires)
    BY <2>1 DEF DeviceType
  <2>4. /\ DeviceStatus(i) = "pending" <=>
              ~devs[i].revoked /\ ~devs[i].token /\ ~(devs[i].expires < now)
        /\ DeviceStatus(i) = "active" <=> ~devs[i].revoked /\ devs[i].token
    BY <2>1 DEF DeviceStatus
  <2>5. QED
    BY <2>1, <2>2, <2>3, <2>4, Zenon DEF OpenFor, KnownBy
<1>2. QED
  BY <1>1, TypeInit, TypeInvariant, SlotsInit, SlotsInvariant, PTL DEF Spec

-----------------------------------------------------------------------------
(* Identities.  An unspent secret has no holder and nothing lost: so whoever spends  *)
(* it is the only one.                                                               *)

HoldersInv ==
    \A u \in Uuids : /\ \A c, d \in Holders(u) : c = d
                     /\ u \in lost => Holders(u) = {}

CustodyInv ==
    \A i \in RowIds :
        IF devs[i].token THEN devs[i].uuid \in lost \/ Holders(devs[i].uuid) # {}
                         ELSE devs[i].uuid \notin lost /\ Holders(devs[i].uuid) = {}

IdentityInv == HoldersInv /\ CustodyInv

LEMMA HoldersDef ==
    \A u, c : c \in Holders(u) <=> /\ c \in Computers
                                  /\ \/ u = comp[c].creds \/ u = comp[c].got
                                     \/ comp[c].file = u /\ enr[c] = "ok"
BY DEF Holders

\* A name that was not issued has neither holder nor loss.
LEMMA UnissuedUnheld ==
    ASSUME TypeInv, SlotsInv, NEW u \in Uuids, u \notin used
    PROVE  Holders(u) = {} /\ u \notin lost
BY HoldersDef, RegistryAssumption DEF SlotsInv, NamesIssued

\* On its way to the file, an identity stays in the same hands.
LEMMA HandsKept ==
    ASSUME TypeInv, NEW c \in Computers,
           \/ \E u \in Uuids : Install(c, u)
           \/ Start(c) \/ SendEnroll(c) \/ EnrollAnswered(c) \/ SaveCredentials(c)
           \/ \E done \in BOOLEAN : RemoveEnrollFile(c, done)
    PROVE  /\ \A u \in Uuids : Holders(u)' = Holders(u)
           /\ UNCHANGED <<devs, lost>>
<1> DEFINE Holds(d, u) == \/ u = comp[d].creds \/ u = comp[d].got
                          \/ comp[d].file = u /\ enr[d] = "ok"
<1>0. ASSUME \A d \in Computers \ {c} : comp'[d] = comp[d] /\ enr'[d] = enr[d],
             \A u \in Uuids : Holds(c, u)' <=> Holds(c, u)
      PROVE  \A u \in Uuids : Holders(u)' = Holders(u)
  BY <1>0 DEF Holders
<1> USE RegistryAssumption DEF TypeInv, TypeOK, EnrollInOrder, ComputerType
<1>1. CASE \E u \in Uuids : Install(c, u)
  BY <1>0, <1>1 DEF Install, history
<1>2. CASE Start(c)
  BY <1>0, <1>2 DEF Start, history
<1>3. CASE SendEnroll(c)
  BY <1>0, <1>3 DEF SendEnroll, history
<1>4. CASE EnrollAnswered(c)
  BY <1>0, <1>4 DEF EnrollAnswered, history
<1>5. CASE SaveCredentials(c)
  BY <1>0, <1>5 DEF SaveCredentials, history
<1>6. CASE \E done \in BOOLEAN : RemoveEnrollFile(c, done)
  <2>1. PICK done \in BOOLEAN : RemoveEnrollFile(c, done)
    BY <1>6
  <2>2. PICK file \in {NoUuid, comp[c].file} :
             comp' = [comp EXCEPT ![c].pc = "run", ![c].file = file]
    BY <2>1, Zenon DEF RemoveEnrollFile
  <2>3. /\ comp'[c].creds = comp[c].creds /\ comp'[c].got = comp[c].got
        /\ \A d \in Computers \ {c} : comp'[d] = comp[d]
    BY <2>2
  <2>4. comp[c].pc = "remove" /\ UNCHANGED <<enr, devs, lost>>
    BY <2>1 DEF RemoveEnrollFile, history
  <2>5. enr[c] = "none"
    BY <2>4
  <2>6. QED
    BY <1>0, <2>3, <2>4, <2>5
<1>7. QED
  BY <1>1, <1>2, <1>3, <1>4, <1>5, <1>6

\* A computer that gives up, crashes or cannot write loses what it does not keep.
LEMMA HandsLost ==
    ASSUME TypeInv, NEW c \in Computers,
           EnrollFails(c) \/ SaveFails(c) \/ Crash(c)
    PROVE  /\ \A u \in Uuids : /\ Holders(u) \ {c} \subseteq Holders(u)'
                               /\ Holders(u)' \subseteq Holders(u)
                               /\ u \in lost' <=> u \in lost \/ Holders(u)' # Holders(u)
           /\ UNCHANGED devs
<1> DEFINE Holds(d, u) == \/ u = comp[d].creds \/ u = comp[d].got
                          \/ comp[d].file = u /\ enr[d] = "ok"
<1>0. ASSUME \A d \in Computers \ {c} : comp'[d] = comp[d] /\ enr'[d] = enr[d],
             \A u \in Uuids : /\ Holds(c, u)' => Holds(c, u)
                              /\ u \in lost' <=> \/ u \in lost
                                                 \/ Holds(c, u) /\ ~Holds(c, u)'
      PROVE  \A u \in Uuids : /\ Holders(u) \ {c} \subseteq Holders(u)'
                              /\ Holders(u)' \subseteq Holders(u)
                              /\ u \in lost' <=> u \in lost \/ Holders(u)' # Holders(u)
  BY <1>0 DEF Holders
<1> USE RegistryAssumption DEF TypeInv, TypeOK, EnrollInOrder, ComputerType
<1>1. CASE EnrollFails(c)
  BY <1>0, <1>1 DEF EnrollFails, Abandon
<1>2. CASE SaveFails(c)
  BY <1>0, <1>2 DEF SaveFails
<1>3. CASE Crash(c)
  <2>1. PICK creds \in IF comp[c].pc = "save" THEN {NoUuid, Torn} ELSE {comp[c].creds} :
             comp' = [comp EXCEPT ![c].pc = "off", ![c].creds = creds, ![c].got = NoUuid]
    BY <1>3 DEF Crash
  <2>2. /\ comp'[c].creds = creds /\ comp'[c].got = NoUuid /\ comp'[c].file = comp[c].file
        /\ \A d \in Computers \ {c} : comp'[d] = comp[d]
    BY <2>1
  <2>3. CASE comp[c].pc = "wait"
    BY <1>0, <1>3, <2>1, <2>2, <2>3 DEF Crash, Abandon
  <2>4. CASE comp[c].pc # "wait"
    <3>1. /\ UNCHANGED <<devs, enr>> /\ enr[c] = "none"
          /\ lost' = IF comp[c].pc = "save" THEN lost \cup {comp[c].got} ELSE lost
      BY <1>3, <2>4 DEF Crash
    <3>2. CASE comp[c].pc = "save"
      <4>1. comp[c].creds = NoUuid /\ creds \in {NoUuid, Torn}
        BY <2>1, <3>2
      <4>2. \A u \in Uuids : ~Holds(c, u)' /\ (Holds(c, u) <=> u = comp[c].got)
        BY <2>2, <3>1, <4>1
      <4>3. QED
        BY <1>0, <2>2, <3>1, <3>2, <4>2
    <3>3. CASE comp[c].pc # "save"
      BY <1>0, <2>1, <2>2, <3>1, <3>3
    <3>4. QED
      BY <3>2, <3>3
  <2>5. QED
    BY <2>3, <2>4
<1>4. QED
  BY <1>1, <1>2, <1>3

\* A secret is spent: the sender of the request is the first to hold the identity.
LEMMA EnrollHolds ==
    ASSUME TypeInv, SlotsInv, IdentityInv, NEW c \in Computers, HandleEnroll(c)
    PROVE  IdentityInv'
<1> DEFINE u == comp[c].file
<1>0. u \in Uuids /\ comp[c].pc = "wait" /\ enr[c] = "sent" /\ UNCHANGED <<comp, lost>>
  BY DEF HandleEnroll, TypeInv, EnrollInOrder, history
<1>1. CASE enr' = [enr EXCEPT ![c] = "ok"] /\ Consume(u) /\ \E i \in Ids : OpenFor(i, u)
  <2>1. PICK i \in RowIds : OpenFor(i, u)
    BY <1>1, RowTyped DEF TypeInv, OpenFor, RowIds
  <2>2. u \notin lost /\ Holders(u) = {}
    BY <2>1 DEF IdentityInv, CustodyInv, OpenFor
  <2>3. Holders(u)' = {c} /\ \A v \in Uuids \ {u} : Holders(v)' = Holders(v)
    <3>1. \A d \in Computers : enr'[d] = IF d = c THEN "ok" ELSE enr[d]
      BY <1>1 DEF TypeInv, TypeOK
    <3>2. QED
      BY <1>0, <2>2, <3>1 DEF Holders
  <2>4. HoldersInv'
    BY <1>0, <2>2, <2>3 DEF IdentityInv, HoldersInv
  <2>5. \A j \in RowIds : devs[j].uuid \in Uuids
    BY RowTyped DEF TypeInv
  <2>6. /\ SlotsKept
        /\ \A j \in RowIds : IF OpenFor(j, u) THEN devs'[j].token
                                            ELSE devs'[j] = devs[j]
    BY <1>0, <1>1, ConsumeKeepsSlots
  <2>7. \A j \in RowIds : OpenFor(j, u) <=> j = i
    BY <2>1 DEF OpenFor, SlotsInv, OneRowPerSlot
  <2>8. devs[i].uuid = u
    BY <2>1 DEF OpenFor
  <2>9. \A j \in RowIds \ {i} : devs[j].uuid # u
    BY <2>1, <2>8 DEF SlotsInv, OneRowPerSlot
  <2>10. CustodyInv'
    BY <1>0, <2>3, <2>5, <2>6, <2>7, <2>8, <2>9 DEF IdentityInv, CustodyInv, SlotsKept
  <2>11. QED
    BY <2>4, <2>10 DEF IdentityInv
<1>2. CASE UNCHANGED devs /\ enr' \in {[enr EXCEPT ![c] = "rejected"], [enr EXCEPT ![c] = "error"]}
  <2>1. \A v : Holders(v)' = Holders(v)
    <3>1. \A d \in Computers : enr'[d] = "ok" <=> enr[d] = "ok"
      BY <1>0, <1>2 DEF TypeInv, TypeOK
    <3>2. QED
      BY <1>0, <3>1 DEF Holders
  <2>2. QED
    BY <1>0, <1>2, <2>1 DEF IdentityInv, HoldersInv, CustodyInv, RowIds
<1>3. QED
  BY <1>1, <1>2 DEF HandleEnroll

LEMMA IdentityInvariant ==
    ASSUME TypeInv, SlotsInv, IdentityInv, [Next]_vars
    PROVE  IdentityInv'
<1>0. \A i \in RowIds : devs[i].uuid \in Uuids
  BY RowTyped DEF TypeInv
<1>1. ASSUME UNCHANGED <<comp, enr>>
      PROVE  \A u : Holders(u)' = Holders(u)
  BY <1>1 DEF Holders
<1>2. ASSUME SlotsKept, TokensKept, UNCHANGED <<comp, enr, lost>>
      PROVE  IdentityInv'
  BY <1>1, <1>2 DEF IdentityInv, HoldersInv, CustodyInv, SlotsKept, TokensKept
<1>3. CASE UNCHANGED vars \/ PassTime
  BY <1>2, <1>3, EditsKeepSlots DEF vars, PassTime, history
<1>4. ASSUME NEW u \in Uuids, PrepareEnrollment(u)
      PROVE  IdentityInv'
  <2>1. Holders(u) = {} /\ u \notin lost
    BY <1>4, UnissuedUnheld DEF PrepareEnrollment
  <2>2. UNCHANGED <<comp, enr, lost>>
    BY <1>4 DEF PrepareEnrollment
  <2>3. HoldersInv'
    BY <1>1, <2>2 DEF IdentityInv, HoldersInv
  <2>4. CustodyInv'
    BY <1>1, <1>4, <2>1, <2>2, PrepareEffect DEF IdentityInv, CustodyInv
  <2>5. QED
    BY <2>3, <2>4 DEF IdentityInv
<1>5. ASSUME NEW i \in Ids, DeleteDevice(i)
      PROVE  IdentityInv'
  <2>1. UNCHANGED <<comp, enr, lost>>
    BY <1>5 DEF DeleteDevice, history
  <2>2. QED
    BY <1>1, <1>5, <2>1, DeleteEffect DEF IdentityInv, HoldersInv, CustodyInv
<1>6. ASSUME NEW i \in Ids,
             (\E b \in BOOLEAN : SetRevoked(i, b) \/ SetLogTitles(i, b)) \/ ClearDeviceTitles(i)
      PROVE  IdentityInv'
  <2>1. UNCHANGED <<comp, enr, lost>>
    BY <1>6 DEF SetRevoked, SetLogTitles, ClearDeviceTitles, history
  <2>2. SlotsKept /\ TokensKept
    BY <1>6, EditsKeepSlots DEF ClearDeviceTitles
  <2>3. QED
    BY <1>2, <2>1, <2>2
<1>7. ASSUME NEW u \in Uuids, HandleStray(u)
      PROVE  IdentityInv'
  <2>1. UNCHANGED <<comp, enr>> /\ Consume(u)
    BY <1>7 DEF HandleStray
  <2>2. lost' = IF \E i \in RowIds : OpenFor(i, u) THEN lost \cup {u} ELSE lost
    BY <1>7, RowTyped DEF HandleStray, TypeInv, OpenFor, RowIds
  <2>3. \A i \in RowIds : OpenFor(i, u) => devs[i].uuid = u /\ Holders(u) = {}
    BY DEF OpenFor, IdentityInv, CustodyInv
  <2>4. HoldersInv'
    BY <1>1, <2>1, <2>2, <2>3 DEF IdentityInv, HoldersInv
  <2>5. /\ SlotsKept
        /\ \A i \in RowIds : IF OpenFor(i, u) THEN devs'[i].token ELSE devs'[i] = devs[i]
    BY <2>1, ConsumeKeepsSlots
  <2>6. \A i, j \in RowIds : OpenFor(i, u) /\ devs[j].uuid = u => j = i
    BY <2>3 DEF SlotsInv, OneRowPerSlot
  <2>7. CustodyInv'
    BY <1>1, <2>1, <2>2, <2>3, <2>5, <2>6 DEF IdentityInv, CustodyInv, SlotsKept
  <2>8. QED
    BY <2>4, <2>7 DEF IdentityInv
<1>8. ASSUME NEW c \in Computers,
             \/ \E u \in Uuids : Install(c, u)
             \/ Start(c) \/ SendEnroll(c) \/ EnrollAnswered(c) \/ SaveCredentials(c)
             \/ \E done \in BOOLEAN : RemoveEnrollFile(c, done)
      PROVE  IdentityInv'
  <2>1. /\ \A u \in Uuids : Holders(u)' = Holders(u)
        /\ UNCHANGED <<devs, lost>>
    BY <1>8, HandsKept
  <2>2. QED
    BY <1>0, <2>1 DEF IdentityInv, HoldersInv, CustodyInv, RowIds
<1>9. ASSUME NEW c \in Computers, EnrollFails(c) \/ SaveFails(c) \/ Crash(c)
      PROVE  IdentityInv'
  <2>1. /\ \A u \in Uuids : /\ Holders(u) \ {c} \subseteq Holders(u)'
                            /\ Holders(u)' \subseteq Holders(u)
                            /\ u \in lost' <=> u \in lost \/ Holders(u)' # Holders(u)
        /\ UNCHANGED devs
    BY <1>9, HandsLost
  <2>2. HoldersInv'
    <3>1. ASSUME NEW u \in Uuids
          PROVE  /\ \A d, e \in Holders(u)' : d = e
                 /\ u \in lost' => Holders(u)' = {}
      BY <2>1 DEF IdentityInv, HoldersInv
    <3>2. QED
      BY <3>1 DEF HoldersInv
  <2>3. CustodyInv'
    BY <1>0, <2>1 DEF IdentityInv, CustodyInv, RowIds
  <2>4. QED
    BY <2>2, <2>3 DEF IdentityInv
<1>10. ASSUME NEW h \in Handlers,
              \/ \E c \in Computers, i \in Ids : DeviceByToken(h, c, i)
              \/ TouchDevice(h) \/ DeviceLogTitles(h) \/ InsertSamples(h) \/ HandlerFails(h)
       PROVE  IdentityInv'
  <2>1. UNCHANGED devs \/ TouchDevice(h)
    BY <1>10 DEF DeviceByToken, DeviceLogTitles, InsertSamples, HandlerFails
  <2>2. UNCHANGED <<comp, enr, lost>>
    BY <1>10 DEF DeviceByToken, TouchDevice, DeviceLogTitles, InsertSamples, HandlerFails,
                 history
  <2>3. QED
    BY <1>2, <2>1, <2>2, EditsKeepSlots
<1>11. QED
  BY <1>3, <1>4, <1>5, <1>6, <1>7, <1>8, <1>9, <1>10, EnrollHolds DEF Next

LEMMA IdentityInit == Init => IdentityInv
<1> SUFFICES ASSUME Init PROVE IdentityInv
  OBVIOUS
<1>1. \A u \in Uuids : Holders(u) = {}
  BY RegistryAssumption DEF Init, Holders, NewComputer
<1>2. RowIds = {}
  BY DEF Init, RowIds
<1>3. QED
  BY <1>1, <1>2 DEF IdentityInv, HoldersInv, CustodyInv

\* However often a secret is copied to other computers, resent after a lost answer and
\* delivered late, at most one computer holds the identity it buys, and none where the
\* token was lost (store.go ConsumeEnrollment, main.go enrollWithRetry).
THEOREM IdentityUnique == Spec => []OneIdentity
<1>1. IdentityInv => OneIdentity
  <2> SUFFICES ASSUME IdentityInv, NEW u \in Uuids
               PROVE  Cardinality(Holders(u)) <= IF u \in lost THEN 0 ELSE 1
    BY DEF OneIdentity
  <2>1. CASE Holders(u) = {}
    BY <2>1, FS_EmptySet
  <2>2. CASE Holders(u) # {}
    <3>1. u \notin lost
      BY <2>2 DEF IdentityInv, HoldersInv
    <3>2. PICK c : Holders(u) = {c}
      BY <2>2 DEF IdentityInv, HoldersInv
    <3>3. Cardinality({c}) = 1
      BY FS_Singleton
    <3>4. QED
      BY <3>1, <3>2, <3>3
  <2>3. QED
    BY <2>1, <2>2
<1>2. QED
  BY <1>1, TypeInit, TypeInvariant, SlotsInit, SlotsInvariant, IdentityInit,
     IdentityInvariant, PTL DEF Spec

\* A token once issued is in the hands of a computer, in flight to it, or among those
\* an answer, a crash or a failed write has lost.
THEOREM TokensInCustody == Spec => []IdentityCustody
<1>1. IdentityInv => IdentityCustody
  BY DEF IdentityInv, CustodyInv, IdentityCustody
<1>2. QED
  BY <1>1, TypeInit, TypeInvariant, SlotsInit, SlotsInvariant, IdentityInit,
     IdentityInvariant, PTL DEF Spec

-----------------------------------------------------------------------------
(* Rows.  A request acts on a row id it has read before, and names the sender it read *)
(* it from: the two belong together unless the slot was deleted meanwhile and another *)
(* one took over its id.                                                              *)

RequestsBelong ==
    \A h \in Handlers : hs[h].stage # "free" /\ hs[h].id \in RowIds =>
        devs[hs[h].id].uuid \in {hs[h].from} \cup inherited

RowsInv == RequestsBelong /\ RowsBelongToSender

\* Without a new or deleted row, a touched host or a new sample nothing changes.
LEMMA RowsStay ==
    ASSUME RowsInv, SlotsKept, UNCHANGED <<hs, inherited>>,
           \A r \in rows' : \E q \in rows : q.id = r.id /\ q.from = r.from,
           \A i \in RowIds : devs'[i].host \in {devs[i].host, NoUuid, devs[i].uuid}
    PROVE  RowsInv'
BY DEF RowsInv, RequestsBelong, RowsBelongToSender, SlotsKept

\* Editing a row, and consuming a secret, leaves its host or sets its own.
LEMMA EditsKeepHosts ==
    ASSUME TypeInv,
           \/ UNCHANGED devs
           \/ \E i \in Ids, b \in BOOLEAN : SetRevoked(i, b) \/ SetLogTitles(i, b)
           \/ \E u \in Uuids : Consume(u)
    PROVE  \A i \in RowIds : devs'[i].host \in {devs[i].host, devs[i].uuid}
<1>1. \A i \in RowIds : i \in Ids /\ devs[i] \in DeviceType
  BY RowTyped DEF TypeInv
<1>2. ASSUME NEW i \in Ids, NEW b \in BOOLEAN, SetRevoked(i, b) \/ SetLogTitles(i, b)
      PROVE  \A j \in RowIds : devs'[j].host = devs[j].host
  BY <1>1, <1>2 DEF SetRevoked, SetLogTitles, TypeInv, TypeOK, DeviceType
<1>3. ASSUME NEW u \in Uuids, Consume(u)
      PROVE  \A i \in RowIds : devs'[i].host \in {devs[i].host, devs[i].uuid}
  BY <1>1, <1>3 DEF Consume, OpenFor, DeviceType
<1>4. QED
  BY <1>2, <1>3

\* A slot that takes over the id of a request at work is inherited from then on.
LEMMA PrepareKeepsRows ==
    ASSUME TypeInv, RowsInv, NEW u \in Uuids, PrepareEnrollment(u)
    PROVE  RowsInv'
<1>1. /\ UNCHANGED <<hs, rows>> /\ inherited \subseteq inherited'
      /\ \A h \in Handlers : hs[h].stage # "free" /\ hs[h].id = NextId => u \in inherited'
  BY DEF PrepareEnrollment
<1>2. RequestsBelong'
  BY <1>1, PrepareEffect DEF RowsInv, RequestsBelong
<1>3. RowsBelongToSender'
  BY <1>1, PrepareEffect DEF RowsInv, RowsBelongToSender
<1>4. QED
  BY <1>2, <1>3 DEF RowsInv

LEMMA DeleteKeepsRows ==
    ASSUME TypeInv, RowsInv, NEW i \in Ids, DeleteDevice(i)
    PROVE  RowsInv'
<1>1. /\ UNCHANGED <<hs, inherited>> /\ rows' = {r \in rows : r.id # i}
      /\ RowIds' = RowIds \ {i} /\ \A j \in RowIds' : devs'[j] = devs[j]
  BY DeleteEffect DEF DeleteDevice, history
<1>2. RequestsBelong'
  BY <1>1 DEF RowsInv, RequestsBelong
<1>3. RowsBelongToSender'
  BY <1>1 DEF RowsInv, RowsBelongToSender
<1>4. QED
  BY <1>2, <1>3 DEF RowsInv

\* A handler uses what it has read of its device when it was let in.
LEMMA HandlerKeepsRows ==
    ASSUME TypeInv, RowsInv, NEW h \in Handlers,
           \/ \E c \in Computers, i \in Ids : DeviceByToken(h, c, i)
           \/ TouchDevice(h) \/ DeviceLogTitles(h) \/ InsertSamples(h) \/ HandlerFails(h)
    PROVE  RowsInv'
<1> USE DEF RowsInv, RequestsBelong, RowsBelongToSender
<1>0. hs \in [Handlers -> HandlerType]
  BY DEF TypeInv, TypeOK
<1>1. ASSUME NEW c \in Computers, NEW i \in Ids, DeviceByToken(h, c, i)
      PROVE  RowsInv'
  <2>1. /\ devs[i].uuid = comp[c].creds /\ UNCHANGED <<devs, rows, inherited>>
        /\ hs' = [hs EXCEPT ![h] = [Free EXCEPT !.stage = "found", !.id = i,
                                                !.from = comp[c].creds]]
    BY <1>1 DEF DeviceByToken, KnownBy, history
  <2>2. hs'[h].id = i /\ hs'[h].from = comp[c].creds
    BY <1>0, <2>1 DEF Free
  <2>3. \A g \in Handlers \ {h} : hs'[g] = hs[g]
    BY <1>0, <2>1
  <2>4. QED
    BY <2>1, <2>2, <2>3 DEF RowIds
<1>2. CASE TouchDevice(h)
  <2>1. SlotsKept
    BY <1>2, EditsKeepSlots
  <2>2. /\ hs' = [hs EXCEPT ![h].stage = "touched"] /\ UNCHANGED <<rows, inherited>>
        /\ hs[h].stage = "found"
        /\ \A i \in Ids : i # hs[h].id => devs'[i] = devs[i]
        /\ hs[h].id \in RowIds => devs'[hs[h].id] = [devs[hs[h].id] EXCEPT !.host = hs[h].from]
    BY <1>2, RowTyped DEF TouchDevice, history, TypeInv
  <2>3. RequestsBelong'
    BY <1>0, <2>1, <2>2 DEF HandlerType, SlotsKept
  <2>4. \A i \in RowIds : devs'[i].host \in {devs[i].host} \cup
                              (IF i = hs[h].id THEN {hs[h].from} ELSE {})
    BY <2>2, RowTyped DEF TypeInv, DeviceType
  <2>5. RowsBelongToSender'
    BY <2>1, <2>2, <2>4 DEF SlotsKept
  <2>6. QED
    BY <2>3, <2>5
<1>3. CASE DeviceLogTitles(h)
  <2>1. PICK b \in BOOLEAN : hs' = [hs EXCEPT ![h].stage = "decided", ![h].titled = b]
    BY <1>3, Zenon DEF DeviceLogTitles
  <2>2. hs[h].stage = "touched" /\ UNCHANGED <<devs, rows, inherited>>
    BY <1>3 DEF DeviceLogTitles
  <2>3. /\ hs'[h].id = hs[h].id /\ hs'[h].from = hs[h].from
        /\ \A g \in Handlers \ {h} : hs'[g] = hs[g]
    BY <1>0, <2>1 DEF HandlerType
  <2>4. QED
    BY <2>2, <2>3 DEF RowIds
<1>4. CASE InsertSamples(h)
  <2>1. /\ hs[h].stage # "free" /\ hs[h].id \in RowIds /\ UNCHANGED <<devs, inherited>>
        /\ hs'[h].stage = "free" /\ \A g \in Handlers \ {h} : hs'[g] = hs[g]
        /\ rows' = rows \cup {[id |-> hs[h].id, from |-> hs[h].from, titled |-> hs[h].titled]}
    BY <1>0, <1>4 DEF InsertSamples, history, Free
  <2>2. QED
    BY <2>1 DEF RowIds
<1>5. CASE HandlerFails(h)
  <2>1. /\ UNCHANGED <<devs, rows, inherited>>
        /\ hs'[h].stage = "free" /\ \A g \in Handlers \ {h} : hs'[g] = hs[g]
    BY <1>0, <1>5 DEF HandlerFails, history, Free
  <2>2. QED
    BY <2>1 DEF RowIds
<1>6. QED
  BY <1>1, <1>2, <1>3, <1>4, <1>5

LEMMA RowsInvariant ==
    ASSUME TypeInv, RowsInv, [Next]_vars
    PROVE  RowsInv'
<1>1. ASSUME SlotsKept, UNCHANGED <<rows, hs, inherited>>,
             \A i \in RowIds : devs'[i].host \in {devs[i].host, devs[i].uuid}
      PROVE  RowsInv'
  BY <1>1, RowsStay
<1>2. ASSUME UNCHANGED <<devs, rows, hs, inherited>>
      PROVE  RowsInv'
  BY <1>1, <1>2, EditsKeepSlots, EditsKeepHosts
<1>3. CASE UNCHANGED vars \/ PassTime
  BY <1>2, <1>3 DEF vars, PassTime, history
<1>4. ASSUME NEW i \in Ids, NEW b \in BOOLEAN, SetRevoked(i, b) \/ SetLogTitles(i, b)
      PROVE  RowsInv'
  <2>1. UNCHANGED <<rows, hs, inherited>>
    BY <1>4 DEF SetRevoked, SetLogTitles, history
  <2>2. QED
    BY <1>1, <1>4, <2>1, EditsKeepSlots, EditsKeepHosts
<1>5. ASSUME NEW i \in Ids, ClearDeviceTitles(i)
      PROVE  RowsInv'
  <2>1. /\ UNCHANGED <<devs, hs, inherited>>
        /\ rows' = {[r EXCEPT !.titled = @ /\ r.id # i] : r \in rows}
    BY <1>5 DEF ClearDeviceTitles
  <2>2. \A r \in rows : \A t : [r EXCEPT !.titled = t].id = r.id
                            /\ [r EXCEPT !.titled = t].from = r.from
    BY DEF TypeInv, TypeOK
  <2>3. \A r \in rows' : \E q \in rows : q.id = r.id /\ q.from = r.from
    <3> SUFFICES ASSUME NEW r \in rows'
                 PROVE  \E q \in rows : q.id = r.id /\ q.from = r.from
      OBVIOUS
    <3>1. PICK q \in rows : r = [q EXCEPT !.titled = @ /\ q.id # i]
      BY <2>1, Zenon
    <3>2. r.id = q.id /\ r.from = q.from
      BY <2>2, <3>1
    <3>3. QED
      BY <3>2
  <2>4. QED
    BY <2>1, <2>3, RowsStay, EditsKeepSlots
<1>6. ASSUME NEW u \in Uuids, Consume(u), UNCHANGED <<rows, hs, inherited>>
      PROVE  RowsInv'
  BY <1>1, <1>6, ConsumeKeepsSlots, EditsKeepHosts
<1>7. ASSUME NEW u \in Uuids, HandleStray(u)
      PROVE  RowsInv'
  BY <1>6, <1>7 DEF HandleStray
<1>8. ASSUME NEW c \in Computers, HandleEnroll(c)
      PROVE  RowsInv'
  <2>1. comp[c].file \in Uuids /\ UNCHANGED <<rows, hs, inherited>>
    BY <1>8 DEF HandleEnroll, TypeInv, EnrollInOrder, history
  <2>2. UNCHANGED devs \/ Consume(comp[c].file)
    BY <1>8 DEF HandleEnroll
  <2>3. QED
    BY <1>2, <1>6, <2>1, <2>2
<1>9. ASSUME NEW c \in Computers,
             \/ \E u \in Uuids : Install(c, u)
             \/ Start(c) \/ SendEnroll(c) \/ EnrollAnswered(c) \/ EnrollFails(c)
             \/ SaveCredentials(c) \/ SaveFails(c) \/ Crash(c)
             \/ \E done \in BOOLEAN : RemoveEnrollFile(c, done)
      PROVE  RowsInv'
  BY <1>2, <1>9 DEF Install, Start, SendEnroll, EnrollAnswered, EnrollFails,
                    SaveCredentials, SaveFails, Crash, RemoveEnrollFile, history
<1>10. QED
  BY <1>3, <1>4, <1>5, <1>7, <1>8, <1>9, PrepareKeepsRows, DeleteKeepsRows,
     HandlerKeepsRows DEF Next

\* What is stored of a device was reported with its own token, whatever the operator
\* deletes and prepares while requests are at work, except where a new slot took over
\* the row id of a request in between (server.go handleIngest, store.go DeleteDevice).
THEOREM RowsNeverStray == Spec => []RowsBelongToSender
<1>1. Init => RowsInv
  BY DEF Init, RowsInv, RequestsBelong, RowsBelongToSender, RowIds, Free
<1>2. RowsInv => RowsBelongToSender
  BY DEF RowsInv
<1>3. QED
  BY <1>1, <1>2, TypeInit, TypeInvariant, RowsInvariant, PTL DEF Spec

-----------------------------------------------------------------------------
(* Titles.  A slot that was opted out and cleared, and has no request excused, keeps *)
(* its preference, has no title stored, and no request about to store one.           *)

OptedOut(i) == devs[i].uuid \in cleared \ leaks

TitlesInv ==
    \A i \in RowIds : OptedOut(i) =>
        /\ ~devs[i].logTitles
        /\ \A r \in rows : r.id = i => ~r.titled
        /\ \A h \in Handlers : hs[h].stage = "decided" /\ hs[h].id = i => ~hs[h].titled

\* Steps that touch neither titles nor the preference.
LEMMA TitlesStay ==
    ASSUME TitlesInv, SlotsKept, UNCHANGED <<rows, cleared, leaks>>,
           \A i \in RowIds : devs'[i].logTitles = devs[i].logTitles,
           \A h \in Handlers : hs'[h].stage = "decided" => hs'[h] = hs[h]
    PROVE  TitlesInv'
BY DEF TitlesInv, OptedOut, SlotsKept

LEMMA PreferenceKept ==
    ASSUME TypeInv,
           \/ UNCHANGED devs
           \/ \E i \in Ids, b \in BOOLEAN : SetRevoked(i, b)
           \/ \E h \in Handlers : TouchDevice(h)
           \/ \E u \in Uuids : Consume(u)
    PROVE  \A i \in RowIds : devs'[i].logTitles = devs[i].logTitles
<1>1. \A i \in RowIds : i \in Ids /\ devs[i] \in DeviceType
  BY RowTyped DEF TypeInv
<1>2. ASSUME NEW i \in Ids, NEW b \in BOOLEAN, SetRevoked(i, b)
      PROVE  \A j \in RowIds : devs'[j].logTitles = devs[j].logTitles
  BY <1>1, <1>2 DEF SetRevoked, TypeInv, TypeOK, DeviceType
<1>3. ASSUME NEW h \in Handlers, TouchDevice(h)
      PROVE  \A i \in RowIds : devs'[i].logTitles = devs[i].logTitles
  BY <1>1, <1>3 DEF TouchDevice, DeviceType
<1>4. ASSUME NEW u \in Uuids, Consume(u)
      PROVE  \A i \in RowIds : devs'[i].logTitles = devs[i].logTitles
  BY <1>1, <1>4 DEF Consume, DeviceType
<1>5. QED
  BY <1>2, <1>3, <1>4

\* The operator changes a preference, or clears what is stored.
LEMMA OperatorKeepsTitles ==
    ASSUME TypeInv, SlotsInv, TitlesInv,
           \/ \E u \in Uuids : PrepareEnrollment(u)
           \/ \E i \in Ids : \/ \E b \in BOOLEAN : SetRevoked(i, b) \/ SetLogTitles(i, b)
                             \/ ClearDeviceTitles(i) \/ DeleteDevice(i)
    PROVE  TitlesInv'
<1>1. ASSUME NEW u \in Uuids, PrepareEnrollment(u)
      PROVE  TitlesInv'
  <2>1. UNCHANGED <<rows, hs, cleared, leaks>> /\ u \notin cleared
    BY <1>1 DEF PrepareEnrollment, SlotsInv, NamesIssued
  <2>2. QED
    BY <1>1, <2>1, PrepareEffect DEF TitlesInv, OptedOut
<1>2. ASSUME NEW i \in Ids, NEW b \in BOOLEAN, SetRevoked(i, b)
      PROVE  TitlesInv'
  <2>1. UNCHANGED <<rows, hs, cleared, leaks>>
    BY <1>2 DEF SetRevoked, history
  <2>2. QED
    BY <1>2, <2>1, TitlesStay, EditsKeepSlots, PreferenceKept
<1>3. ASSUME NEW i \in Ids, NEW b \in BOOLEAN, SetLogTitles(i, b)
      PROVE  TitlesInv'
  <2>1. /\ UNCHANGED <<rows, hs, leaks>> /\ i \in RowIds
        /\ cleared' = IF b THEN cleared \ {devs[i].uuid} ELSE cleared
        /\ devs' = [devs EXCEPT ![i].logTitles = b]
    BY <1>3 DEF SetLogTitles
  <2>2. SlotsKept
    BY <1>3, EditsKeepSlots
  <2>3. devs'[i].logTitles = b /\ \A j \in RowIds \ {i} : devs'[j] = devs[j]
    BY <2>1, RowTyped DEF TypeInv, TypeOK, DeviceType
  <2>4. QED
    BY <2>1, <2>2, <2>3 DEF TitlesInv, OptedOut, SlotsKept
<1>4. ASSUME NEW i \in Ids, ClearDeviceTitles(i)
      PROVE  TitlesInv'
  <2>1. /\ UNCHANGED <<devs, hs>> /\ i \in RowIds
        /\ cleared' = IF devs[i].logTitles THEN cleared ELSE cleared \cup {devs[i].uuid}
        /\ leaks' = IF \E h \in Handlers : hs[h].stage = "decided" /\ hs[h].id = i
                                             /\ hs[h].titled
                    THEN leaks \cup {devs[i].uuid} ELSE leaks
        /\ rows' = {[r EXCEPT !.titled = @ /\ r.id # i] : r \in rows}
    BY <1>4 DEF ClearDeviceTitles
  <2>2. \A r \in rows' : \E q \in rows : /\ r.id = q.id
                                         /\ (r.titled => q.titled /\ q.id # i)
    <3> SUFFICES ASSUME NEW r \in rows'
                 PROVE  \E q \in rows : r.id = q.id /\ (r.titled => q.titled /\ q.id # i)
      OBVIOUS
    <3>1. PICK q \in rows : r = [q EXCEPT !.titled = @ /\ q.id # i]
      BY <2>1, Zenon
    <3>2. q \in [id : Ids, from : Uuids, titled : BOOLEAN]
      BY DEF TypeInv, TypeOK
    <3>3. r.id = q.id /\ (r.titled => q.titled /\ q.id # i)
      BY <3>1, <3>2
    <3>4. QED
      BY <3>3
  <2>3. \A j \in RowIds : devs[j].uuid = devs[i].uuid => j = i
    BY <2>1 DEF SlotsInv, OneRowPerSlot
  <2>4. \A j \in RowIds \ {i} : OptedOut(j)' => OptedOut(j)
    BY <2>1, <2>3 DEF OptedOut
  <2>5. OptedOut(i)' => /\ ~devs[i].logTitles
                        /\ \A h \in Handlers : hs[h].stage = "decided" /\ hs[h].id = i
                                               => ~hs[h].titled
    BY <2>1 DEF OptedOut, TitlesInv
  <2>6. ASSUME NEW j \in RowIds, OptedOut(j)'
        PROVE  /\ ~devs[j].logTitles
               /\ \A r \in rows' : r.id = j => ~r.titled
               /\ \A h \in Handlers : hs[h].stage = "decided" /\ hs[h].id = j => ~hs[h].titled
    <3>1. j # i => OptedOut(j)
      BY <2>4, <2>6 DEF OptedOut
    <3>2. ~devs[j].logTitles
      BY <2>5, <2>6, <3>1 DEF TitlesInv, OptedOut
    <3>3. \A g \in Handlers : hs[g].stage = "decided" /\ hs[g].id = j => ~hs[g].titled
      BY <2>5, <2>6, <3>1 DEF TitlesInv, OptedOut
    <3>4. ASSUME NEW r \in rows', r.id = j
          PROVE  ~r.titled
      <4>1. PICK q \in rows : q.id = j /\ (r.titled => q.titled /\ j # i)
        BY <2>2, <3>4
      <4>2. j # i => ~q.titled
        BY <3>1, <4>1 DEF TitlesInv
      <4>3. QED
        BY <4>1, <4>2
    <3>5. QED
      BY <3>2, <3>3, <3>4
  <2>7. RowIds' = RowIds /\ devs' = devs /\ hs' = hs
    BY <2>1 DEF RowIds
  <2>8. QED
    BY <2>6, <2>7 DEF TitlesInv
<1>5. ASSUME NEW i \in Ids, DeleteDevice(i)
      PROVE  TitlesInv'
  <2>1. UNCHANGED <<hs, cleared, leaks>> /\ rows' \subseteq rows
    BY <1>5 DEF DeleteDevice, history
  <2>2. QED
    BY <1>5, <2>1, DeleteEffect DEF TitlesInv, OptedOut
<1>6. QED
  BY <1>1, <1>2, <1>3, <1>4, <1>5

\* A handler stores a title only as it was told to before.
LEMMA HandlerKeepsTitles ==
    ASSUME TypeInv, TitlesInv, NEW h \in Handlers,
           \/ \E c \in Computers, i \in Ids : DeviceByToken(h, c, i)
           \/ TouchDevice(h) \/ DeviceLogTitles(h) \/ InsertSamples(h) \/ HandlerFails(h)
    PROVE  TitlesInv'
<1>0. hs \in [Handlers -> HandlerType]
  BY DEF TypeInv, TypeOK
<1>1. CASE \/ \E c \in Computers, i \in Ids : DeviceByToken(h, c, i)
           \/ TouchDevice(h) \/ HandlerFails(h)
  <2>1. /\ UNCHANGED <<rows, cleared, leaks>>
        /\ UNCHANGED devs \/ TouchDevice(h)
    BY <1>1 DEF DeviceByToken, TouchDevice, HandlerFails, history
  <2>2. hs'[h].stage # "decided" /\ \A g \in Handlers \ {h} : hs'[g] = hs[g]
    <3>1. ASSUME NEW c \in Computers, NEW i \in Ids, DeviceByToken(h, c, i)
          PROVE  hs'[h].stage # "decided" /\ \A g \in Handlers \ {h} : hs'[g] = hs[g]
      <4>1. hs' = [hs EXCEPT ![h] = [Free EXCEPT !.stage = "found", !.id = i,
                                                 !.from = comp[c].creds]]
        BY <3>1 DEF DeviceByToken
      <4>2. hs'[h].stage = "found" /\ \A g \in Handlers \ {h} : hs'[g] = hs[g]
        BY <1>0, <4>1 DEF Free
      <4>3. QED
        BY <4>2
    <3>2. CASE TouchDevice(h)
      BY <1>0, <3>2 DEF TouchDevice, HandlerType
    <3>3. CASE HandlerFails(h)
      BY <1>0, <3>3 DEF HandlerFails, Free
    <3>4. QED
      BY <1>1, <3>1, <3>2, <3>3
  <2>3. QED
    BY <2>1, <2>2, TitlesStay, EditsKeepSlots, PreferenceKept
<1>2. CASE DeviceLogTitles(h)
  <2>1. PICK b \in BOOLEAN :
           /\ hs' = [hs EXCEPT ![h].stage = "decided", ![h].titled = b]
           /\ \/ b = (hs[h].id \in RowIds => devs[hs[h].id].logTitles) /\ UNCHANGED leaks
              \/ leaks' = leaks \cup {devs[i].uuid : i \in RowIds \cap {hs[h].id}}
    BY <1>2, Zenon DEF DeviceLogTitles
  <2>2. UNCHANGED <<devs, rows, cleared>>
    BY <1>2 DEF DeviceLogTitles
  <2>3. /\ hs'[h].id = hs[h].id /\ hs'[h].titled = b
        /\ \A g \in Handlers \ {h} : hs'[g] = hs[g]
    BY <1>0, <2>1 DEF HandlerType
  <2>4. ASSUME NEW i \in RowIds, OptedOut(i)', hs[h].id = i
        PROVE  ~b
    <3>1. leaks' # leaks \cup {devs[j].uuid : j \in RowIds \cap {hs[h].id}}
      BY <2>2, <2>4 DEF OptedOut
    <3>2. OptedOut(i) /\ (b <=> devs[i].logTitles)
      BY <2>1, <2>2, <2>4, <3>1, Zenon DEF OptedOut
    <3>3. QED
      BY <3>2 DEF TitlesInv
  <2>5. \A i \in RowIds : OptedOut(i)' => OptedOut(i)
    BY <2>1, <2>2 DEF OptedOut
  <2>6. QED
    BY <2>2, <2>3, <2>4, <2>5 DEF TitlesInv, RowIds
<1>3. CASE InsertSamples(h)
  <2>1. /\ hs[h].stage = "decided" /\ UNCHANGED <<devs, cleared, leaks>>
        /\ hs'[h].stage = "free" /\ \A g \in Handlers \ {h} : hs'[g] = hs[g]
        /\ rows' = rows \cup {[id |-> hs[h].id, from |-> hs[h].from, titled |-> hs[h].titled]}
    BY <1>0, <1>3 DEF InsertSamples, history, Free
  <2>2. QED
    BY <2>1 DEF TitlesInv, OptedOut, RowIds
<1>4. QED
  BY <1>1, <1>2, <1>3

LEMMA TitlesInvariant ==
    ASSUME TypeInv, SlotsInv, TitlesInv, [Next]_vars
    PROVE  TitlesInv'
<1>1. ASSUME UNCHANGED <<rows, hs, cleared, leaks>>,
             UNCHANGED devs \/ \E u \in Uuids : Consume(u)
      PROVE  TitlesInv'
  BY <1>1, TitlesStay, EditsKeepSlots, ConsumeKeepsSlots, PreferenceKept
<1>2. CASE UNCHANGED vars \/ PassTime
  BY <1>1, <1>2 DEF vars, PassTime, history
<1>3. CASE \E u \in Uuids : HandleStray(u)
  BY <1>1, <1>3 DEF HandleStray
<1>4. ASSUME NEW c \in Computers, HandleEnroll(c)
      PROVE  TitlesInv'
  <2>1. comp[c].file \in Uuids /\ UNCHANGED <<rows, hs, cleared, leaks>>
    BY <1>4 DEF HandleEnroll, TypeInv, EnrollInOrder, history
  <2>2. UNCHANGED devs \/ Consume(comp[c].file)
    BY <1>4 DEF HandleEnroll
  <2>3. QED
    BY <1>1, <2>1, <2>2
<1>5. ASSUME NEW c \in Computers,
             \/ \E u \in Uuids : Install(c, u)
             \/ Start(c) \/ SendEnroll(c) \/ EnrollAnswered(c) \/ EnrollFails(c)
             \/ SaveCredentials(c) \/ SaveFails(c) \/ Crash(c)
             \/ \E done \in BOOLEAN : RemoveEnrollFile(c, done)
      PROVE  TitlesInv'
  BY <1>1, <1>5 DEF Install, Start, SendEnroll, EnrollAnswered, EnrollFails,
                    SaveCredentials, SaveFails, Crash, RemoveEnrollFile, history
<1>6. QED
  BY <1>2, <1>3, <1>4, <1>5, OperatorKeepsTitles, HandlerKeepsTitles DEF Next

\* After a device is opted out and its titles cleared none is stored for it, but for a
\* request that had its answer on titles before that, or got none (server.go
\* handleIngest, store.go ClearDeviceTitles).
THEOREM OptOutKept == Spec => []OptOutHolds
<1>1. Init => TitlesInv
  BY DEF Init, TitlesInv, RowIds
<1>2. TitlesInv => OptOutHolds
  BY DEF TitlesInv, OptedOut, OptOutHolds
<1>3. QED
  BY <1>1, <1>2, TypeInit, TypeInvariant, SlotsInit, SlotsInvariant, TitlesInvariant,
     PTL DEF Spec
=============================================================================
