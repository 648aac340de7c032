------------------------------- MODULE LogFile -------------------------------
(***************************************************************************)
(* The agent's log (logfile.go): agent.log and the generation before it,   *)
(* agent.log.1, under the restarts of the one process that writes them     *)
(* (the mutex is taken before the log is opened, main.go 80-105).          *)
(*                                                                         *)
(* Sizes are in lines, and a line is known by its number among those that  *)
(* reached a file.  Any call on a file but the write may be refused, as    *)
(* when another program holds the file.                                    *)
(***************************************************************************)
EXTENDS Integers, Sequences

CONSTANTS
    MaxLog,         \* maxLogBytes
    CheckEvery,     \* checkEvery
    MaxLines,       \* bound on lines
    Absent          \* no such file

ASSUME LogAssumption ==
    /\ MaxLog \in Nat /\ CheckEvery \in Nat \ {0} /\ MaxLines \in Nat
    /\ Absent \notin Seq(Nat)

VARIABLES
    files,          \* the lines of agent.log ("log") and of agent.log.1 ("old")
    sink,           \* rotatingWriter.f: a file, "closed"; or no writer, "none"
    unchecked,      \* rotatingWriter.n
    up,             \* a process runs
    \* History, never read by an action:
    logged,         \* lines that reached a file
    failures         \* the calls that ever failed

logVars == <<files, sink, unchecked, up, logged, failures>>

LogInit ==
    /\ files = [log |-> <<>>, old |-> Absent]
    /\ sink = "none" /\ unchecked = 0 /\ up = FALSE
    /\ logged = 0 /\ failures = {}

\* Mutant: an oversized log is emptied, as it once was.
RotateEmptying(fs) ==
    IF Len(fs.log) <= MaxLog THEN {[files |-> fs, failed |-> {}]}
    ELSE {[files |-> [fs EXCEPT !.log = <<>>], failed |-> {}]}

\* rotateIfLarge: what it may leave of the files fs.
RotateIfLarge(fs) ==
    LET Left(log, old, failed) == [files |-> [log |-> log, old |-> old], failed |-> failed]
    IN  IF Len(fs.log) <= MaxLog THEN {Left(fs.log, fs.old, {})}
        ELSE {Left(<<>>, fs.log, {}), Left(fs.log, fs.old, {"stat"})}
                \cup {Left(<<>>, old, {"rename"}) : old \in {fs.old, Absent}}
                \cup {Left(fs.log, old, {"rename", "truncate"}) : old \in {fs.old, Absent}}

\* SetupFileLogging: without a file the process runs unlogged.
LogStart ==
    /\ ~up
    /\ up' = TRUE
    /\ \E r \in RotateIfLarge(files), opens \in BOOLEAN :
           /\ files' = r.files
           /\ sink' = IF opens THEN "log" ELSE "none"
           /\ failures' = failures \cup r.failed \cup (IF opens THEN {} ELSE {"open"})
    /\ unchecked' = 0
    /\ UNCHANGED logged

\* The second half of Write, on the files fs.
Reopen(fs) ==
    \E r \in RotateIfLarge(fs) :
        /\ files' = r.files
        /\ \/ sink' = "log" /\ failures' = failures \cup r.failed
           \/ /\ failures' = failures \cup r.failed \cup {"open"}
              /\ \/ sink' = "old" /\ r.files.old # Absent
                 \/ sink' = "closed"

\* Mutant: the size is looked at when the process starts, never again.
WriteUnchecked ==
    /\ sink \in DOMAIN files /\ logged < MaxLines
    /\ logged' = logged + 1
    /\ files' = [files EXCEPT ![sink] = Append(@, logged')]
    /\ UNCHANGED <<sink, unchecked, up, failures>>

\* Write, while the handle is good: a write to a closed one changes nothing, now or later.
Write ==
    /\ sink \in DOMAIN files /\ logged < MaxLines
    /\ logged' = logged + 1
    /\ LET grown == [files EXCEPT ![sink] = Append(@, logged')]
           due == unchecked + 1 >= CheckEvery
       IN  /\ unchecked' = IF due THEN 0 ELSE unchecked + 1
           /\ \/ /\ ~due \/ Len(grown[sink]) <= MaxLog
                 /\ files' = grown /\ UNCHANGED <<sink, failures>>
              \/ /\ due
                 /\ files' = grown /\ failures' = failures \cup {"stat"} /\ UNCHANGED sink
              \/ /\ due /\ Len(grown[sink]) > MaxLog
                 /\ Reopen(grown)
    /\ UNCHANGED up

\* The process ends, in whatever way.
LogEnd ==
    /\ up
    /\ up' = FALSE /\ sink' = "none" /\ unchecked' = 0
    /\ UNCHANGED <<files, logged, failures>>

LogNext == LogStart \/ Write \/ LogEnd

LogSpec == LogInit /\ [][LogNext]_logVars

-----------------------------------------------------------------------------
Lines(f) == IF files[f] = Absent THEN <<>> ELSE files[f]

\* Through rotations, restarts and refused calls the last lines stay readable, in order
\* and without a gap, a whole generation of them at least.  Only a refused rename may
\* cost more, and a log that can neither be looked at nor opened its order.
RecentIsKept ==
    "rename" \notin failures /\ ~({"stat", "open"} \subseteq failures) =>
        LET kept == Lines("old") \o Lines("log")
        IN  /\ kept = [i \in 1 .. Len(kept) |-> logged - Len(kept) + i]
            /\ Len(kept) = logged \/ Len(kept) > MaxLog

\* The log is bounded on a machine that is never restarted as on one that often is,
\* even where its rotation is blocked, as long as it can be emptied.
LogIsBounded ==
    failures \cap {"stat", "open", "truncate"} = {} =>
        \A f \in DOMAIN files : Len(Lines(f)) <= MaxLog + CheckEvery

\* The log holds what it must and no more than it may.
LogIsKept == RecentIsKept /\ LogIsBounded
=============================================================================
