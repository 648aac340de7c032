---------------------------- MODULE BoundedBuffer ----------------------------
(***************************************************************************)
(* The two operations of the agent's bounded FIFO buffers: the sample      *)
(* queue (internal/agent/queue.go) and the pending monitor events          *)
(* (internal/agent/core.go).  Both append at the tail and drop the oldest  *)
(* entry when full, and both acknowledge by COUNT, not by identity.        *)
(***************************************************************************)
EXTENDS Integers, Sequences

\* Mutant: the buffer grows one entry past its capacity.
PushOffByOne(s, x, max) ==
    LET t == Append(s, x)
    IN  IF Len(t) > max + 1 THEN SubSeq(t, Len(t) - max, Len(t)) ELSE t

\* Append x; over capacity, keep only the newest max entries.
PushDropOldest(s, x, max) ==
    LET t == Append(s, x)
    IN  IF Len(t) > max THEN SubSeq(t, Len(t) - max + 1, Len(t)) ELSE t

\* What PushDropOldest(s, x, max) throws away: nothing, or the oldest entry.
DroppedByPush(s, x, max) ==
    LET t == Append(s, x)
    IN  {t[i] : i \in 1 .. Len(t) - max}

\* Remove the first n entries: n at or above the length empties the buffer.
DropFirst(s, n) ==
    IF n >= Len(s) THEN <<>> ELSE SubSeq(s, n + 1, Len(s))

\* The entries of a buffer, as a set.
Entries(s) == {s[i] : i \in 1 .. Len(s)}
=============================================================================
