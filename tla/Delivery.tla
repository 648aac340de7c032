------------------------------- MODULE Delivery -------------------------------
(***************************************************************************)
(* What an upload path owes its user, with no queue, upload, answer, retry *)
(* or crash in sight: only readings that were taken are stored, what is    *)
(* stored stays stored, and nothing is stored ahead of an older reading,   *)
(* except one that has been given up.                                      *)
(*                                                                         *)
(* UploadPath implements it twice over: with its samples and, as long as   *)
(* their buffer has not overflowed during an upload, with its transitions. *)
(***************************************************************************)
CONSTANT Older(_, _)    \* Older(s, t): s was taken before t

VARIABLES
    taken,      \* every reading that was taken
    stored,     \* those the server has as a row
    dropped     \* those given up, which may arrive all the same

deliveryVars == <<taken, stored, dropped>>

Init == taken = {} /\ stored = {} /\ dropped = {}

\* A reading is younger than all others; to make room others may be given up.
Take ==
    \E t \in taken', lost \in SUBSET taken' :
        /\ \A s \in taken : Older(s, t)
        /\ taken' = taken \cup {t}
        /\ dropped' = dropped \cup lost
        /\ UNCHANGED stored

GiveUp ==
    \E lost \in SUBSET taken :
        /\ dropped' = dropped \cup lost
        /\ UNCHANGED <<taken, stored>>

\* A batch arrives.  Some of it may be refused, and what it overtakes is not
\* coming any more.
Store ==
    \E batch, refused \in SUBSET taken :
        /\ stored' = stored \cup batch
        /\ dropped' = dropped \cup refused
        /\ \A t \in batch, s \in taken : Older(s, t) => s \in stored' \cup dropped'
        /\ UNCHANGED taken

Next == Take \/ GiveUp \/ Store

Spec == Init /\ [][Next]_deliveryVars
=============================================================================
