-------------------------------- MODULE Alerts --------------------------------
(***************************************************************************)
(* The server's offline alerts (alerts.go) for one device: what it knows   *)
(* of the device, the periodic check and the notes it sends.               *)
(* A restart forgets what was announced, and so does the pruning of a      *)
(* device that is revoked or deleted.                                      *)
(*                                                                         *)
(* Sending fails silently: a note stands for a call of Send.  The check's  *)
(* snapshot of the devices and its update of the map under the lock are    *)
(* two steps.  Durations are in the units of AgentLoop.                    *)
(***************************************************************************)
EXTENDS Integers

CONSTANTS
    OfflineAfter,   \* -offline-after
    CheckEvery      \* StartAlertLoop's interval

ASSUME AlertAssumption == {OfflineAfter, CheckEvery} \subseteq Nat \ {0}

\* One minute (main.go) and a quarter of an hour by default: a device that has just
\* reported is looked at again before it could be called offline.
ASSUME ChecksAreFrequent == CheckEvery <= OfflineAfter

VARIABLES
    up,         \* the server runs
    status,     \* of the device: "active", "revoked" or "deleted"
    silence,    \* time since last_seen, up to SilenceCap
    alert,      \* alerted[device]: "untracked", "seeded" (false) or "alerted" (true)
    seeded,     \* alertSeeded
    checkDue,   \* until the check's ticker fires
    snap,       \* what a check in progress has read of the device
    \* History, never read by an action:
    heard,      \* the last two notes since the server last forgot the device
    told,       \* the device's present silence has been announced
    disturbed   \* since the device's last report the server was restarted, a check
                \* failed or the operator intervened

serverVars == <<up, status, silence, alert, seeded, checkDue, snap, heard, told, disturbed>>
checker == <<alert, seeded, checkDue, snap, heard>>

Never == -1     \* last_seen = 0: enrolled, and not heard of since
SilenceCap == OfflineAfter + CheckEvery + 1
NoSnap == "none"
Nothing == <<"nothing", "nothing">>

Unalerted ==
    /\ alert = "untracked" /\ seeded = FALSE /\ checkDue = 0 /\ snap = NoSnap
    /\ heard = Nothing

AlertsInit ==
    /\ up = TRUE /\ status = "active" /\ silence = Never /\ told = FALSE /\ disturbed = FALSE
    /\ Unalerted

\* An ingest that passes the token's check: TouchDevice.
Report ==
    /\ up /\ status = "active"
    /\ silence' = 0 /\ told' = FALSE /\ disturbed' = FALSE
    /\ UNCHANGED <<up, status, checker>>

-----------------------------------------------------------------------------
(* checkOffline.                                                           *)

\* Mutant: the silence is counted from the check before.
CheckReadSinceCheck ==
    /\ up /\ checkDue = 0 /\ snap = NoSnap
    /\ snap' = IF status = "active" /\ silence # Never
               THEN (IF silence - CheckEvery > OfflineAfter THEN "offline" ELSE "online")
               ELSE "skipped"
    /\ UNCHANGED <<up, status, silence, alert, seeded, checkDue, heard, told, disturbed>>

\* DeviceStatuses; `now' was read just before.
CheckRead ==
    /\ up /\ checkDue = 0 /\ snap = NoSnap
    /\ snap' = IF status = "active" /\ silence # Never
               THEN (IF silence > OfflineAfter THEN "offline" ELSE "online")
               ELSE "skipped"
    /\ UNCHANGED <<up, status, silence, alert, seeded, checkDue, heard, told, disturbed>>

\* The query fails: the next tick tries again.
CheckFails ==
    /\ up /\ checkDue = 0 /\ snap = NoSnap
    /\ checkDue' = CheckEvery /\ disturbed' = TRUE
    /\ UNCHANGED <<up, status, silence, alert, seeded, snap, heard, told>>

\* Mutant: a device already on record is announced again.
AnnouncesAgain == seeded /\ snap = "offline"

Announces == seeded /\ snap = "offline" /\ alert = "untracked"
Recovers == seeded /\ snap = "online" /\ alert # "untracked"

\* Mutant: an entry is kept after the recovery has been announced.
NextAlertKept ==
    CASE snap = "skipped" -> "untracked"
      [] ~seeded /\ snap = "offline" -> "seeded"
      [] Announces -> "alerted"
      [] OTHER -> alert

\* A device that is not active is pruned.
NextAlert ==
    CASE snap = "skipped" -> "untracked"
      [] ~seeded /\ snap = "offline" -> "seeded"
      [] Announces -> "alerted"
      [] Recovers -> "untracked"
      [] OTHER -> alert

Then(note) == <<heard[2], note>>

CheckApply ==
    /\ up /\ snap # NoSnap
    /\ alert' = NextAlert
    /\ heard' = CASE Announces -> Then("offline")
                  [] Recovers /\ alert = "alerted" -> Then("online")
                  [] snap = "skipped" /\ alert = "alerted" -> Nothing
                  [] OTHER -> heard
    /\ told' = (told \/ (Announces /\ silence > OfflineAfter))
    /\ seeded' = TRUE
    /\ snap' = NoSnap /\ checkDue' = CheckEvery
    /\ UNCHANGED <<up, status, silence, disturbed>>

-----------------------------------------------------------------------------
(* The server and the operator.                                            *)

ServerCrash ==
    /\ up
    /\ up' = FALSE
    /\ alert' = "untracked" /\ seeded' = FALSE /\ checkDue' = 0 /\ snap' = NoSnap
    /\ heard' = Nothing
    /\ UNCHANGED <<status, silence, told, disturbed>>

\* EnableAlerts, StartAlertLoop: the first check is due at once.
ServerStart ==
    /\ ~up
    /\ up' = TRUE /\ disturbed' = TRUE
    /\ UNCHANGED <<status, silence, told, checker>>

\* SetRevoked, either way; DeleteDevice.
Command ==
    /\ up
    /\ status # "deleted"
    /\ status' \in {"active", "revoked", "deleted"} \ {status}
    /\ told' = FALSE /\ disturbed' = TRUE
    /\ UNCHANGED <<up, silence, checker>>

-----------------------------------------------------------------------------
\* The ticker is not late and a check takes well under half a minute.
CheckWaits == up => checkDue > 0 /\ snap = NoSnap

CheckTime ==
    /\ CheckWaits
    /\ silence' = IF silence \in {Never, SilenceCap} THEN silence ELSE silence + 1
    /\ checkDue' = IF up THEN checkDue - 1 ELSE checkDue
    /\ UNCHANGED <<up, status, alert, seeded, snap, heard, told, disturbed>>
=============================================================================
