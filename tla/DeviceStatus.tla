---------------------------- MODULE DeviceStatus ----------------------------
(***************************************************************************)
(* What the supervisor promises about one device to those who only read    *)
(* its published status: the status is one poll behind at most, OFFLINE is *)
(* left by way of RECOVERING only, a device drains only when told to, and  *)
(* a device once classified is never UNKNOWN again.  How a poll decides is *)
(* left open.                                                              *)
(***************************************************************************)

CONSTANT DeviceStates

VARIABLES
    actual,     \* the state of the device's lifecycle machine
    decided,    \* the poll in progress has decided and not yet published
    shown,      \* the published state; "" before the first poll
    drain       \* the machine's drain flag

statusVars == <<actual, decided, shown, drain>>

StatusInit ==
    /\ actual = "UNKNOWN"
    /\ decided = FALSE
    /\ shown = ""
    /\ drain = FALSE

Decide(s) ==
    /\ ~decided
    /\ actual = "OFFLINE" => s \in {"OFFLINE", "RECOVERING"}
    /\ s = "RECOVERING" => actual \in {"OFFLINE", "RECOVERING"}
    /\ s = "DRAINING" => drain \/ actual = "DRAINING"
    /\ s = "UNKNOWN" => actual = "UNKNOWN"
    /\ actual' = s
    /\ decided' = TRUE
    /\ UNCHANGED <<shown, drain>>

Show ==
    /\ decided
    /\ shown' = actual
    /\ decided' = FALSE
    /\ UNCHANGED <<actual, drain>>

SetDrain(d) ==
    /\ drain' = d
    /\ UNCHANGED <<actual, decided, shown>>

StatusNext ==
    \/ \E s \in DeviceStates : Decide(s)
    \/ Show
    \/ \E d \in BOOLEAN : SetDrain(d)

StatusSpec == StatusInit /\ [][StatusNext]_statusVars
=============================================================================
