--------------------------- MODULE WorkAccountant ---------------------------
(***************************************************************************)
(* The token accounting of the sidecar (internal/dataplane/work.go) as its *)
(* request handlers use it (proxy.go): a handler reserves and activates    *)
(* once its ticket is dispatched, two calls that lock separately, and      *)
(* releases when it returns.  Each call clamps the counters at zero, which *)
(* would hide a release that does not match its reservation.               *)
(*                                                                         *)
(* When a handler gets here is the subject of AdmissionQueue, and Sidecar  *)
(* puts the two together.                                                  *)
(***************************************************************************)
EXTENDS Integers, FiniteSets, Functions

CONSTANTS
    Handlers,
    Shape          \* of each request: input length, claimed prefix, whether it
                   \* has a prefix key, max_tokens

ASSUME WorkAssumption ==
    Shape \in [Handlers -> [input : Nat, prefix : Nat, keyed : BOOLEAN, output : Nat]]

VARIABLES
    at,            \* of each handler: idle, reserved, active
    booked,        \* what ReserveTokens returned to it
    reservedUncachedPrefill, reservedDecode, activeUncachedPrefill, activeDecode

counters == <<reservedUncachedPrefill, reservedDecode, activeUncachedPrefill, activeDecode>>
workVars == <<at, booked, counters>>

Nothing == [prefill |-> 0, decode |-> 0]

WorkInit ==
    /\ at = [h \in Handlers |-> "idle"]
    /\ booked = [h \in Handlers |-> Nothing]
    /\ reservedUncachedPrefill = 0
    /\ reservedDecode = 0
    /\ activeUncachedPrefill = 0
    /\ activeDecode = 0

-----------------------------------------------------------------------------
\* A prefix key makes the claim certain; without one nothing is subtracted.
UncachedPrefill(s) ==
    IF s.keyed THEN s.input - (IF s.prefix > s.input THEN s.input ELSE s.prefix) ELSE s.input

\* max_tokens, or 128 when the request does not say.
expectedOutputTokens(s) == IF s.output > 0 THEN s.output ELSE 128

ReserveTokens(h) ==
    /\ at[h] = "idle"
    /\ LET b == [prefill |-> UncachedPrefill(Shape[h]), decode |-> expectedOutputTokens(Shape[h])]
       IN  /\ booked' = [booked EXCEPT ![h] = b]
           /\ reservedUncachedPrefill' = reservedUncachedPrefill + b.prefill
           /\ reservedDecode' = reservedDecode + b.decode
    /\ at' = [at EXCEPT ![h] = "reserved"]
    /\ UNCHANGED <<activeUncachedPrefill, activeDecode>>

Activate(h) ==
    /\ at[h] = "reserved"
    /\ activeUncachedPrefill' = activeUncachedPrefill + booked[h].prefill
    /\ activeDecode' = activeDecode + booked[h].decode
    /\ at' = [at EXCEPT ![h] = "active"]
    /\ UNCHANGED <<booked, reservedUncachedPrefill, reservedDecode>>

AtLeastZero(n) == IF n < 0 THEN 0 ELSE n

\* Mutant: the decode tokens are released from the request, not the booking.
ReleaseByRequest(h) ==
    /\ at[h] = "active"
    /\ reservedUncachedPrefill' = AtLeastZero(reservedUncachedPrefill - booked[h].prefill)
    /\ reservedDecode' = AtLeastZero(reservedDecode - Shape[h].output)
    /\ activeUncachedPrefill' = AtLeastZero(activeUncachedPrefill - booked[h].prefill)
    /\ activeDecode' = AtLeastZero(activeDecode - Shape[h].output)
    /\ booked' = [booked EXCEPT ![h] = Nothing]
    /\ at' = [at EXCEPT ![h] = "idle"]

\* Deferred: it runs however the relay ends.
Release(h) ==
    /\ at[h] = "active"
    /\ reservedUncachedPrefill' = AtLeastZero(reservedUncachedPrefill - booked[h].prefill)
    /\ reservedDecode' = AtLeastZero(reservedDecode - booked[h].decode)
    /\ activeUncachedPrefill' = AtLeastZero(activeUncachedPrefill - booked[h].prefill)
    /\ activeDecode' = AtLeastZero(activeDecode - booked[h].decode)
    /\ booked' = [booked EXCEPT ![h] = Nothing]
    /\ at' = [at EXCEPT ![h] = "idle"]

WorkNext == \E h \in Handlers : ReserveTokens(h) \/ Activate(h) \/ Release(h)

WorkSpec == WorkInit /\ [][WorkNext]_workVars

-----------------------------------------------------------------------------
Holding == {h \in Handlers : at[h] \in {"reserved", "active"}}
Running == {h \in Handlers : at[h] = "active"}

Prefill == [h \in Handlers |-> booked[h].prefill]
Decode  == [h \in Handlers |-> booked[h].decode]

(* The counters are what the handlers hold, to the token, at every         *)
(* interleaving: no release is ever cut off at zero, and an idle sidecar   *)
(* reports no work.                                                        *)
WorkExact ==
    /\ reservedUncachedPrefill = SumFunctionOnSet(Prefill, Holding)
    /\ reservedDecode = SumFunctionOnSet(Decode, Holding)
    /\ activeUncachedPrefill = SumFunctionOnSet(Prefill, Running)
    /\ activeDecode = SumFunctionOnSet(Decode, Running)
=============================================================================
