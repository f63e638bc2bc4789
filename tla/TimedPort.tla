----------------------------- MODULE TimedPort -----------------------------
(***************************************************************************)
(* What a port of the memory promises to the pipeline: an access that was  *)
(* accepted is answered once, no earlier than MinTime and no later than    *)
(* MaxTime cycles after it was accepted, unless the pipeline abandons it   *)
(* for another one.  Time is an interval, because fast-forwarding counts   *)
(* the cycles it skips as an interval.                                     *)
(***************************************************************************)
EXTENDS Naturals

CONSTANTS MinTime, MaxTime, MayAbandon

VARIABLES pending,   \* an access is in flight
          lo, hi,    \* the time since it was accepted
          answered   \* the last step answered an access

vars == <<pending, lo, hi, answered>>

Init == pending \in BOOLEAN /\ lo = 0 /\ hi = 0 /\ ~answered

Accept == pending' \in BOOLEAN /\ lo' = 0 /\ hi' = 0

Idle == ~pending /\ Accept /\ ~answered'

Wait ==
    /\ pending /\ pending' /\ ~answered'
    /\ lo' > lo /\ hi' - hi >= lo' - lo
    /\ hi' < MaxTime

Answer ==
    /\ pending /\ answered'
    /\ lo + 1 >= MinTime
    /\ hi + 1 <= MaxTime
    /\ Accept

Abandon == MayAbandon /\ pending /\ ~answered' /\ Accept

Next == Idle \/ Wait \/ Answer \/ Abandon

Spec == Init /\ [][Next]_vars
=============================================================================
