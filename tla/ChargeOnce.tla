------------------------------ MODULE ChargeOnce ------------------------------
(***************************************************************************)
(* What the billing core promises its users, with no Redis key, buffer,    *)
(* process or message in sight.  Every request walks                       *)
(*                                                                         *)
(*        fresh --> held --> paid | lapsed                                 *)
(*                                                                         *)
(* and never back: its reservation is taken once, from money that is       *)
(* there, and captured at most once, for exactly the amount it was billed, *)
(* which is written down before and never changes.  A lapsed reservation   *)
(* is money that was taken out of the balance and is never given back (the *)
(* marker's TTL ran out).                                                  *)
(***************************************************************************)
EXTENDS Integers

CONSTANTS Users, Requests, UserOf

VARIABLES
    available,    \* what a user can spend; negative after an overrun
    hold,         \* reserved for a request
    bill,         \* what a request is to pay, -1 when it is not billed
    phase

vars == <<available, hold, bill, phase>>

Init ==
    /\ available = [u \in Users |-> 0]
    /\ hold = [r \in Requests |-> 0]
    /\ bill = [r \in Requests |-> -1]
    /\ phase = [r \in Requests |-> "fresh"]

Credit(u) ==
    /\ available'[u] > available[u]
    /\ available' = [available EXCEPT ![u] = available'[u]]
    /\ UNCHANGED <<hold, bill, phase>>

Reserve(r) ==
    LET u == UserOf[r] IN
    /\ phase[r] = "fresh"
    /\ hold'[r] \in 1 .. available[u]
    /\ hold' = [hold EXCEPT ![r] = hold'[r]]
    /\ available' = [available EXCEPT ![u] = @ - hold'[r]]
    /\ phase' = [phase EXCEPT ![r] = "held"]
    /\ UNCHANGED bill

\* One statement may bill several requests; a bill is never rewritten.
Bill ==
    /\ bill' \in [Requests -> Int]
    /\ \A r \in Requests : bill[r] # -1 => bill'[r] = bill[r]
    /\ UNCHANGED <<available, hold, phase>>

Capture(r) ==
    /\ phase[r] = "held"
    /\ bill[r] >= 0
    /\ available' = [available EXCEPT ![UserOf[r]] = @ + hold[r] - bill[r]]
    /\ hold' = [hold EXCEPT ![r] = 0]
    /\ phase' = [phase EXCEPT ![r] = "paid"]
    /\ UNCHANGED bill

Lapse(r) ==
    /\ phase[r] = "held"
    /\ hold' = [hold EXCEPT ![r] = 0]
    /\ phase' = [phase EXCEPT ![r] = "lapsed"]
    /\ UNCHANGED <<available, bill>>

Next ==
    \/ \E u \in Users : Credit(u)
    \/ Bill
    \/ \E r \in Requests : Reserve(r) \/ Capture(r) \/ Lapse(r)

Spec == Init /\ [][Next]_vars
=============================================================================
