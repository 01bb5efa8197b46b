---------------------------- MODULE OneUseBudget ----------------------------
(***************************************************************************)
(* What the policy kernel promises, with no replicas, locks or messages:   *)
(* an authorization is reserved once, for good; what is reserved never     *)
(* goes over an owner's limits; and a call is let through only on its own  *)
(* reservation, once.  KernelLedger implements it (ImplementsOneUseBudget  *)
(* in KernelProperties).                                                   *)
(***************************************************************************)
EXTENDS Integers, FiniteSets, FiniteSetsExt, Functions

CONSTANTS Call, Reservation, Day

VARIABLES reserved, granted

bvars == <<reserved, granted>>

Amount(R) == SumFunctionOnSet([x \in R |-> x.amount], R)

\* No two reservations use one authorization.
OneUse(R) == \A x, y \in R : x.key = y.key => x = y

\* All that is spent under one policy fits its total limit.
WithinTotals(R) ==
    \A p \in {x.policy : x \in R} :
        Amount({x \in R : x.spends /\ x.policy = p}) <= p.total

\* In any window of one day an agent spends at most a daily limit one of its
\* spends in that window was made under.
WithinDays(R) ==
    \A x \in {y \in R : y.spends} :
        LET window == {y \in R : /\ y.spends /\ y.agent = x.agent
                                 /\ x.ts <= y.ts /\ y.ts <= x.ts + Day}
        IN  Amount(window) <= Max({y.policy.daily : y \in window})

Promise(R) == OneUse(R) /\ WithinTotals(R) /\ WithinDays(R)

Init == reserved = {} /\ granted = {}

Reserve ==
    \E x \in Reservation :
        /\ \A y \in reserved : y.call # x.call
        /\ reserved' = reserved \cup {x}
        /\ Promise(reserved')
        /\ UNCHANGED granted

Grant(c) ==
    /\ c \notin granted
    /\ \E x \in reserved : x.call = c
    /\ granted' = granted \cup {c}
    /\ UNCHANGED reserved

Next == Reserve \/ \E c \in Call : Grant(c)

Spec == Init /\ [][Next]_bvars
=============================================================================
