-------------------------- MODULE PayAfterDelivery --------------------------
(***************************************************************************)
(* What deferred settlement promises about one service contract: the money *)
(* moves once, after the buyer accepted a sound deliverable, the contract  *)
(* closes only on money that moved, and its settlement earns RepID once.   *)
(*   src/src/services/x402-deferred-settlement.ts  "pay AFTER verified     *)
(*   delivery, not before"                                                 *)
(***************************************************************************)
EXTENDS Naturals

VARIABLES
    accepted,  \* The buyer accepted a deliverable that passed.
    paid,      \* The transfer is on the chain.
    closed,    \* The contract is recorded as settled.
    rewarded   \* The RepID of the settlement was applied.

vars == <<accepted, paid, closed, rewarded>>

TypeOK == accepted \in BOOLEAN /\ paid \in BOOLEAN /\ closed \in BOOLEAN /\ rewarded \in 0 .. 1

Init == ~accepted /\ ~paid /\ ~closed /\ rewarded = 0

Accept ==
    /\ ~accepted
    /\ accepted' = TRUE
    /\ UNCHANGED <<paid, closed, rewarded>>

Pay ==
    /\ accepted /\ ~paid
    /\ paid' = TRUE
    /\ UNCHANGED <<accepted, closed, rewarded>>

Close ==
    /\ paid /\ ~closed
    /\ closed' = TRUE
    /\ UNCHANGED <<accepted, paid, rewarded>>

Reward ==
    /\ closed /\ rewarded = 0
    /\ rewarded' = 1
    /\ UNCHANGED <<accepted, paid, closed>>

Next == Accept \/ Pay \/ Close \/ Reward

Spec == Init /\ [][Next]_vars
=============================================================================
