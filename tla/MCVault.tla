------------------------------- MODULE MCVault -------------------------------
(* Small instances of the stake vault for TLC. *)
EXTENDS VaultInvariant, TLC

CONSTANTS b1, t1, t2, d1, d2, w1, w2, w3, n1, x1

Signed(n) == [nonce |-> n, signed |-> TRUE]

\* One approval carried by two requests, and an operator's request.
ApprovedTwice == (w1 :> Signed(n1)) @@ (w2 :> Signed(n1)) @@ (w3 :> Signed(None))
Asks == [w \in Withdrawal |-> [builder |-> b1, amount |-> 2]]

\* One transfer, claimed by two calls.
Claims == [d \in Deposit |-> [builder |-> b1, transfer |-> t1, amount |-> 2]]
\* The second transfer is another builder's: the escrow pools the money.
Values == (t1 :> 2) @@ (t2 :> 2)
Expiry == n1 :> 1
OldStake == b1 :> 1
Bettors == [x \in Bet |-> b1]
=============================================================================
