--------------------------- MODULE VaultProperties ---------------------------
(* What must hold of the stake vault. *)
EXTENDS StakeVault

\* The types, and: no run starts without its approval, and none waits twice.
TypeOK ==
    /\ usedNonces \subseteq Approval /\ claimed \subseteq Approval
    /\ check \in [Withdrawal -> CheckPhase]
    /\ now \in 0 .. LastTick /\ faults \in 0 .. MaxFaults
    /\ rows \subseteq Deposit \cup Withdrawal
    /\ deposit \in [Deposit -> DepositPhase]
    /\ withdraw \in [Withdrawal -> WithdrawPhase]
    /\ refund \in [Withdrawal -> {"none", "pending", "landed", "reverted"}]
    /\ bets \in [Bet -> {"none", "priced", "open", "resolved"}]
    /\ barred \in [Withdrawal -> SUBSET Bet]
    /\ queue \in [Builder -> Seq(Withdrawal)]
    /\ \A b \in Builder : \A i, j \in 1 .. Len(queue[b]) : queue[b][i] = queue[b][j] => i = j
    /\ \A w \in Withdrawal : withdraw[w] # "idle" => check[w] = "passed"

(***************************************************************************)
(* One approval lets one request through, which its owner signed, however  *)
(* many requests carry it at once, whichever calls fail, and although the  *)
(* process restarts before the approval expires.                           *)
(***************************************************************************)
ApprovalPassesOnce ==
    \A w \in Withdrawal : check[w] = "passed" /\ NonceOf(w) # None =>
        /\ Presents[w].signed
        /\ \A v \in Withdrawal \ {w} : NonceOf(v) = NonceOf(w) => check[v] # "passed"

(***************************************************************************)
(* A debit names a refund that landed: the ledger never shows a stake      *)
(* withdrawn whose money was not sent.                                     *)
(***************************************************************************)
DebitsAreRefunds == \A w \in rows \cap Withdrawal : refund[w] = "landed"

(***************************************************************************)
(* A builder's verified stake never goes below nothing, however many       *)
(* withdrawals pass the checks before the lock at the same time.  As long  *)
(* as no call fails and the process stays up, what has left the escrow for *)
(* a builder, or is about to, is within its recorded deposits, and every   *)
(* refund that landed is debited or its run is about to.                   *)
(***************************************************************************)
Leaving(b) == {w \in Withdrawal : Ask[w].builder = b /\ refund[w] \in {"pending", "landed"}}

RefundsCovered ==
    /\ \A b \in Builder : RealStake(b) >= 0
    /\ faults = 0 =>
         /\ \A b \in Builder :
              SumFunctionOnSet(Asked, Leaving(b)) <= SumFunctionOnSet(Claimed, DepositsOf(b))
         /\ \A w \in Withdrawal :
              refund[w] = "landed" => w \in rows \/ withdraw[w] \in {"sent", "debit"}

(***************************************************************************)
(* As long as no read fails, a bet that was open when a withdrawal was     *)
(* asked for, and still is, keeps the refund from being sent.              *)
(***************************************************************************)
OpenBetsHold ==
    faults = 0 => \A w \in Withdrawal : refund[w] # "none" => barred[w] = {}

(***************************************************************************)
(* Every withdrawal that waits in line is answered, whatever became of the *)
(* ones before it, as long as the chain answers.                           *)
(***************************************************************************)
WithdrawalsReturn ==
    \A w \in Withdrawal : withdraw[w] \in Running ~> withdraw[w] \in {"done", "refused", "threw", "dead"}

-----------------------------------------------------------------------------
(* A claim of a comment that the code does not keep *)

(***************************************************************************)
(* deposit-verifier.ts:24: a transaction recorded as a stake is refused.   *)
(* One transfer is behind at most one row.                                 *)
(***************************************************************************)
OneStakePerTransfer ==
    \A d, e \in rows \cap Deposit : Claim[d].transfer = Claim[e].transfer => d = e
=============================================================================
