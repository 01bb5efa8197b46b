---------------------------- MODULE VaultInvariant ----------------------------
(* What the theorems about the stake vault rest on. *)
EXTENDS VaultProperties

\* While a check is under way it carries a nonce, and past the signature one
\* that its owner signed; what passed is in the table.
ChecksAreEarned ==
    \A w \in Withdrawal :
        /\ check[w] \in {"verifying", "reading", "inserting"} => NonceOf(w) # None
        /\ check[w] \in {"reading", "inserting", "passed"} /\ NonceOf(w) # None => Presents[w].signed
        /\ check[w] = "passed" /\ NonceOf(w) # None => NonceOf(w) \in claimed

\* The runs in line, and those of them that may touch the builder's money.
InLine == {"queued", "ready", "sent", "debit"}
Inside == {"ready", "sent", "debit"}

(***************************************************************************)
(* The lock of a builder: from the moment a withdrawal has read the stake  *)
(* until its debit is written it is the first in line, so no other one of  *)
(* the same builder reads or sends in between.                             *)
(***************************************************************************)
WithdrawalsTakeTurns == \A w \in Withdrawal : withdraw[w] \in Inside => Holds(w)

\* Who waits in a line is a run of that builder, under way.
LinesAreRuns ==
    \A b \in Builder : \A i \in 1 .. Len(queue[b]) :
        withdraw[queue[b][i]] \in InLine /\ Ask[queue[b][i]].builder = b

\* The refund of a run follows its phase.
RefundFollowsRun ==
    \A w \in Withdrawal :
        /\ withdraw[w] \in {"idle", "bets", "total", "queued", "ready"} => refund[w] = "none"
        /\ withdraw[w] = "debit" => refund[w] = "landed"

\* What a withdrawal has found under the lock is there until it is taken.
TakersAreBacked ==
    \A w \in Withdrawal : withdraw[w] \in Inside => Ask[w].amount <= RealStake(Ask[w].builder)

\* Rows and refunds are those of the runs that came so far.
FinitelyMany == IsFiniteSet(rows) /\ IsFiniteSet({w \in Withdrawal : refund[w] # "none"})

StakesStand == \A b \in Builder : RealStake(b) >= 0

\* Without a fault no refund is lost sight of.
RefundsAreTracked ==
    faults = 0 => \A w \in Withdrawal :
        /\ refund[w] = "pending" => withdraw[w] = "sent"
        /\ refund[w] = "landed" => w \in rows \/ withdraw[w] \in {"sent", "debit"}

\* The bets open when a withdrawal was asked for are its builder's, none of them
\* opens again, and a run that has looked for open bets has none.
BarredBetsRest ==
    \A w \in Withdrawal : \A x \in barred[w] :
        /\ Bettor[x] = Ask[w].builder
        /\ bets[x] \in {"open", "resolved"}
        /\ faults = 0 /\ withdraw[w] \in {"total", "queued", "ready"} => bets[x] = "resolved"

IInv ==
    /\ TypeOK
    /\ ChecksAreEarned
    /\ ApprovalPassesOnce
    /\ WithdrawalsTakeTurns
    /\ LinesAreRuns
    /\ RefundFollowsRun
    /\ DebitsAreRefunds
    /\ TakersAreBacked /\ FinitelyMany /\ StakesStand
    /\ RefundsAreTracked
    /\ BarredBetsRest /\ OpenBetsHold
=============================================================================
