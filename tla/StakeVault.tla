------------------------------ MODULE StakeVault ------------------------------
(***************************************************************************)
(* The stake vault with real staking on (src/src/services/stake-vault.ts,  *)
(* escrow-refunder.ts, deposit-verifier.ts, and POST /stake/withdraw):     *)
(* deposits of transfers that are on the chain, withdrawals that refund    *)
(* first and debit after under a per-builder lock of this process, and     *)
(* the bets that hold a stake in place.  The escrow pools every builder's  *)
(* money.  A run inserts at most one row, so rows are named by their runs. *)
(***************************************************************************)
EXTENDS OwnerApproval, Sequences, FiniteSets, Functions

CONSTANTS
    Builder,
    Transfer,   \* USDC transfers to the escrow, confirmed.
    Value,      \* [Transfer -> its amount]
    Deposit,    \* Calls of depositStake.
    Claim,      \* [Deposit -> builder, transfer, amount claimed]
    Ask,        \* [Withdrawal -> builder, amount]
    Simulated,  \* [Builder -> stake of older, simulated rows]
    Bet, Bettor \* Bettor: [Bet -> Builder]

ASSUME VaultAssumption ==
    /\ Value \in [Transfer -> Nat]
    /\ Claim \in [Deposit -> [builder : Builder, transfer : Transfer, amount : Nat]]
    /\ Ask \in [Withdrawal -> [builder : Builder, amount : Nat \ {0}]]
    /\ Simulated \in [Builder -> Nat]
    /\ Bettor \in [Bet -> Builder]
    /\ Deposit \cap Withdrawal = {}

VARIABLES
    rows,     \* stake_deposits: the runs whose row is in it.
    deposit,  \* [Deposit -> where its run is]
    withdraw, \* [Withdrawal -> where its run is]
    queue,    \* withdrawChains: [Builder -> the runs in line, the holder first]
    refund,   \* [Withdrawal -> its transfer out of the escrow]
    bets,     \* linked_bets: [Bet -> its status]
    barred    \* [Withdrawal -> the bets open since it was asked for]

vaultVars == <<rows, deposit, withdraw, queue, refund, bets, barred>>
vars == <<approvalVars, now, faults, vaultVars>>

DepositPhase == {"idle", "verify", "insert", "done", "refused", "dead"}
WithdrawPhase == {"idle", "bets", "total", "queued", "ready", "sent", "debit",
                  "done", "refused", "threw", "dead"}

Claimed == [d \in Deposit |-> Claim[d].amount]
Asked   == [w \in Withdrawal |-> Ask[w].amount]

DepositsOf(b) == {d \in rows \cap Deposit : Claim[d].builder = b}
DebitsOf(b)   == {w \in rows \cap Withdrawal : Ask[w].builder = b}

RealStake(b) == SumFunctionOnSet(Claimed, DepositsOf(b)) - SumFunctionOnSet(Asked, DebitsOf(b))

CurrentStake(b) == Simulated[b] + RealStake(b)

\* What is left in the escrow's account.
Pool == SumFunctionOnSet(Value, Transfer)
          - SumFunctionOnSet(Asked, {w \in Withdrawal : refund[w] = "landed"})

Init ==
    /\ ApprovalInit
    /\ rows = {}
    /\ deposit = [d \in Deposit |-> "idle"]
    /\ withdraw = [w \in Withdrawal |-> "idle"]
    /\ queue = [b \in Builder |-> <<>>]
    /\ refund = [w \in Withdrawal |-> "none"]
    /\ bets = [x \in Bet |-> "none"]
    /\ barred = [w \in Withdrawal |-> {}]

-----------------------------------------------------------------------------
(* depositStake *)

DepositAt(d, from, to) == deposit[d] = from /\ deposit' = [deposit EXCEPT ![d] = to]

Recorded(t) == \E d \in rows \cap Deposit : Claim[d].transfer = t

\* The guard against replays; an error of its read is not looked at.
LookForDuplicate(d) ==
    /\ \/ DepositAt(d, "idle", IF Recorded(Claim[d].transfer) THEN "refused" ELSE "verify")
          /\ UNCHANGED faults
       \/ Fault /\ DepositAt(d, "idle", "verify")
    /\ UNCHANGED <<approvalVars, now, rows, withdraw, queue, refund, bets, barred>>

\* verifyDeposit
VerifyTransfer(d) ==
    LET verified == Claim[d].amount > 0 /\ Value[Claim[d].transfer] >= Claim[d].amount
    IN  /\ \/ DepositAt(d, "verify", IF verified THEN "insert" ELSE "refused") /\ UNCHANGED faults
           \/ Fault /\ DepositAt(d, "verify", "refused")
        /\ UNCHANGED <<approvalVars, now, rows, withdraw, queue, refund, bets, barred>>

RecordDeposit(d) ==
    /\ \/ /\ DepositAt(d, "insert", "done")
          /\ rows' = rows \cup {d}
          /\ UNCHANGED faults
       \/ /\ Fault
          /\ DepositAt(d, "insert", "refused")
          /\ rows' \in {rows, rows \cup {d}}
    /\ UNCHANGED <<approvalVars, now, withdraw, queue, refund, bets, barred>>

Depositing(d) == LookForDuplicate(d) \/ VerifyTransfer(d) \/ RecordDeposit(d)

-----------------------------------------------------------------------------
(* withdrawStake, before the lock *)

At(w, pc) == withdraw[w] = pc
Goto(w, pc) == withdraw' = [withdraw EXCEPT ![w] = pc]
OpenBets(b) == {x \in Bet : bets[x] = "open" /\ Bettor[x] = b}

\* Mutated: the route does not wait for the answer of the check.
BeginUnchecked(w) ==
    /\ At(w, "idle") /\ check[w] # "idle"
    /\ Goto(w, "bets")
    /\ barred' = [barred EXCEPT ![w] = OpenBets(Ask[w].builder)]
    /\ UNCHANGED <<approvalVars, now, faults, rows, deposit, queue, refund, bets>>

\* The route goes on once the approval has passed.
Begin(w) ==
    /\ At(w, "idle") /\ check[w] = "passed"
    /\ Goto(w, "bets")
    /\ barred' = [barred EXCEPT ![w] = OpenBets(Ask[w].builder)]
    /\ UNCHANGED <<approvalVars, now, faults, rows, deposit, queue, refund, bets>>

\* Mutated: what is asked for is looked at, open bets are not.
CheckNoBets(w) ==
    /\ At(w, "bets")
    /\ Goto(w, "total")
    /\ UNCHANGED <<approvalVars, now, faults, rows, deposit, queue, refund, bets, barred>>

\* An error of this read is not looked at either.
CheckBets(w) ==
    /\ At(w, "bets")
    /\ \/ Goto(w, IF OpenBets(Ask[w].builder) # {} THEN "refused" ELSE "total") /\ UNCHANGED faults
       \/ Fault /\ Goto(w, "total")
    /\ UNCHANGED <<approvalVars, now, rows, deposit, queue, refund, bets, barred>>

\* A failed read counts as no stake.  serializeWithdraw queues the run.
CheckTotal(w) ==
    LET b == Ask[w].builder
    IN  /\ At(w, "total")
        /\ \/ /\ Ask[w].amount <= CurrentStake(b)
              /\ Goto(w, "queued")
              /\ queue' = [queue EXCEPT ![b] = Append(@, w)]
              /\ UNCHANGED faults
           \/ /\ \/ Ask[w].amount > CurrentStake(b) /\ UNCHANGED faults
                 \/ Fault
              /\ Goto(w, "refused")
              /\ UNCHANGED queue
        /\ UNCHANGED <<approvalVars, now, rows, deposit, refund, bets, barred>>

-----------------------------------------------------------------------------
(* Under the lock: read, refund, debit *)

\* Mutated: no line; every run goes on at once.
HoldsAlways(w) == TRUE

Holds(w) == LET q == queue[Ask[w].builder] IN q # <<>> /\ Head(q) = w

\* Mutated: a holder that throws takes the line with it.
SettleOnSuccess(w, outcome) ==
    /\ Goto(w, outcome)
    /\ queue' = IF outcome = "threw" THEN queue
                ELSE [queue EXCEPT ![Ask[w].builder] = Tail(@)]

\* The run returns or throws; the next in line starts either way.
Settle(w, outcome) ==
    /\ Goto(w, outcome)
    /\ queue' = [queue EXCEPT ![Ask[w].builder] = Tail(@)]

Locked(w, pc) == At(w, pc) /\ Holds(w)

\* A read that fails counts as no stake; one that throws ends the run.
ReadReal(w) ==
    LET backed == Ask[w].amount <= RealStake(Ask[w].builder) IN
    /\ Locked(w, "queued")
    /\ \/ /\ backed
          /\ Goto(w, "ready")
          /\ UNCHANGED <<queue, faults>>
       \/ /\ ~backed
          /\ Settle(w, "refused")
          /\ UNCHANGED faults
       \/ /\ Fault
          /\ \E outcome \in {"refused", "threw"} : Settle(w, outcome)
    /\ UNCHANGED <<approvalVars, now, rows, deposit, refund, bets, barred>>

\* escrowRefund broadcasts the transfer, or refuses and nothing is sent.
Send(w) ==
    /\ Locked(w, "ready")
    /\ \/ /\ Goto(w, "sent")
          /\ refund' = [refund EXCEPT ![w] = "pending"]
          /\ UNCHANGED <<queue, faults>>
       \/ /\ Fault
          /\ Settle(w, "refused")
          /\ UNCHANGED refund
    /\ barred' = [barred EXCEPT ![w] = @ \cap OpenBets(Ask[w].builder)]
    /\ UNCHANGED <<approvalVars, now, rows, deposit, bets>>

\* Mutated: the debit does not wait for the receipt.
AwaitNothing(w) ==
    /\ Locked(w, "sent")
    /\ Goto(w, "debit")
    /\ UNCHANGED <<approvalVars, now, faults, rows, deposit, queue, refund, bets, barred>>

\* tx.wait: a reverted transfer refuses, and so does an error, whatever was sent.
AwaitReceipt(w) ==
    /\ Locked(w, "sent")
    /\ \/ /\ refund[w] = "landed"
          /\ Goto(w, "debit")
          /\ UNCHANGED <<queue, faults>>
       \/ /\ \/ refund[w] = "reverted" /\ UNCHANGED faults
             \/ Fault
          /\ Settle(w, "refused")
    /\ UNCHANGED <<approvalVars, now, rows, deposit, refund, bets, barred>>

\* A debit that fails is answered as a refusal; the refund is out.
Debit(w) ==
    /\ Locked(w, "debit")
    /\ \/ /\ rows' = rows \cup {w}
          /\ Settle(w, "done")
          /\ UNCHANGED faults
       \/ /\ Fault
          /\ rows' \in {rows, rows \cup {w}}
          /\ Settle(w, "refused")
    /\ UNCHANGED <<approvalVars, now, deposit, refund, bets, barred>>

Withdrawing(w) ==
    \/ Begin(w) \/ CheckBets(w) \/ CheckTotal(w)
    \/ ReadReal(w) \/ Send(w) \/ AwaitReceipt(w) \/ Debit(w)

-----------------------------------------------------------------------------
(* Around it *)

\* The chain executes a broadcast transfer, if the escrow still holds so much.
Land(w) ==
    /\ refund[w] = "pending"
    /\ refund' = [refund EXCEPT ![w] = IF Pool >= Ask[w].amount THEN "landed" ELSE "reverted"]
    /\ UNCHANGED <<approvalVars, now, faults, rows, deposit, withdraw, queue, bets, barred>>

BetAt(x, from, to) ==
    /\ bets[x] = from
    /\ bets' = [bets EXCEPT ![x] = to]
    /\ UNCHANGED <<approvalVars, now, faults, rows, deposit, withdraw, queue, refund, barred>>

\* placeBet reads what the stake allows, then inserts the bet; resolveBet closes it.
PriceBet(x)   == CurrentStake(Bettor[x]) > 0 /\ BetAt(x, "none", "priced")
InsertBet(x)  == BetAt(x, "priced", "open")
ResolveBet(x) == BetAt(x, "open", "resolved")

Running == {"bets", "total", "queued", "ready", "sent", "debit"}

\* The process restarts: its runs, its lock and its map of nonces are gone.
Restart ==
    /\ Fault
    /\ ForgetChecks
    /\ deposit' = [d \in Deposit |-> IF deposit[d] \in {"verify", "insert"} THEN "dead" ELSE deposit[d]]
    /\ withdraw' = [w \in Withdrawal |->
                      IF withdraw[w] \in Running \/ (At(w, "idle") /\ check[w] = "passed")
                      THEN "dead" ELSE withdraw[w]]
    /\ queue' = [b \in Builder |-> <<>>]
    /\ bets' = [x \in Bet |-> IF bets[x] = "priced" THEN "none" ELSE bets[x]]
    /\ UNCHANGED <<now, rows, refund, barred>>

Next ==
    \/ \E d \in Deposit : Depositing(d)
    \/ \E w \in Withdrawal : Checking(w) /\ UNCHANGED vaultVars
    \/ \E w \in Withdrawal : Withdrawing(w) \/ Land(w)
    \/ \E x \in Bet : PriceBet(x) \/ InsertBet(x) \/ ResolveBet(x)
    \/ Tick /\ UNCHANGED vaultVars
    \/ Restart

Spec == Init /\ [][Next]_vars

\* Promises settle, and the chain answers a broadcast transfer.
FairSpec ==
    /\ Spec
    /\ \A w \in Withdrawal : WF_vars(Withdrawing(w)) /\ WF_vars(Land(w))
=============================================================================
