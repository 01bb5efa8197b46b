----------------------------- MODULE VaultProofs -----------------------------
(***************************************************************************)
(* Theorems about the stake vault and its owners' approvals, for any       *)
(* deposits, withdrawals, approvals, bets and any number of faults.        *)
(***************************************************************************)
EXTENDS VaultInvariant, DataLemmas

\* What the invariant says of the lines, apart from the rest.
LineInv ==
    /\ withdraw \in [Withdrawal -> WithdrawPhase]
    /\ queue \in [Builder -> Seq(Withdrawal)]
    /\ \A b \in Builder : \A i, j \in 1 .. Len(queue[b]) : queue[b][i] = queue[b][j] => i = j
    /\ WithdrawalsTakeTurns
    /\ LinesAreRuns

-----------------------------------------------------------------------------
(* Sequences *)

\* What is left of a line when its first has gone.
LEMMA LineTail ==
    ASSUME NEW S, NEW q \in Seq(S), q # <<>>
    PROVE  /\ Tail(q) \in Seq(S)
           /\ Len(Tail(q)) = Len(q) - 1
           /\ \A i \in 1 .. Len(Tail(q)) : Tail(q)[i] = q[i + 1] /\ i + 1 \in 1 .. Len(q)
           /\ Head(q) = q[1] /\ 1 \in 1 .. Len(q)
OBVIOUS

\* A line one more has joined.
LEMMA LineAppend ==
    ASSUME NEW S, NEW q \in Seq(S), NEW w \in S
    PROVE  /\ Append(q, w) \in Seq(S) /\ Append(q, w) # <<>>
           /\ Len(Append(q, w)) = Len(q) + 1
           /\ \A i \in 1 .. Len(q) : Append(q, w)[i] = q[i]
           /\ Append(q, w)[Len(q) + 1] = w
           /\ q # <<>> => Head(Append(q, w)) = Head(q)
<1> DEFINE r == Append(q, w)
<1>1. r \in Seq(S) /\ Len(r) = Len(q) + 1 /\ Len(q) \in Nat
  OBVIOUS
<1>2. \A i \in 1 .. Len(q) : r[i] = q[i]
  OBVIOUS
<1>3. r[Len(q) + 1] = w
  OBVIOUS
<1>4. r # <<>>
  BY <1>1
<1>5. q # <<>> => Head(r) = Head(q)
  <2>1. q # <<>> => 1 \in 1 .. Len(q) /\ Head(q) = q[1]
    OBVIOUS
  <2>2. Head(r) = r[1]
    BY <1>1, <1>4
  <2> QED
    BY <1>2, <2>1, <2>2
<1> QED
  BY <1>1, <1>2, <1>3, <1>4, <1>5

-----------------------------------------------------------------------------
(* The lines of the builders *)

\* A run outside the lines moves and stays outside.
LEMMA OutsideMoves ==
    ASSUME LineInv, NEW w \in Withdrawal, NEW pc \in WithdrawPhase \ InLine,
           withdraw[w] \notin InLine, Goto(w, pc), UNCHANGED queue
    PROVE  LineInv'
<1>1. withdraw' \in [Withdrawal -> WithdrawPhase]
  BY DEF LineInv, Goto
<1>2. WithdrawalsTakeTurns'
  BY DEF LineInv, Goto, WithdrawalsTakeTurns, Holds, Inside, InLine
<1>3. LinesAreRuns'
  <2> SUFFICES ASSUME NEW b \in Builder, NEW i \in 1 .. Len(queue[b])
               PROVE  withdraw'[queue[b][i]] \in InLine /\ Ask[queue[b][i]].builder = b
    BY DEF LinesAreRuns
  <2>1. queue[b][i] \in Withdrawal /\ withdraw[queue[b][i]] \in InLine /\ Ask[queue[b][i]].builder = b
    BY DEF LineInv, LinesAreRuns
  <2> QED
    BY <2>1 DEF Goto, LineInv
<1> QED
  BY <1>1, <1>2, <1>3 DEF LineInv

\* A run joins the line of its builder, at its end.
LEMMA JoinMoves ==
    ASSUME LineInv, NEW w \in Withdrawal, withdraw[w] \notin InLine, Goto(w, "queued"),
           queue' = [queue EXCEPT ![Ask[w].builder] = Append(@, w)]
    PROVE  LineInv'
<1> DEFINE b == Ask[w].builder
<1>1. b \in Builder /\ queue[b] \in Seq(Withdrawal)
  BY VaultAssumption DEF LineInv
<1>2. /\ queue'[b] = Append(queue[b], w)
      /\ \A c \in Builder \ {b} : queue'[c] = queue[c]
      /\ queue' \in [Builder -> Seq(Withdrawal)]
  BY <1>1, LineAppend DEF LineInv
<1>3. withdraw' \in [Withdrawal -> WithdrawPhase]
  BY DEF LineInv, Goto, WithdrawPhase
<1>4. \A c \in Builder : \A i \in 1 .. Len(queue[c]) :
          /\ queue[c][i] \in Withdrawal /\ queue[c][i] # w
          /\ withdraw'[queue[c][i]] \in InLine /\ Ask[queue[c][i]].builder = c
  <2> SUFFICES ASSUME NEW c \in Builder, NEW i \in 1 .. Len(queue[c])
               PROVE  /\ queue[c][i] \in Withdrawal /\ queue[c][i] # w
                      /\ withdraw'[queue[c][i]] \in InLine /\ Ask[queue[c][i]].builder = c
    OBVIOUS
  <2>1. queue[c][i] \in Withdrawal /\ withdraw[queue[c][i]] \in InLine /\ Ask[queue[c][i]].builder = c
    BY DEF LineInv, LinesAreRuns
  <2> QED
    BY <2>1 DEF Goto, LineInv
<1>5. \A i \in 1 .. Len(queue'[b]) :
          \/ i \in 1 .. Len(queue[b]) /\ queue'[b][i] = queue[b][i]
          \/ i = Len(queue[b]) + 1 /\ queue'[b][i] = w
  BY <1>1, <1>2, LineAppend
<1>6. \A c \in Builder : \A i, j \in 1 .. Len(queue'[c]) : queue'[c][i] = queue'[c][j] => i = j
  BY <1>1, <1>2, <1>4, <1>5 DEF LineInv
<1>7. LinesAreRuns'
  <2>1. withdraw'[w] \in InLine
    BY DEF Goto, InLine, LineInv
  <2> QED
    BY <1>1, <1>2, <1>4, <1>5, <2>1 DEF LinesAreRuns
<1>8. WithdrawalsTakeTurns'
  <2> SUFFICES ASSUME NEW v \in Withdrawal, withdraw'[v] \in Inside
               PROVE  Holds(v)'
    BY DEF WithdrawalsTakeTurns
  <2>1. v # w /\ withdraw[v] \in Inside
    BY DEF Goto, Inside, LineInv
  <2>2. queue[Ask[v].builder] # <<>> /\ Head(queue[Ask[v].builder]) = v
    BY <2>1 DEF LineInv, WithdrawalsTakeTurns, Holds
  <2>3. Ask[v].builder \in Builder
    BY VaultAssumption
  <2> QED
    BY <1>1, <1>2, <2>2, <2>3, LineAppend DEF Holds
<1> QED
  BY <1>2, <1>3, <1>6, <1>7, <1>8 DEF LineInv

\* The first in line goes on.
LEMMA HolderMoves ==
    ASSUME LineInv, NEW w \in Withdrawal, NEW pc \in Inside,
           withdraw[w] \in InLine, Holds(w), Goto(w, pc), UNCHANGED queue
    PROVE  LineInv'
<1>1. withdraw' \in [Withdrawal -> WithdrawPhase]
  BY DEF LineInv, Goto, Inside, WithdrawPhase
<1>2. WithdrawalsTakeTurns'
  BY DEF LineInv, Goto, WithdrawalsTakeTurns, Holds
<1>3. LinesAreRuns'
  <2> SUFFICES ASSUME NEW b \in Builder, NEW i \in 1 .. Len(queue[b])
               PROVE  withdraw'[queue[b][i]] \in InLine /\ Ask[queue[b][i]].builder = b
    BY DEF LinesAreRuns
  <2>1. queue[b][i] \in Withdrawal /\ withdraw[queue[b][i]] \in InLine /\ Ask[queue[b][i]].builder = b
    BY DEF LineInv, LinesAreRuns
  <2> QED
    BY <2>1 DEF Goto, LineInv, Inside, InLine
<1> QED
  BY <1>1, <1>2, <1>3 DEF LineInv

\* The first in line is done, and the next one is first.
LEMMA SettleMoves ==
    ASSUME LineInv, NEW w \in Withdrawal, NEW outcome \in {"done", "refused", "threw"},
           withdraw[w] \in InLine, Holds(w), Settle(w, outcome)
    PROVE  LineInv'
<1> DEFINE b == Ask[w].builder
<1>1. b \in Builder /\ queue[b] \in Seq(Withdrawal) /\ queue[b] # <<>> /\ Head(queue[b]) = w
  BY VaultAssumption DEF LineInv, Holds
<1>2. /\ queue'[b] = Tail(queue[b])
      /\ \A c \in Builder \ {b} : queue'[c] = queue[c]
      /\ queue' \in [Builder -> Seq(Withdrawal)]
  BY <1>1, LineTail DEF LineInv, Settle
<1>3. /\ withdraw' \in [Withdrawal -> WithdrawPhase]
      /\ \A v \in Withdrawal \ {w} : withdraw'[v] = withdraw[v]
      /\ withdraw'[w] = outcome
  BY DEF LineInv, Settle, Goto, WithdrawPhase
<1>4. \A i \in 1 .. Len(queue'[b]) : queue'[b][i] = queue[b][i + 1] /\ i + 1 \in 1 .. Len(queue[b])
  BY <1>1, <1>2, LineTail
<1>5. \A i \in 1 .. Len(queue[b]) : i # 1 => queue[b][i] # w
  BY <1>1, LineTail DEF LineInv
<1>6. \A c \in Builder : \A i, j \in 1 .. Len(queue'[c]) : queue'[c][i] = queue'[c][j] => i = j
  <2>1. ASSUME NEW i \in 1 .. Len(queue'[b]), NEW j \in 1 .. Len(queue'[b]), queue'[b][i] = queue'[b][j]
        PROVE  i = j
    <3>1. i + 1 = j + 1
      BY <1>1, <1>4, <2>1 DEF LineInv
    <3> QED
      BY <3>1
  <2> QED
    BY <1>2, <2>1 DEF LineInv
<1>7. LinesAreRuns'
  <2>1. ASSUME NEW c \in Builder \ {b}, NEW i \in 1 .. Len(queue[c])
        PROVE  withdraw'[queue[c][i]] \in InLine /\ Ask[queue[c][i]].builder = c
    <3>1. queue[c][i] \in Withdrawal /\ withdraw[queue[c][i]] \in InLine /\ Ask[queue[c][i]].builder = c
      BY DEF LineInv, LinesAreRuns
    <3> QED
      BY <1>3, <3>1
  <2>2. ASSUME NEW i \in 1 .. Len(queue[b]), i # 1
        PROVE  withdraw'[queue[b][i]] \in InLine /\ Ask[queue[b][i]].builder = b
    <3>1. queue[b][i] \in Withdrawal /\ withdraw[queue[b][i]] \in InLine /\ Ask[queue[b][i]].builder = b
      BY <1>1 DEF LineInv, LinesAreRuns
    <3> QED
      BY <1>3, <1>5, <2>2, <3>1
  <2>3. ASSUME NEW i \in 1 .. Len(queue'[b])
        PROVE  withdraw'[queue'[b][i]] \in InLine /\ Ask[queue'[b][i]].builder = b
    <3>1. i + 1 # 1
      OBVIOUS
    <3> QED
      BY <1>4, <2>2, <3>1
  <2> QED
    BY <1>2, <2>1, <2>3 DEF LinesAreRuns
<1>8. WithdrawalsTakeTurns'
  <2> SUFFICES ASSUME NEW v \in Withdrawal, withdraw'[v] \in Inside
               PROVE  Holds(v)'
    BY DEF WithdrawalsTakeTurns
  <2>1. v # w /\ withdraw[v] \in Inside
    BY <1>3 DEF Inside
  <2>2. queue[Ask[v].builder] # <<>> /\ Head(queue[Ask[v].builder]) = v
    BY <2>1 DEF LineInv, WithdrawalsTakeTurns, Holds
  <2>3. Ask[v].builder \in Builder \ {b}
    BY <1>1, <2>1, <2>2, VaultAssumption
  <2> QED
    BY <1>2, <2>2, <2>3 DEF Holds
<1> QED
  BY <1>2, <1>3, <1>6, <1>7, <1>8 DEF LineInv

-----------------------------------------------------------------------------
(* The owners' approvals *)

\* What the invariant says of them, apart from the rest.
ApprovalInv ==
    /\ usedNonces \subseteq Approval /\ claimed \subseteq Approval
    /\ check \in [Withdrawal -> CheckPhase]
    /\ ChecksAreEarned
    /\ ApprovalPassesOnce

\* A check that moves without passing, on a table that has not shrunk.
LEMMA CheckMoves ==
    ASSUME ApprovalInv, NEW w \in Withdrawal, NEW pc \in CheckPhase, Checked(w, pc),
           usedNonces' \subseteq Approval, claimed' \subseteq Approval, claimed \subseteq claimed',
           pc \in {"verifying", "reading", "inserting"} => NonceOf(w) # None,
           pc \in {"reading", "inserting"} => Presents[w].signed,
           pc = "passed" => NonceOf(w) = None
    PROVE  ApprovalInv'
<1>1. /\ check' \in [Withdrawal -> CheckPhase]
      /\ check'[w] = pc
      /\ \A v \in Withdrawal \ {w} : check'[v] = check[v]
  BY DEF ApprovalInv, Checked
<1>2. ChecksAreEarned'
  <2> SUFFICES ASSUME NEW v \in Withdrawal
               PROVE  /\ check'[v] \in {"verifying", "reading", "inserting"} => NonceOf(v) # None
                      /\ check'[v] \in {"reading", "inserting", "passed"} /\ NonceOf(v) # None => Presents[v].signed
                      /\ check'[v] = "passed" /\ NonceOf(v) # None => NonceOf(v) \in claimed'
    BY DEF ChecksAreEarned, NonceOf
  <2>1. CASE v = w
    BY <1>1, <2>1
  <2>2. CASE v # w
    BY <1>1, <2>2 DEF ApprovalInv, ChecksAreEarned
  <2> QED
    BY <2>1, <2>2
<1>3. ApprovalPassesOnce'
  BY <1>1 DEF ApprovalInv, ApprovalPassesOnce, NonceOf
<1> QED
  BY <1>1, <1>2, <1>3 DEF ApprovalInv

\* The insert that finds no row lets its request through, and no other one.
LEMMA InsertPasses ==
    ASSUME ApprovalInv, NEW w \in Withdrawal, check[w] = "inserting", Checked(w, "passed"),
           NonceOf(w) \notin claimed, claimed' = claimed \cup {NonceOf(w)}, UNCHANGED usedNonces
    PROVE  ApprovalInv'
<1>1. /\ check' \in [Withdrawal -> CheckPhase]
      /\ check'[w] = "passed"
      /\ \A v \in Withdrawal \ {w} : check'[v] = check[v]
  BY DEF ApprovalInv, Checked, CheckPhase
<1>2. NonceOf(w) \in Approval /\ Presents[w].signed
  BY ApprovalAssumption DEF ApprovalInv, ChecksAreEarned, NonceOf
<1>3. \A v \in Withdrawal \ {w} : check[v] = "passed" /\ NonceOf(v) # None => NonceOf(v) # NonceOf(w)
  BY DEF ApprovalInv, ChecksAreEarned
<1>4. ChecksAreEarned'
  BY <1>1, <1>2 DEF ApprovalInv, ChecksAreEarned, NonceOf
<1>5. ApprovalPassesOnce'
  BY <1>1, <1>2, <1>3 DEF ApprovalInv, ApprovalPassesOnce, NonceOf
<1> QED
  BY <1>1, <1>2, <1>4, <1>5 DEF ApprovalInv

\* Every step of a check keeps the approvals in order, and moves one check
\* that had not passed.
LEMMA CheckingGood ==
    ASSUME ApprovalInv, NEW w \in Withdrawal, Checking(w)
    PROVE  /\ ApprovalInv'
           /\ check[w] # "passed"
           /\ \A v \in Withdrawal \ {w} : check'[v] = check[v]
           /\ UNCHANGED now
           /\ faults' = faults \/ Fault
<1>1. NonceOf(w) # None => NonceOf(w) \in Approval
  BY ApprovalAssumption DEF NonceOf
<1>2. check[w] \in {"verifying", "reading", "inserting"} => NonceOf(w) # None
  BY DEF ApprovalInv, ChecksAreEarned
<1>3. check[w] \in {"reading", "inserting"} => Presents[w].signed
  BY <1>2 DEF ApprovalInv, ChecksAreEarned
<1>4. Unexpired \subseteq Approval /\ usedNonces \ {NonceOf(w)} \subseteq Approval
  BY DEF ApprovalInv, Unexpired
<1>5. {"passed", "refused", "verifying", "reading", "inserting"} \subseteq CheckPhase
  BY DEF CheckPhase
<1>6. CASE Present(w)
  <2>1. CASE Checked(w, "passed") /\ NonceOf(w) = None /\ UNCHANGED usedNonces
    BY <1>5, <1>6, <2>1, CheckMoves DEF Present, ApprovalInv, Checked
  <2>2. CASE Checked(w, "refused") /\ usedNonces' \in {usedNonces, Unexpired}
    BY <1>4, <1>5, <1>6, <2>2, CheckMoves DEF Present, ApprovalInv, Checked
  <2>3. CASE Checked(w, "verifying") /\ usedNonces' = Unexpired \cup {NonceOf(w)} /\ NonceOf(w) # None
    <3>1. usedNonces' \subseteq Approval
      BY <1>1, <1>4, <2>3
    <3> QED
      BY <1>5, <1>6, <2>3, <3>1, CheckMoves DEF Present, ApprovalInv, Checked
  <2> QED
    BY <1>6, <2>1, <2>2, <2>3 DEF Present
<1>7. CASE Verify(w)
  <2>1. CASE Checked(w, "reading") /\ Presents[w].signed /\ UNCHANGED usedNonces
    BY <1>2, <1>5, <1>7, <2>1, CheckMoves DEF Verify, ApprovalInv, Checked
  <2>2. CASE Checked(w, "refused") /\ Unreserve(w)
    BY <1>4, <1>5, <1>7, <2>2, CheckMoves DEF Verify, ApprovalInv, Checked, Unreserve
  <2> QED
    BY <1>7, <2>1, <2>2 DEF Verify
<1>8. CASE ReadLedger(w)
  <2>1. CASE Checked(w, "inserting") /\ UNCHANGED usedNonces
    BY <1>2, <1>3, <1>5, <1>8, <2>1, CheckMoves DEF ReadLedger, ApprovalInv, Checked
  <2>2. CASE Checked(w, "refused") /\ usedNonces' \in {usedNonces, usedNonces \ {NonceOf(w)}}
    BY <1>4, <1>5, <1>8, <2>2, CheckMoves DEF ReadLedger, ApprovalInv, Checked
  <2> QED
    BY <1>8, <2>1, <2>2 DEF ReadLedger, Unreserve
<1>9. CASE InsertNonce(w)
  <2>1. CASE /\ Checked(w, "passed") /\ NonceOf(w) \notin claimed
             /\ claimed' = claimed \cup {NonceOf(w)} /\ UNCHANGED usedNonces
    BY <1>9, <2>1, InsertPasses DEF InsertNonce, Checked, ApprovalInv
  <2>2. CASE /\ Checked(w, "refused")
             /\ claimed' \in {claimed, claimed \cup {NonceOf(w)}}
             /\ usedNonces' \in {usedNonces, usedNonces \ {NonceOf(w)}}
    <3>1. claimed' \subseteq Approval /\ claimed \subseteq claimed'
      BY <1>1, <1>2, <1>9, <2>2 DEF InsertNonce, ApprovalInv
    <3>2. usedNonces' \subseteq Approval
      BY <1>4, <2>2 DEF ApprovalInv
    <3> QED
      BY <1>5, <1>9, <2>2, <3>1, <3>2, CheckMoves DEF InsertNonce, Checked, ApprovalInv
  <2> QED
    BY <1>9, <2>1, <2>2 DEF InsertNonce, Unreserve
<1>10. UNCHANGED now /\ (faults' = faults \/ Fault) /\ check[w] # "passed"
  BY DEF Checking, Present, Verify, ReadLedger, InsertNonce
<1> QED
  BY <1>6, <1>7, <1>8, <1>9, <1>10 DEF Checking

\* A restart passes nothing.
LEMMA ForgetGood ==
    ASSUME ApprovalInv, ForgetChecks
    PROVE  ApprovalInv' /\ \A w \in Withdrawal : check'[w] \in {check[w], "dead"}
<1>1. /\ check' \in [Withdrawal -> CheckPhase]
      /\ \A w \in Withdrawal : check'[w] \in {check[w], "dead"}
      /\ \A w \in Withdrawal : check'[w] \notin {"verifying", "reading", "inserting"}
  BY DEF ApprovalInv, ForgetChecks, CheckPhase
<1>2. ChecksAreEarned' /\ ApprovalPassesOnce'
  BY <1>1 DEF ApprovalInv, ForgetChecks, ChecksAreEarned, ApprovalPassesOnce, NonceOf
<1> QED
  BY <1>1, <1>2 DEF ApprovalInv, ForgetChecks

\* Nothing happens to them.
LEMMA ApprovalUnmoved ==
    ASSUME ApprovalInv, UNCHANGED approvalVars
    PROVE  ApprovalInv'
BY DEF ApprovalInv, approvalVars, ChecksAreEarned, ApprovalPassesOnce, NonceOf

-----------------------------------------------------------------------------
(* The money, and the rest *)

MoneyInv ==
    /\ rows \subseteq Deposit \cup Withdrawal
    /\ refund \in [Withdrawal -> {"none", "pending", "landed", "reverted"}]
    /\ RefundFollowsRun
    /\ DebitsAreRefunds

OtherInv ==
    /\ now \in 0 .. LastTick /\ faults \in 0 .. MaxFaults
    /\ deposit \in [Deposit -> DepositPhase]
    /\ bets \in [Bet -> {"none", "priced", "open", "resolved"}]
    /\ barred \in [Withdrawal -> SUBSET Bet]
    /\ \A w \in Withdrawal : withdraw[w] # "idle" => check[w] = "passed"

CoreInv == ApprovalInv /\ LineInv /\ MoneyInv /\ OtherInv

LEMMA Parts == CoreInv <=> ApprovalInv /\ LineInv /\ MoneyInv /\ OtherInv
BY DEF CoreInv

LEMMA Whole ==
    ASSUME ApprovalInv', LineInv', MoneyInv', OtherInv'
    PROVE  CoreInv'
BY DEF CoreInv

LEMMA FaultCounts ==
    ASSUME faults \in 0 .. MaxFaults, faults' = faults \/ Fault
    PROVE  faults' \in 0 .. MaxFaults
BY ApprovalAssumption DEF Fault

\* No run, refund or row of a withdrawal moves.
LEMMA MoneyUnmoved ==
    ASSUME MoneyInv, UNCHANGED <<withdraw, refund>>, rows' \subseteq Deposit \cup Withdrawal,
           rows' \cap Withdrawal = rows \cap Withdrawal
    PROVE  MoneyInv'
BY DEF MoneyInv, RefundFollowsRun, DebitsAreRefunds

LEMMA LineUnmoved ==
    ASSUME LineInv, UNCHANGED <<withdraw, queue>>
    PROVE  LineInv'
BY DEF LineInv, WithdrawalsTakeTurns, LinesAreRuns, Holds

\* A run goes on: what its new phase says of the refund is true.
LEMMA RunMoves ==
    ASSUME MoneyInv, LineInv, NEW w \in Withdrawal, NEW pc \in WithdrawPhase, Goto(w, pc),
           UNCHANGED <<refund, rows>>,
           pc \in {"idle", "bets", "total", "queued", "ready"} => refund[w] = "none",
           pc = "debit" => refund[w] = "landed"
    PROVE  MoneyInv'
BY DEF MoneyInv, LineInv, Goto, RefundFollowsRun, DebitsAreRefunds

-----------------------------------------------------------------------------
(* The steps *)

LEMMA DepositingGood ==
    ASSUME CoreInv, NEW d \in Deposit, Depositing(d)
    PROVE  CoreInv'
<1>1. UNCHANGED <<approvalVars, now, withdraw, queue, refund, bets, barred>>
  BY DEF Depositing, LookForDuplicate, VerifyTransfer, RecordDeposit
<1>2. rows' \in {rows, rows \cup {d}} /\ (faults' = faults \/ Fault)
  BY DEF Depositing, LookForDuplicate, VerifyTransfer, RecordDeposit
<1>3. deposit' \in [Deposit -> DepositPhase]
  BY DEF CoreInv, OtherInv, Depositing, LookForDuplicate, VerifyTransfer, RecordDeposit, DepositAt, DepositPhase
<1>4. ApprovalInv' /\ LineInv'
  BY <1>1, Parts, ApprovalUnmoved, LineUnmoved
<1>5. rows' \subseteq Deposit \cup Withdrawal /\ rows' \cap Withdrawal = rows \cap Withdrawal
  BY <1>2, Parts, VaultAssumption DEF MoneyInv
<1>6. MoneyInv'
  BY <1>1, <1>5, Parts, MoneyUnmoved
<1>7. OtherInv'
  BY <1>1, <1>2, <1>3, Parts, FaultCounts DEF OtherInv, approvalVars
<1> QED
  BY <1>4, <1>6, <1>7, Whole

LEMMA CheckingKeeps ==
    ASSUME CoreInv, NEW w \in Withdrawal, Checking(w), UNCHANGED vaultVars
    PROVE  CoreInv'
<1>1. ApprovalInv'
  BY Parts, CheckingGood
<1>2. LineInv' /\ MoneyInv'
  BY Parts, LineUnmoved, MoneyUnmoved DEF vaultVars, MoneyInv
<1>3. OtherInv'
  BY Parts, CheckingGood, FaultCounts DEF OtherInv, vaultVars
<1> QED
  BY <1>1, <1>2, <1>3, Whole

\* A run of a withdrawal moves; the caller shows its line and its money.
LEMMA WithdrawalKeeps ==
    ASSUME CoreInv, NEW w \in Withdrawal, NEW pc \in WithdrawPhase, Goto(w, pc),
           UNCHANGED <<approvalVars, now, deposit, bets>>,
           barred' \in [Withdrawal -> SUBSET Bet],
           faults' = faults \/ Fault,
           check[w] = "passed", LineInv', MoneyInv'
    PROVE  CoreInv'
<1>1. \A v \in Withdrawal \ {w} : withdraw'[v] = withdraw[v]
  BY Parts DEF Goto, LineInv
<1>2. OtherInv'
  BY <1>1, Parts, FaultCounts DEF OtherInv, approvalVars
<1> QED
  BY <1>2, Parts, ApprovalUnmoved, Whole

LEMMA BeginGood ==
    ASSUME CoreInv, NEW w \in Withdrawal, Begin(w)
    PROVE  CoreInv'
<1>1. LineInv'
  BY Parts, OutsideMoves DEF Begin, At, InLine, WithdrawPhase
<1>2. MoneyInv'
  BY Parts, RunMoves DEF Begin, At, WithdrawPhase, MoneyInv, RefundFollowsRun
<1>3. barred' \in [Withdrawal -> SUBSET Bet]
  BY Parts DEF Begin, OtherInv, OpenBets
<1> QED
  BY <1>1, <1>2, <1>3, WithdrawalKeeps DEF Begin, WithdrawPhase

LEMMA CheckBetsGood ==
    ASSUME CoreInv, NEW w \in Withdrawal, CheckBets(w)
    PROVE  CoreInv'
<1>1. PICK pc \in {"refused", "total"} : Goto(w, pc)
  BY DEF CheckBets
<1>2. LineInv'
  BY <1>1, Parts, OutsideMoves DEF CheckBets, At, InLine, WithdrawPhase
<1>3. MoneyInv'
  BY <1>1, Parts, RunMoves DEF CheckBets, At, WithdrawPhase, MoneyInv, RefundFollowsRun
<1>4. check[w] = "passed" /\ barred' \in [Withdrawal -> SUBSET Bet]
  BY Parts DEF CheckBets, At, OtherInv
<1> QED
  BY <1>1, <1>2, <1>3, <1>4, WithdrawalKeeps DEF CheckBets, WithdrawPhase

LEMMA CheckTotalGood ==
    ASSUME CoreInv, NEW w \in Withdrawal, CheckTotal(w)
    PROVE  CoreInv'
<1>1. PICK pc \in {"refused", "queued"} : Goto(w, pc)
  BY DEF CheckTotal
<1>2. LineInv'
  <2>1. CASE Goto(w, "queued") /\ queue' = [queue EXCEPT ![Ask[w].builder] = Append(@, w)]
    BY <2>1, Parts, JoinMoves DEF CheckTotal, At, InLine
  <2>2. CASE Goto(w, "refused") /\ UNCHANGED queue
    BY <2>2, Parts, OutsideMoves DEF CheckTotal, At, InLine, WithdrawPhase
  <2> QED
    BY <2>1, <2>2 DEF CheckTotal
<1>3. MoneyInv'
  BY <1>1, Parts, RunMoves DEF CheckTotal, At, WithdrawPhase, MoneyInv, RefundFollowsRun
<1>4. check[w] = "passed" /\ barred' \in [Withdrawal -> SUBSET Bet]
  BY Parts DEF CheckTotal, At, OtherInv
<1> QED
  BY <1>1, <1>2, <1>3, <1>4, WithdrawalKeeps DEF CheckTotal, WithdrawPhase

\* The phases under the lock: the run is first in line and has passed.
LEMMA UnderLock ==
    ASSUME CoreInv, NEW w \in Withdrawal, NEW pc \in InLine, Locked(w, pc)
    PROVE  /\ withdraw[w] = pc /\ Holds(w)
           /\ check[w] = "passed"
           /\ pc \in {"queued", "ready"} => refund[w] = "none"
           /\ pc = "debit" => refund[w] = "landed"
           /\ barred \in [Withdrawal -> SUBSET Bet]
BY Parts DEF Locked, At, InLine, OtherInv, MoneyInv, RefundFollowsRun

\* A run that gives up its place: no phase it can end in says anything of the refund.
LEMMA SettleGood ==
    ASSUME CoreInv, NEW w \in Withdrawal, NEW pc \in InLine, Locked(w, pc),
           NEW outcome \in {"done", "refused", "threw"}, Settle(w, outcome),
           UNCHANGED <<approvalVars, now, deposit, bets, refund>>,
           barred' \in [Withdrawal -> SUBSET Bet],
           faults' = faults \/ Fault,
           rows' = rows \/ (rows' = rows \cup {w} /\ pc = "debit")
    PROVE  CoreInv'
<1>1. LineInv'
  BY UnderLock, Parts, SettleMoves
<1>2. Goto(w, outcome) /\ outcome \in WithdrawPhase
  BY DEF Settle, WithdrawPhase
<1>3. MoneyInv'
  <2>1. RefundFollowsRun'
    BY <1>2, Parts DEF Goto, LineInv, MoneyInv, RefundFollowsRun
  <2>2. DebitsAreRefunds'
    BY UnderLock, Parts DEF MoneyInv, DebitsAreRefunds
  <2>3. rows' \subseteq Deposit \cup Withdrawal
    BY Parts DEF MoneyInv
  <2> QED
    BY <2>1, <2>2, <2>3, Parts DEF MoneyInv
<1> QED
  BY <1>1, <1>2, <1>3, UnderLock, WithdrawalKeeps

LEMMA ReadRealGood ==
    ASSUME CoreInv, NEW w \in Withdrawal, ReadReal(w)
    PROVE  CoreInv'
<1>1. Locked(w, "queued") /\ "queued" \in InLine
  BY DEF ReadReal, InLine
<1>2. CASE Goto(w, "ready") /\ UNCHANGED <<queue, faults>>
  <2>1. LineInv'
    BY <1>1, <1>2, UnderLock, Parts, HolderMoves DEF Inside
  <2>2. MoneyInv'
    BY <1>1, <1>2, UnderLock, Parts, RunMoves DEF ReadReal, WithdrawPhase
  <2> QED
    BY <1>1, <1>2, <2>1, <2>2, UnderLock, WithdrawalKeeps DEF ReadReal, WithdrawPhase
<1>3. CASE \E outcome \in {"refused", "threw"} : Settle(w, outcome)
  <2>1. PICK outcome \in {"refused", "threw"} : Settle(w, outcome)
    BY <1>3
  <2>2. /\ UNCHANGED <<approvalVars, now, deposit, bets, refund>> /\ UNCHANGED rows
        /\ barred' \in [Withdrawal -> SUBSET Bet]
        /\ (faults' = faults \/ Fault)
    BY <1>1, UnderLock DEF ReadReal
  <2> QED
    BY <1>1, <2>1, <2>2, SettleGood
<1> QED
  BY <1>2, <1>3 DEF ReadReal

LEMMA SendGood ==
    ASSUME CoreInv, NEW w \in Withdrawal, Send(w)
    PROVE  CoreInv'
<1>1. Locked(w, "ready") /\ "ready" \in InLine
  BY DEF Send, InLine
<1>2. barred' \in [Withdrawal -> SUBSET Bet]
  BY <1>1, UnderLock DEF Send
<1>3. CASE Goto(w, "sent") /\ refund' = [refund EXCEPT ![w] = "pending"] /\ UNCHANGED <<queue, faults>>
  <2>1. LineInv'
    BY <1>1, <1>3, UnderLock, Parts, HolderMoves DEF Inside
  <2>2. refund[w] = "none"
    BY <1>1, UnderLock
  <2>3. MoneyInv'
    BY <1>3, <2>2, Parts DEF MoneyInv, LineInv, RefundFollowsRun, DebitsAreRefunds, Goto, Send
  <2> QED
    BY <1>1, <1>2, <1>3, <2>1, <2>3, UnderLock, WithdrawalKeeps DEF Send, WithdrawPhase
<1>4. CASE Fault /\ Settle(w, "refused") /\ UNCHANGED refund
  BY <1>1, <1>2, <1>4, SettleGood DEF Send
<1> QED
  BY <1>3, <1>4 DEF Send

LEMMA AwaitReceiptGood ==
    ASSUME CoreInv, NEW w \in Withdrawal, AwaitReceipt(w)
    PROVE  CoreInv'
<1>1. Locked(w, "sent") /\ "sent" \in InLine
  BY DEF AwaitReceipt, InLine
<1>2. CASE refund[w] = "landed" /\ Goto(w, "debit") /\ UNCHANGED <<queue, faults>>
  <2>1. LineInv'
    BY <1>1, <1>2, UnderLock, Parts, HolderMoves DEF Inside
  <2>2. MoneyInv'
    BY <1>2, Parts, RunMoves DEF AwaitReceipt, WithdrawPhase
  <2> QED
    BY <1>1, <1>2, <2>1, <2>2, UnderLock, WithdrawalKeeps DEF AwaitReceipt, WithdrawPhase
<1>3. CASE Settle(w, "refused")
  BY <1>1, <1>3, UnderLock, SettleGood DEF AwaitReceipt
<1> QED
  BY <1>2, <1>3 DEF AwaitReceipt

LEMMA DebitGood ==
    ASSUME CoreInv, NEW w \in Withdrawal, Debit(w)
    PROVE  CoreInv'
<1>1. Locked(w, "debit") /\ "debit" \in InLine
  BY DEF Debit, InLine
<1>2. PICK outcome \in {"done", "refused"} : Settle(w, outcome)
  BY DEF Debit
<1>3. rows' \in {rows, rows \cup {w}} /\ (faults' = faults \/ Fault)
  BY DEF Debit
<1> QED
  BY <1>1, <1>2, <1>3, UnderLock, SettleGood DEF Debit

\* The chain answers a broadcast: its run has no debit yet.
LEMMA LandGood ==
    ASSUME CoreInv, NEW w \in Withdrawal, Land(w)
    PROVE  CoreInv'
<1>1. ApprovalInv' /\ LineInv' /\ OtherInv'
  BY Parts, ApprovalUnmoved, LineUnmoved DEF Land, OtherInv, approvalVars
<1>2. MoneyInv'
  <2>1. /\ refund[w] = "pending"
        /\ refund' \in [Withdrawal -> {"none", "pending", "landed", "reverted"}]
        /\ \A v \in Withdrawal \ {w} : refund'[v] = refund[v]
    BY Parts DEF Land, MoneyInv
  <2>2. w \notin rows
    BY <2>1, Parts DEF MoneyInv, DebitsAreRefunds
  <2> QED
    BY <2>1, <2>2, Parts DEF Land, MoneyInv, RefundFollowsRun, DebitsAreRefunds
<1> QED
  BY <1>1, <1>2, Whole

LEMMA BetGood ==
    ASSUME CoreInv, NEW x \in Bet, PriceBet(x) \/ InsertBet(x) \/ ResolveBet(x)
    PROVE  CoreInv'
<1>1. UNCHANGED <<approvalVars, now, faults, rows, deposit, withdraw, queue, refund, barred>>
  BY DEF PriceBet, InsertBet, ResolveBet, BetAt
<1>2. bets' \in [Bet -> {"none", "priced", "open", "resolved"}]
  BY Parts DEF OtherInv, PriceBet, InsertBet, ResolveBet, BetAt
<1>3. ApprovalInv' /\ LineInv' /\ MoneyInv'
  BY <1>1, Parts, ApprovalUnmoved, LineUnmoved, MoneyUnmoved DEF MoneyInv
<1>4. OtherInv'
  BY <1>1, <1>2, Parts DEF OtherInv, approvalVars
<1> QED
  BY <1>3, <1>4, Whole

LEMMA TickGood ==
    ASSUME CoreInv, Tick, UNCHANGED vaultVars
    PROVE  CoreInv'
<1>1. ApprovalInv' /\ LineInv' /\ MoneyInv'
  BY Parts, ApprovalUnmoved, LineUnmoved, MoneyUnmoved DEF Tick, vaultVars, MoneyInv
<1>2. OtherInv'
  BY Parts, ApprovalAssumption DEF Tick, vaultVars, OtherInv, approvalVars
<1> QED
  BY <1>1, <1>2, Whole

\* The restart empties every line and ends every run in it.
LEMMA RestartGood ==
    ASSUME CoreInv, Restart
    PROVE  CoreInv'
<1>1. ApprovalInv' /\ \A w \in Withdrawal : check'[w] \in {check[w], "dead"}
  BY Parts, ForgetGood DEF Restart
<1>2. /\ withdraw' \in [Withdrawal -> WithdrawPhase]
      /\ \A w \in Withdrawal : withdraw'[w] \in {withdraw[w], "dead"} /\ withdraw'[w] \notin Running
      /\ \A w \in Withdrawal : withdraw'[w] = "idle" \/ withdraw'[w] = "dead" \/ withdraw'[w] = withdraw[w]
  BY Parts DEF Restart, LineInv, WithdrawPhase, Running, At
<1>3. LineInv'
  <2>1. queue' \in [Builder -> Seq(Withdrawal)] /\ \A b \in Builder : Len(queue'[b]) = 0
    BY DEF Restart
  <2>2. WithdrawalsTakeTurns'
    BY <1>2 DEF WithdrawalsTakeTurns, Inside, Running
  <2>3. LinesAreRuns'
    BY <2>1 DEF LinesAreRuns
  <2> QED
    BY <1>2, <2>1, <2>2, <2>3 DEF LineInv
<1>4. MoneyInv'
  BY <1>2, Parts DEF Restart, MoneyInv, RefundFollowsRun, DebitsAreRefunds, Running
<1>5. OtherInv'
  <2>1. /\ deposit' \in [Deposit -> DepositPhase]
        /\ bets' \in [Bet -> {"none", "priced", "open", "resolved"}]
        /\ UNCHANGED <<now, barred>>
    BY Parts DEF Restart, OtherInv, DepositPhase
  <2>2. faults' \in 0 .. MaxFaults
    BY Parts, FaultCounts DEF Restart, OtherInv
  <2>3. \A w \in Withdrawal : withdraw'[w] # "idle" => check'[w] = "passed"
    BY Parts DEF Restart, ForgetChecks, OtherInv, LineInv, Running, At
  <2> QED
    BY <2>1, <2>2, <2>3, Parts DEF OtherInv
<1> QED
  BY <1>1, <1>3, <1>4, <1>5, Whole

LEMMA StutterGood ==
    ASSUME CoreInv, UNCHANGED vars
    PROVE  CoreInv'
<1>1. ApprovalInv' /\ LineInv' /\ MoneyInv'
  BY Parts, ApprovalUnmoved, LineUnmoved, MoneyUnmoved DEF vars, vaultVars, MoneyInv
<1>2. OtherInv'
  BY Parts DEF vars, vaultVars, OtherInv, approvalVars
<1> QED
  BY <1>1, <1>2, Whole

LEMMA CoreInit ==
    ASSUME Init
    PROVE  CoreInv
<1>1. ApprovalInv
  BY DEF Init, ApprovalInit, ApprovalInv, CheckPhase, ChecksAreEarned, ApprovalPassesOnce
<1>2. LineInv
  BY DEF Init, LineInv, WithdrawPhase, WithdrawalsTakeTurns, LinesAreRuns, Inside
<1>3. MoneyInv
  BY DEF Init, MoneyInv, RefundFollowsRun, DebitsAreRefunds
<1>4. OtherInv
  BY ApprovalAssumption DEF Init, ApprovalInit, OtherInv, DepositPhase
<1> QED
  BY <1>1, <1>2, <1>3, <1>4, Parts

LEMMA CoreStep ==
    ASSUME CoreInv, [Next]_vars
    PROVE  CoreInv'
<1>1. ASSUME NEW w \in Withdrawal, Withdrawing(w)
      PROVE  CoreInv'
  BY <1>1, BeginGood, CheckBetsGood, CheckTotalGood, ReadRealGood, SendGood, AwaitReceiptGood,
     DebitGood DEF Withdrawing
<1> QED
  BY <1>1, DepositingGood, CheckingKeeps, LandGood, BetGood, TickGood, RestartGood, StutterGood DEF Next

-----------------------------------------------------------------------------
(* The stakes *)

StakeInv == TakersAreBacked /\ FinitelyMany /\ StakesStand

\* The two sides of a builder's verified stake, if R are the rows.
ClaimsIn(R, b) == {d \in R \cap Deposit : Claim[d].builder = b}
AsksIn(R, b)   == {w \in R \cap Withdrawal : Ask[w].builder = b}

StakeOf(R, b) == SumFunctionOnSet(Claimed, ClaimsIn(R, b)) - SumFunctionOnSet(Asked, AsksIn(R, b))

LEMMA StakeIs ==
    \A b : RealStake(b) = StakeOf(rows, b) /\ RealStake(b)' = StakeOf(rows', b)
BY DEF RealStake, DepositsOf, DebitsOf, StakeOf, ClaimsIn, AsksIn

LEMMA Amounts ==
    /\ \A d \in Deposit : Claimed[d] = Claim[d].amount /\ Claimed[d] \in Nat /\ Claimed[d] \in Int
    /\ \A w \in Withdrawal : /\ Asked[w] = Ask[w].amount /\ Asked[w] \in Nat /\ Asked[w] \in Int
                             /\ Ask[w].builder \in Builder
BY VaultAssumption DEF Claimed, Asked

\* They are finite, and so are their sums.
LEMMA Sides ==
    ASSUME NEW R, IsFiniteSet(R), NEW b
    PROVE  /\ IsFiniteSet(ClaimsIn(R, b)) /\ IsFiniteSet(AsksIn(R, b))
           /\ \A d \in ClaimsIn(R, b) : Claimed[d] \in Nat /\ Claimed[d] \in Int
           /\ \A w \in AsksIn(R, b) : Asked[w] \in Nat /\ Asked[w] \in Int
           /\ SumFunctionOnSet(Claimed, ClaimsIn(R, b)) \in Int
           /\ SumFunctionOnSet(Asked, AsksIn(R, b)) \in Int
<1>1. IsFiniteSet(ClaimsIn(R, b)) /\ IsFiniteSet(AsksIn(R, b))
  BY FS_Subset DEF ClaimsIn, AsksIn
<1>2. \A d \in ClaimsIn(R, b) : Claimed[d] \in Nat /\ Claimed[d] \in Int
  BY Amounts DEF ClaimsIn
<1>3. \A w \in AsksIn(R, b) : Asked[w] \in Nat /\ Asked[w] \in Int
  BY Amounts DEF AsksIn
<1> QED
  BY <1>1, <1>2, <1>3, SumType

LEMMA StakeType ==
    ASSUME NEW R, IsFiniteSet(R), NEW b
    PROVE  StakeOf(R, b) \in Int
BY Sides DEF StakeOf

\* A deposit takes nothing from a stake.
LEMMA DepositAdds ==
    ASSUME NEW R, IsFiniteSet(R), NEW d \in Deposit, NEW b
    PROVE  StakeOf(R, b) <= StakeOf(R \cup {d}, b)
<1>1. IsFiniteSet(R \cup {d})
  BY FS_AddElement
<1>2. ClaimsIn(R, b) \subseteq ClaimsIn(R \cup {d}, b)
  BY DEF ClaimsIn
<1>3. SumFunctionOnSet(Claimed, ClaimsIn(R, b)) <= SumFunctionOnSet(Claimed, ClaimsIn(R \cup {d}, b))
  BY <1>1, <1>2, Sides, SumOfPart
<1>4. AsksIn(R \cup {d}, b) = AsksIn(R, b)
  BY VaultAssumption DEF AsksIn
<1>5. SumFunctionOnSet(Asked, AsksIn(R \cup {d}, b)) = SumFunctionOnSet(Asked, AsksIn(R, b))
  BY <1>4, Zenon
<1> QED
  BY <1>1, <1>3, <1>5, Sides DEF StakeOf

\* A debit takes at most what was asked for, from its builder alone.
LEMMA DebitTakes ==
    ASSUME NEW R, IsFiniteSet(R), NEW w \in Withdrawal, NEW b
    PROVE  /\ Ask[w].builder = b => StakeOf(R, b) - Ask[w].amount <= StakeOf(R \cup {w}, b)
           /\ Ask[w].builder # b => StakeOf(R \cup {w}, b) = StakeOf(R, b)
<1>1. Ask[w].amount \in Nat /\ Asked[w] = Ask[w].amount /\ Asked[w] \in Int
  BY Amounts
<1>2. ClaimsIn(R \cup {w}, b) = ClaimsIn(R, b)
  BY VaultAssumption DEF ClaimsIn
<1>3. SumFunctionOnSet(Claimed, ClaimsIn(R \cup {w}, b)) = SumFunctionOnSet(Claimed, ClaimsIn(R, b))
  BY <1>2, Zenon
<1>4. CASE Ask[w].builder = b /\ w \notin R
  <2>1. AsksIn(R \cup {w}, b) = AsksIn(R, b) \cup {w} /\ w \notin AsksIn(R, b)
    BY <1>4 DEF AsksIn
  <2>2. SumFunctionOnSet(Asked, AsksIn(R, b) \cup {w}) = SumFunctionOnSet(Asked, AsksIn(R, b)) + Asked[w]
    BY <1>1, <2>1, Sides, SumAdd
  <2>3. SumFunctionOnSet(Asked, AsksIn(R \cup {w}, b)) = SumFunctionOnSet(Asked, AsksIn(R, b) \cup {w})
    BY <2>1, Zenon
  <2> QED
    BY <1>1, <1>3, <1>4, <2>2, <2>3, Sides DEF StakeOf
<1>5. CASE Ask[w].builder # b \/ w \in R
  <2>1. AsksIn(R \cup {w}, b) = AsksIn(R, b)
    BY <1>5 DEF AsksIn
  <2>2. SumFunctionOnSet(Asked, AsksIn(R \cup {w}, b)) = SumFunctionOnSet(Asked, AsksIn(R, b))
    BY <2>1, Zenon
  <2> QED
    BY <1>1, <1>3, <2>2, Sides DEF StakeOf
<1> QED
  BY <1>4, <1>5

\* No row is written, and who is inside was there or has found its stake.
LEMMA StakeUnmoved ==
    ASSUME StakeInv, UNCHANGED rows,
           IsFiniteSet({w \in Withdrawal : refund'[w] # "none"}),
           \A w \in Withdrawal : withdraw'[w] \in Inside =>
               withdraw[w] \in Inside \/ Ask[w].amount <= RealStake(Ask[w].builder)
    PROVE  StakeInv'
<1>1. \A b : RealStake(b)' = RealStake(b)
  <2>1. \A b : StakeOf(rows', b) = StakeOf(rows, b)
    OBVIOUS
  <2> QED
    BY <2>1, StakeIs
<1>2. TakersAreBacked'
  <2> SUFFICES ASSUME NEW w \in Withdrawal, withdraw'[w] \in Inside
               PROVE  Ask[w].amount <= RealStake(Ask[w].builder)'
    BY DEF TakersAreBacked
  <2> QED
    BY <1>1 DEF StakeInv, TakersAreBacked
<1>3. StakesStand'
  <2> SUFFICES ASSUME NEW b \in Builder
               PROVE  RealStake(b)' >= 0
    BY DEF StakesStand
  <2> QED
    BY <1>1 DEF StakeInv, StakesStand
<1>4. FinitelyMany'
  BY DEF StakeInv, FinitelyMany
<1> QED
  BY <1>2, <1>3, <1>4 DEF StakeInv

\* A deposit is recorded, or nothing happens to the rows.
LEMMA DepositStakes ==
    ASSUME CoreInv, StakeInv, NEW d \in Deposit, Depositing(d)
    PROVE  StakeInv'
<1>1. rows' \in {rows, rows \cup {d}} /\ UNCHANGED <<withdraw, refund>>
  BY DEF Depositing, LookForDuplicate, VerifyTransfer, RecordDeposit
<1>2. IsFiniteSet(rows) /\ IsFiniteSet(rows')
  BY <1>1, FS_AddElement DEF StakeInv, FinitelyMany
<1>3. \A b : RealStake(b) \in Int /\ RealStake(b)' \in Int /\ RealStake(b) <= RealStake(b)'
  <2> SUFFICES ASSUME NEW b
               PROVE  /\ StakeOf(rows, b) \in Int /\ StakeOf(rows', b) \in Int
                      /\ StakeOf(rows, b) <= StakeOf(rows', b)
    BY StakeIs
  <2>1. StakeOf(rows, b) \in Int /\ StakeOf(rows', b) \in Int
    BY <1>2, StakeType
  <2>2. StakeOf(rows, b) <= StakeOf(rows \cup {d}, b)
    BY <1>2, DepositAdds
  <2>3. CASE rows' = rows
    BY <2>1, <2>3
  <2>4. CASE rows' = rows \cup {d}
    <3>1. StakeOf(rows', b) = StakeOf(rows \cup {d}, b)
      BY <2>4, Zenon
    <3> QED
      BY <2>1, <2>2, <3>1
  <2> QED
    BY <1>1, <2>3, <2>4
<1>4. TakersAreBacked'
  <2> SUFFICES ASSUME NEW w \in Withdrawal, withdraw'[w] \in Inside
               PROVE  Ask[w].amount <= RealStake(Ask[w].builder)'
    BY DEF TakersAreBacked
  <2>1. Ask[w].amount <= RealStake(Ask[w].builder) /\ Ask[w].amount \in Nat
    BY <1>1, Amounts DEF StakeInv, TakersAreBacked
  <2> QED
    BY <1>3, <2>1
<1>5. StakesStand'
  <2> SUFFICES ASSUME NEW b \in Builder
               PROVE  RealStake(b)' >= 0
    BY DEF StakesStand
  <2> QED
    BY <1>3 DEF StakeInv, StakesStand
<1>6. FinitelyMany'
  BY <1>1, <1>2 DEF StakeInv, FinitelyMany
<1> QED
  BY <1>4, <1>5, <1>6 DEF StakeInv

\* A debit: its builder's other withdrawals are outside, its own amount was there.
LEMMA DebitStakes ==
    ASSUME CoreInv, StakeInv, NEW w \in Withdrawal, Debit(w)
    PROVE  StakeInv'
<1>1. Locked(w, "debit") /\ "debit" \in InLine /\ "debit" \in Inside
  BY DEF Debit, InLine, Inside
<1>2. PICK outcome \in {"done", "refused"} : Settle(w, outcome)
  BY DEF Debit
<1>3. rows' \in {rows, rows \cup {w}} /\ UNCHANGED refund
  BY DEF Debit
<1>4. IsFiniteSet(rows) /\ IsFiniteSet(rows')
  BY <1>3, FS_AddElement DEF StakeInv, FinitelyMany
<1>5. Ask[w].amount <= RealStake(Ask[w].builder) /\ Ask[w].amount \in Nat /\ Ask[w].builder \in Builder
  BY <1>1, UnderLock, Amounts DEF StakeInv, TakersAreBacked
<1>6. \A b : /\ RealStake(b) \in Int /\ RealStake(b)' \in Int
             /\ b = Ask[w].builder => RealStake(b) - Ask[w].amount <= RealStake(b)'
             /\ b # Ask[w].builder => RealStake(b)' = RealStake(b)
  <2> SUFFICES ASSUME NEW b
               PROVE  /\ StakeOf(rows, b) \in Int /\ StakeOf(rows', b) \in Int
                      /\ b = Ask[w].builder => StakeOf(rows, b) - Ask[w].amount <= StakeOf(rows', b)
                      /\ b # Ask[w].builder => StakeOf(rows', b) = StakeOf(rows, b)
    BY StakeIs
  <2>1. StakeOf(rows, b) \in Int /\ StakeOf(rows', b) \in Int
    BY <1>4, StakeType
  <2>2. /\ b = Ask[w].builder => StakeOf(rows, b) - Ask[w].amount <= StakeOf(rows \cup {w}, b)
        /\ b # Ask[w].builder => StakeOf(rows \cup {w}, b) = StakeOf(rows, b)
    BY <1>4, DebitTakes
  <2>3. CASE rows' = rows
    BY <1>5, <2>1, <2>3
  <2>4. CASE rows' = rows \cup {w}
    <3>1. StakeOf(rows', b) = StakeOf(rows \cup {w}, b)
      BY <2>4, Zenon
    <3> QED
      BY <2>1, <2>2, <3>1
  <2> QED
    BY <1>3, <2>3, <2>4
<1>7. \A v \in Withdrawal : withdraw'[v] \in Inside =>
          withdraw[v] \in Inside /\ Ask[v].builder # Ask[w].builder
  <2> SUFFICES ASSUME NEW v \in Withdrawal, withdraw'[v] \in Inside
               PROVE  withdraw[v] \in Inside /\ Ask[v].builder # Ask[w].builder
    OBVIOUS
  <2>1. v # w /\ withdraw[v] \in Inside
    BY <1>2, Parts DEF Settle, Goto, LineInv, Inside
  <2>2. Holds(v) /\ Holds(w)
    BY <1>1, <2>1, Parts, UnderLock DEF LineInv, WithdrawalsTakeTurns
  <2> QED
    BY <2>1, <2>2 DEF Holds
<1>8. TakersAreBacked'
  <2> SUFFICES ASSUME NEW v \in Withdrawal, withdraw'[v] \in Inside
               PROVE  Ask[v].amount <= RealStake(Ask[v].builder)'
    BY DEF TakersAreBacked
  <2> QED
    BY <1>6, <1>7 DEF StakeInv, TakersAreBacked
<1>9. StakesStand'
  <2> SUFFICES ASSUME NEW b \in Builder
               PROVE  RealStake(b)' >= 0
    BY DEF StakesStand
  <2>1. RealStake(b) >= 0
    BY DEF StakeInv, StakesStand
  <2>2. CASE b = Ask[w].builder
    BY <1>5, <1>6, <2>2
  <2>3. CASE b # Ask[w].builder
    BY <1>6, <2>1, <2>3
  <2> QED
    BY <2>2, <2>3
<1>10. FinitelyMany'
  BY <1>3, <1>4 DEF StakeInv, FinitelyMany
<1> QED
  BY <1>8, <1>9, <1>10 DEF StakeInv

\* The refunds known of: one more at most.
LEMMA SendFinite ==
    ASSUME CoreInv, StakeInv, NEW w \in Withdrawal, Send(w)
    PROVE  IsFiniteSet({v \in Withdrawal : refund'[v] # "none"})
<1>1. refund' = refund \/ refund' = [refund EXCEPT ![w] = "pending"]
  BY DEF Send
<1>2. {v \in Withdrawal : refund'[v] # "none"} \subseteq {v \in Withdrawal : refund[v] # "none"} \cup {w}
  BY <1>1, Parts DEF MoneyInv
<1>3. IsFiniteSet({v \in Withdrawal : refund[v] # "none"} \cup {w})
  BY FS_AddElement DEF StakeInv, FinitelyMany
<1> QED
  BY <1>2, <1>3, FS_Subset

LEMMA LandFinite ==
    ASSUME CoreInv, StakeInv, NEW w \in Withdrawal, Land(w)
    PROVE  IsFiniteSet({v \in Withdrawal : refund'[v] # "none"})
<1>1. {v \in Withdrawal : refund'[v] # "none"} \subseteq {v \in Withdrawal : refund[v] # "none"}
  BY Parts DEF Land, MoneyInv
<1> QED
  BY <1>1, FS_Subset DEF StakeInv, FinitelyMany

LEMMA StakeStep ==
    ASSUME CoreInv, StakeInv, [Next]_vars
    PROVE  StakeInv'
<1>0. /\ IsFiniteSet({w \in Withdrawal : refund[w] # "none"})
      /\ withdraw \in [Withdrawal -> WithdrawPhase]
  BY Parts DEF StakeInv, FinitelyMany, LineInv
<1>1. ASSUME NEW w \in Withdrawal, Begin(w) \/ CheckBets(w) \/ CheckTotal(w) \/ AwaitReceipt(w)
      PROVE  StakeInv'
  <2>1. /\ UNCHANGED <<rows, refund>>
        /\ \A v \in Withdrawal : withdraw'[v] \in Inside => withdraw[v] \in Inside
    BY <1>0, <1>1 DEF Begin, CheckBets, CheckTotal, AwaitReceipt, Locked, At, Settle, Goto, Inside
  <2> QED
    BY <1>0, <2>1, StakeUnmoved
<1>2. ASSUME NEW w \in Withdrawal, ReadReal(w)
      PROVE  StakeInv'
  <2>1. /\ UNCHANGED <<rows, refund>>
        /\ \A v \in Withdrawal : withdraw'[v] \in Inside =>
               withdraw[v] \in Inside \/ Ask[v].amount <= RealStake(Ask[v].builder)
    BY <1>0, <1>2 DEF ReadReal, Locked, At, Settle, Goto, Inside
  <2> QED
    BY <1>0, <2>1, StakeUnmoved
<1>3. ASSUME NEW w \in Withdrawal, Send(w)
      PROVE  StakeInv'
  <2>1. /\ UNCHANGED rows
        /\ \A v \in Withdrawal : withdraw'[v] \in Inside => withdraw[v] \in Inside
    BY <1>0, <1>3 DEF Send, Locked, At, Settle, Goto, Inside
  <2> QED
    BY <1>3, <2>1, SendFinite, StakeUnmoved
<1>4. ASSUME NEW w \in Withdrawal, Land(w)
      PROVE  StakeInv'
  <2>1. UNCHANGED <<rows, withdraw>>
    BY <1>4 DEF Land
  <2> QED
    BY <1>4, <2>1, LandFinite, StakeUnmoved
<1>5. CASE Restart
  <2>1. /\ UNCHANGED <<rows, refund>>
        /\ \A v \in Withdrawal : withdraw'[v] \in Inside => withdraw[v] \in Inside
    BY <1>5 DEF Restart, Inside, Running
  <2> QED
    BY <1>0, <2>1, StakeUnmoved
<1>6. ASSUME NEW x \in Bet, PriceBet(x) \/ InsertBet(x) \/ ResolveBet(x)
      PROVE  StakeInv'
  BY <1>0, <1>6, StakeUnmoved DEF PriceBet, InsertBet, ResolveBet, BetAt
<1>7. CASE UNCHANGED vaultVars
  BY <1>0, <1>7, StakeUnmoved DEF vaultVars
<1>8. UNCHANGED vars => UNCHANGED vaultVars
  BY DEF vars, vaultVars
<1> QED
  BY <1>1, <1>2, <1>3, <1>4, <1>5, <1>6, <1>7, <1>8, DepositStakes, DebitStakes DEF Next, Withdrawing

-----------------------------------------------------------------------------
(* The refunds, without a fault *)

\* A step that ends without a fault began without one and met none.
LEMMA NoFault ==
    ASSUME CoreInv, faults' = 0, faults' = faults \/ Fault
    PROVE  faults = 0 /\ ~Fault
BY Parts DEF OtherInv, Fault

LEMMA FaultsCount ==
    ASSUME CoreInv, [Next]_vars
    PROVE  faults' = faults \/ Fault
BY CheckingGood, Parts DEF Next, Depositing, LookForDuplicate, VerifyTransfer, RecordDeposit, Withdrawing,
   Begin, CheckBets, CheckTotal, ReadReal, Send, AwaitReceipt, Debit, Land, PriceBet, InsertBet, ResolveBet,
   BetAt, Tick, Restart, vars

\* What a withdrawal's step does to its refund and its row, when no call fails.
LEMMA TrackStep ==
    ASSUME CoreInv, RefundsAreTracked, [Next]_vars
    PROVE  RefundsAreTracked'
<1> SUFFICES ASSUME faults' = 0, NEW v \in Withdrawal
             PROVE  /\ refund'[v] = "pending" => withdraw'[v] = "sent"
                    /\ refund'[v] = "landed" => v \in rows' \/ withdraw'[v] \in {"sent", "debit"}
  BY DEF RefundsAreTracked
<1>0. faults = 0 /\ ~Fault
  BY FaultsCount, NoFault
<1>1. /\ refund[v] = "pending" => withdraw[v] = "sent"
      /\ refund[v] = "landed" => v \in rows \/ withdraw[v] \in {"sent", "debit"}
  BY <1>0 DEF RefundsAreTracked
<1>2. /\ withdraw \in [Withdrawal -> WithdrawPhase]
      /\ refund \in [Withdrawal -> {"none", "pending", "landed", "reverted"}]
      /\ withdraw[v] \in {"idle", "bets", "total", "queued", "ready"} => refund[v] = "none"
  BY Parts DEF LineInv, MoneyInv, RefundFollowsRun
<1>3. ASSUME NEW w \in Withdrawal, Withdrawing(w)
      PROVE  /\ refund'[v] = "pending" => withdraw'[v] = "sent"
             /\ refund'[v] = "landed" => v \in rows' \/ withdraw'[v] \in {"sent", "debit"}
  <2>1. CASE v # w
    <3>1. withdraw'[v] = withdraw[v] /\ refund'[v] = refund[v] /\ (v \in rows => v \in rows')
      BY <1>2, <1>3, <2>1 DEF Withdrawing, Begin, CheckBets, CheckTotal, ReadReal, Send, AwaitReceipt, Debit,
         Settle, Goto
    <3> QED
      BY <1>1, <3>1
  <2>2. CASE v = w
    <3>1. CASE Begin(w) \/ CheckBets(w) \/ CheckTotal(w) \/ ReadReal(w)
      BY <1>2, <2>2, <3>1 DEF Begin, CheckBets, CheckTotal, ReadReal, Locked, At
    <3>2. CASE Send(w)
      BY <1>0, <1>2, <2>2, <3>2 DEF Send, Goto
    <3>3. CASE AwaitReceipt(w)
      BY <1>0, <1>2, <2>2, <3>3 DEF AwaitReceipt, Goto
    <3>4. CASE Debit(w)
      BY <1>0, <1>1, <1>2, <2>2, <3>4 DEF Debit, Locked, At
    <3> QED
      BY <1>3, <3>1, <3>2, <3>3, <3>4 DEF Withdrawing
  <2> QED
    BY <2>1, <2>2
<1>4. ASSUME NEW w \in Withdrawal, Land(w)
      PROVE  /\ refund'[v] = "pending" => withdraw'[v] = "sent"
             /\ refund'[v] = "landed" => v \in rows' \/ withdraw'[v] \in {"sent", "debit"}
  BY <1>1, <1>2, <1>4 DEF Land
<1>5. ASSUME NEW d \in Deposit, Depositing(d)
      PROVE  UNCHANGED <<withdraw, refund>> /\ rows \subseteq rows'
  BY <1>5 DEF Depositing, LookForDuplicate, VerifyTransfer, RecordDeposit
<1>6. ~Restart
  BY <1>0 DEF Restart
<1>7. ASSUME NEW x \in Bet, PriceBet(x) \/ InsertBet(x) \/ ResolveBet(x)
      PROVE  UNCHANGED <<withdraw, refund, rows>>
  BY <1>7 DEF PriceBet, InsertBet, ResolveBet, BetAt
<1>8. UNCHANGED vars \/ UNCHANGED vaultVars => UNCHANGED <<withdraw, refund, rows>>
  BY DEF vars, vaultVars
<1> QED
  BY <1>1, <1>3, <1>4, <1>5, <1>6, <1>7, <1>8 DEF Next

-----------------------------------------------------------------------------
(* The bets *)

BetInv == BarredBetsRest /\ OpenBetsHold

\* What is left open of the bets a run is barred by.
LEMMA BetStep ==
    ASSUME CoreInv, BetInv, [Next]_vars
    PROVE  BetInv'
<1> DEFINE Rests(w) == \A x \in barred[w] :
                          /\ Bettor[x] = Ask[w].builder
                          /\ bets[x] \in {"open", "resolved"}
                          /\ faults = 0 /\ withdraw[w] \in {"total", "queued", "ready"} => bets[x] = "resolved"
           Clear(w) == faults = 0 /\ refund[w] # "none" => barred[w] = {}
<1>0. faults' = 0 => faults = 0 /\ ~Fault
  BY FaultsCount, NoFault
<1>1. /\ withdraw \in [Withdrawal -> WithdrawPhase]
      /\ refund \in [Withdrawal -> {"none", "pending", "landed", "reverted"}]
      /\ barred \in [Withdrawal -> SUBSET Bet]
      /\ bets \in [Bet -> {"none", "priced", "open", "resolved"}]
      /\ \A w \in Withdrawal : withdraw[w] = "idle" => refund[w] = "none"
  BY Parts DEF LineInv, MoneyInv, RefundFollowsRun, OtherInv
<1>2. \A w \in Withdrawal : Rests(w) /\ Clear(w)
  BY DEF BetInv, BarredBetsRest, OpenBetsHold
<1> SUFFICES ASSUME NEW v \in Withdrawal
             PROVE  Rests(v)' /\ Clear(v)'
  BY DEF BetInv, BarredBetsRest, OpenBetsHold
<1>3. ASSUME NEW w \in Withdrawal, Withdrawing(w), v # w
      PROVE  Rests(v)' /\ Clear(v)'
  <2>1. /\ withdraw'[v] = withdraw[v] /\ refund'[v] = refund[v] /\ barred'[v] = barred[v]
        /\ UNCHANGED bets
    BY <1>1, <1>3 DEF Withdrawing, Begin, CheckBets, CheckTotal, ReadReal, Send, AwaitReceipt, Debit,
       Settle, Goto
  <2> QED
    BY <1>0, <1>2, <2>1
<1>4. CASE Begin(v)
  <2>1. /\ barred'[v] = OpenBets(Ask[v].builder) /\ withdraw'[v] = "bets" /\ refund'[v] = "none"
        /\ UNCHANGED bets
    BY <1>1, <1>4 DEF Begin, At, Goto
  <2> QED
    BY <2>1 DEF OpenBets
<1>5. CASE CheckBets(v)
  <2>1. /\ UNCHANGED <<barred, bets, refund>>
        /\ withdraw'[v] \in {"refused", "total"}
        /\ faults' = 0 /\ withdraw'[v] = "total" => OpenBets(Ask[v].builder) = {}
    BY <1>0, <1>1, <1>5 DEF CheckBets, Goto
  <2>2. OpenBets(Ask[v].builder) = {} => \A x \in barred[v] : bets[x] = "resolved"
    BY <1>1, <1>2 DEF OpenBets
  <2> QED
    BY <1>0, <1>2, <2>1, <2>2
<1>6. CASE CheckTotal(v) \/ ReadReal(v)
  <2>1. /\ UNCHANGED <<barred, bets, refund>>
        /\ withdraw[v] \in {"total", "queued"}
    BY <1>6 DEF CheckTotal, ReadReal, Locked, At
  <2> QED
    BY <1>0, <1>2, <2>1
<1>7. CASE Send(v)
  <2>1. /\ UNCHANGED bets /\ barred'[v] = barred[v] \cap OpenBets(Ask[v].builder)
        /\ withdraw[v] = "ready" /\ withdraw'[v] \in {"sent", "refused"}
    BY <1>1, <1>7 DEF Send, Locked, At, Settle, Goto
  <2>2. faults = 0 => barred'[v] = {}
    BY <1>2, <2>1 DEF OpenBets
  <2> QED
    BY <1>0, <1>2, <2>1, <2>2
<1>8. CASE AwaitReceipt(v) \/ Debit(v)
  <2>1. /\ UNCHANGED <<barred, bets, refund>>
        /\ withdraw'[v] \in {"debit", "refused", "done"}
    BY <1>1, <1>8 DEF AwaitReceipt, Debit, Settle, Goto
  <2> QED
    BY <1>0, <1>2, <2>1
<1>9. ASSUME NEW w \in Withdrawal, Land(w)
      PROVE  Rests(v)' /\ Clear(v)'
  <2>1. UNCHANGED <<barred, bets, withdraw, faults>> /\ (refund'[v] # "none" => refund[v] # "none")
    BY <1>1, <1>9 DEF Land
  <2> QED
    BY <1>2, <2>1
<1>10. ASSUME NEW x \in Bet, PriceBet(x) \/ InsertBet(x) \/ ResolveBet(x)
       PROVE  Rests(v)' /\ Clear(v)'
  <2>1. /\ UNCHANGED <<barred, withdraw, refund, faults>>
        /\ \A y \in Bet : /\ bets[y] = "resolved" => bets'[y] = "resolved"
                          /\ bets[y] = "open" => bets'[y] \in {"open", "resolved"}
    BY <1>1, <1>10 DEF PriceBet, InsertBet, ResolveBet, BetAt
  <2> QED
    BY <1>1, <1>2, <2>1
<1>11. CASE Restart
  <2>1. /\ UNCHANGED <<barred, refund>> /\ faults' # 0
        /\ \A y \in Bet : bets[y] \in {"open", "resolved"} => bets'[y] = bets[y]
    BY <1>0, <1>1, <1>11 DEF Restart
  <2> QED
    BY <1>1, <1>2, <2>1
<1>12. ASSUME UNCHANGED <<barred, bets, withdraw, refund>>
       PROVE  Rests(v)' /\ Clear(v)'
  BY <1>0, <1>2, <1>12
<1>13. ASSUME NEW d \in Deposit, Depositing(d)
       PROVE  UNCHANGED <<barred, bets, withdraw, refund>>
  BY <1>13 DEF Depositing, LookForDuplicate, VerifyTransfer, RecordDeposit
<1>14. UNCHANGED vars \/ UNCHANGED vaultVars => UNCHANGED <<barred, bets, withdraw, refund>>
  BY DEF vars, vaultVars
<1> HIDE DEF Rests, Clear
<1> QED
  BY <1>3, <1>4, <1>5, <1>6, <1>7, <1>8, <1>9, <1>10, <1>11, <1>12, <1>13, <1>14 DEF Next, Withdrawing

-----------------------------------------------------------------------------
(* All of it *)

LEMMA Together ==
    /\ IInv <=> CoreInv /\ StakeInv /\ RefundsAreTracked /\ BetInv
    /\ IInv' <=> CoreInv' /\ StakeInv' /\ RefundsAreTracked' /\ BetInv'
BY DEF IInv, CoreInv, TypeOK, ApprovalInv, LineInv, MoneyInv, OtherInv, StakeInv, BetInv

LEMMA InitGood ==
    ASSUME Init
    PROVE  IInv
<1>1. CoreInv
  BY CoreInit
<1>2. StakeInv
  <2>1. {w \in Withdrawal : refund[w] # "none"} = {} /\ rows = {}
    BY DEF Init
  <2>2. FinitelyMany
    BY <2>1, FS_EmptySet DEF FinitelyMany
  <2>3. TakersAreBacked
    BY DEF Init, TakersAreBacked, Inside
  <2>4. StakesStand
    <3> SUFFICES ASSUME NEW b \in Builder
                 PROVE  RealStake(b) >= 0
      BY DEF StakesStand
    <3>1. DepositsOf(b) = {} /\ DebitsOf(b) = {}
      BY <2>1 DEF DepositsOf, DebitsOf
    <3>2. SumFunctionOnSet(Claimed, DepositsOf(b)) = 0 /\ SumFunctionOnSet(Asked, DebitsOf(b)) = 0
      BY <3>1, SumEmpty, Zenon
    <3> QED
      BY <3>2 DEF RealStake
  <2> QED
    BY <2>2, <2>3, <2>4 DEF StakeInv
<1>3. RefundsAreTracked /\ BetInv
  BY DEF Init, RefundsAreTracked, BetInv, BarredBetsRest, OpenBetsHold
<1> QED
  BY <1>1, <1>2, <1>3, Together

LEMMA StepGood ==
    ASSUME IInv, [Next]_vars
    PROVE  IInv'
<1>1. CoreInv' /\ StakeInv' /\ RefundsAreTracked' /\ BetInv'
  BY Together, CoreStep, StakeStep, TrackStep, BetStep
<1> QED
  BY <1>1, Together

\* Who is in the middle of a refund is one run, and its stake is there.
LEMMA Covered ==
    ASSUME IInv
    PROVE  RefundsCovered
<1>0. CoreInv /\ StakeInv /\ RefundsAreTracked
  BY Together
<1>1. ASSUME NEW b \in Builder, faults = 0
      PROVE  SumFunctionOnSet(Asked, Leaving(b)) <= SumFunctionOnSet(Claimed, DepositsOf(b))
  <2>1. IsFiniteSet(DepositsOf(b)) /\ IsFiniteSet(DebitsOf(b))
    BY <1>0, FS_Subset DEF StakeInv, FinitelyMany, DepositsOf, DebitsOf
  <2>2. /\ SumFunctionOnSet(Claimed, DepositsOf(b)) \in Int
        /\ SumFunctionOnSet(Asked, DebitsOf(b)) \in Int
    <3>1. \A d \in DepositsOf(b) : Claimed[d] \in Int
      BY Amounts DEF DepositsOf
    <3>2. \A w \in DebitsOf(b) : Asked[w] \in Int
      BY Amounts DEF DebitsOf
    <3> QED
      BY <2>1, <3>1, <3>2, SumType
  <2>3. SumFunctionOnSet(Asked, DebitsOf(b)) <= SumFunctionOnSet(Claimed, DepositsOf(b))
    <3>1. RealStake(b) >= 0
      BY <1>0 DEF StakeInv, StakesStand
    <3> QED
      BY <2>2, <3>1 DEF RealStake
  <2>4. \A w \in Leaving(b) : w \in DebitsOf(b) \/ withdraw[w] \in {"sent", "debit"}
    BY <1>0, <1>1 DEF Leaving, DebitsOf, RefundsAreTracked
  <2>5. CASE Leaving(b) \subseteq DebitsOf(b)
    <3>1. \A w \in DebitsOf(b) : Asked[w] \in Nat
      BY Amounts DEF DebitsOf
    <3>2. /\ SumFunctionOnSet(Asked, Leaving(b)) \in Nat
          /\ SumFunctionOnSet(Asked, Leaving(b)) <= SumFunctionOnSet(Asked, DebitsOf(b))
      BY <2>1, <2>5, <3>1, SumOfPart
    <3> QED
      BY <2>2, <2>3, <3>2
  <2>6. ASSUME NEW w \in Leaving(b), w \notin DebitsOf(b)
        PROVE  SumFunctionOnSet(Asked, Leaving(b)) <= SumFunctionOnSet(Claimed, DepositsOf(b))
    <3>1. w \in Withdrawal /\ Ask[w].builder = b /\ withdraw[w] \in Inside
      BY <2>4, <2>6 DEF Leaving, Inside
    <3>2. \A v \in Leaving(b) : v \in DebitsOf(b) \/ v = w
      <4> SUFFICES ASSUME NEW v \in Leaving(b), v \notin DebitsOf(b)
                   PROVE  v = w
        OBVIOUS
      <4>1. v \in Withdrawal /\ Ask[v].builder = b /\ withdraw[v] \in Inside
        BY <2>4 DEF Leaving, Inside
      <4>2. Holds(v) /\ Holds(w)
        BY <1>0, <3>1, <4>1, Parts DEF LineInv, WithdrawalsTakeTurns
      <4> QED
        BY <3>1, <4>1, <4>2 DEF Holds
    <3>3. IsFiniteSet(DebitsOf(b) \cup {w}) /\ \A v \in DebitsOf(b) \cup {w} : Asked[v] \in Nat
      BY <2>1, <3>1, Amounts, FS_AddElement DEF DebitsOf
    <3>4. /\ SumFunctionOnSet(Asked, Leaving(b)) \in Nat
          /\ SumFunctionOnSet(Asked, Leaving(b)) <= SumFunctionOnSet(Asked, DebitsOf(b) \cup {w})
      <4>1. Leaving(b) \subseteq DebitsOf(b) \cup {w}
        BY <3>2
      <4> QED
        BY <3>3, <4>1, SumOfPart
    <3>5. SumFunctionOnSet(Asked, DebitsOf(b) \cup {w}) = SumFunctionOnSet(Asked, DebitsOf(b)) + Asked[w]
      BY <2>1, <2>6, <3>3, SumAdd
    <3>6. Asked[w] \in Nat /\ Asked[w] <= RealStake(b)
      BY <1>0, <3>1, Amounts DEF StakeInv, TakersAreBacked
    <3> QED
      BY <2>2, <3>4, <3>5, <3>6 DEF RealStake
  <2> QED
    BY <2>5, <2>6
<1>2. ASSUME NEW w \in Withdrawal, faults = 0, refund[w] = "landed"
      PROVE  w \in rows \/ withdraw[w] \in {"sent", "debit"}
  BY <1>0, <1>2 DEF RefundsAreTracked
<1>3. \A b \in Builder : RealStake(b) >= 0
  BY <1>0 DEF StakeInv, StakesStand
<1> QED
  BY <1>1, <1>2, <1>3 DEF RefundsCovered

-----------------------------------------------------------------------------
(* The theorems *)

(***************************************************************************)
(* The inductive invariant: what has passed is in the table of nonces, who *)
(* touches a builder's money is first in its line, and a run's refund is   *)
(* where its phase says.                                                   *)
(***************************************************************************)
THEOREM VaultInvariantHolds == Spec => []IInv
<1>1. Init => IInv
  BY InitGood
<1>2. IInv /\ [Next]_vars => IInv'
  BY StepGood
<1> QED
  BY <1>1, <1>2, PTL DEF Spec

\* Every reachable state is well typed, and no withdrawal runs without its
\* approval (POST /stake/withdraw).
THEOREM VaultTyped == Spec => []TypeOK
<1>1. IInv => TypeOK
  BY DEF IInv
<1> QED
  BY <1>1, VaultInvariantHolds, PTL

\* One approval, one request, through any number of failures and restarts
\* (checkOwnerAuthorization and the primary key of owner_auth_nonces).
THEOREM ApprovalsPassOnce == Spec => []ApprovalPassesOnce
<1>1. IInv => ApprovalPassesOnce
  BY DEF IInv
<1> QED
  BY <1>1, VaultInvariantHolds, PTL

\* A debit names a refund that landed (withdrawStake: refund first, debit after).
THEOREM DebitsNameRefunds == Spec => []DebitsAreRefunds
<1>1. IInv => DebitsAreRefunds
  BY DEF IInv
<1> QED
  BY <1>1, VaultInvariantHolds, PTL

\* Between its reading of the stake and its debit a withdrawal is the first in
\* its builder's line (serializeWithdraw), whatever throws or restarts.
THEOREM LockExcludes == Spec => []WithdrawalsTakeTurns
<1>1. IInv => WithdrawalsTakeTurns
  BY DEF IInv
<1> QED
  BY <1>1, VaultInvariantHolds, PTL

\* A builder's verified stake never goes below nothing, and without a fault what
\* leaves the escrow for it is within its deposits and ends up debited
\* (withdrawStake under serializeWithdraw).
THEOREM RefundsAreCovered == Spec => []RefundsCovered
<1>1. IInv => RefundsCovered
  BY Covered
<1> QED
  BY <1>1, VaultInvariantHolds, PTL

\* As long as no read fails, a bet that was open when its builder asked, and
\* still is, keeps the refund from being sent (withdrawStake's first check).
THEOREM OpenBetsBar == Spec => []OpenBetsHold
<1>1. IInv => OpenBetsHold
  BY DEF IInv
<1> QED
  BY <1>1, VaultInvariantHolds, PTL
=============================================================================
