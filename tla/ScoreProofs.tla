----------------------------- MODULE ScoreProofs -----------------------------
(***************************************************************************)
(* Theorems about score updates, for any agents, receipts, runs, prices,   *)
(* budgets and any number of faults.                                       *)
(***************************************************************************)
EXTENDS ScoreInvariant, FailedReceiptSettler, DataLemmas

-----------------------------------------------------------------------------
(* Numbers *)

LEMMA ClampInside ==
    ASSUME NEW n \in Int
    PROVE  Clamp(n) \in Floor .. Ceiling
BY ScoreAssumption DEF Clamp

LEMMA GrantedIsInt ==
    ASSUME TypeOK, NEW s \in Slot, run[s].input \in Input, run[s].input.domain \in Domain
    PROVE  Granted(s) \in Int
<1>1. DayKey(s) \in Key
  BY DEF DayKey, TypeOK, Input, Key
<1>2. DomainKey(s) \in Key
  BY DEF DomainKey, TypeOK, Input, Key
<1>3. booked[DayKey(s)] \in Int /\ booked[DomainKey(s)] \in Int
  BY <1>1, <1>2 DEF TypeOK
<1> QED
  BY <1>3, ScoreAssumption DEF Granted, Least

-----------------------------------------------------------------------------
(* Who owns a spent receipt *)

\* A receipt that can be claimed has no owner, and once spent no rival.
LEMMA SpendGood ==
    ASSUME CoreInv, NEW r \in Receipt, Claimable(r), Spend(r)
    PROVE  /\ receipts' \in [Receipt -> {"absent", "fresh", "spent"}]
           /\ receipts[r] = "fresh" /\ receipts'[r] = "spent"
           /\ \A q \in Receipt : receipts[q] = "spent" => receipts'[q] = "spent"
           /\ WorkPaidOnce'
<1>1. /\ receipts' \in [Receipt -> {"absent", "fresh", "spent"}]
      /\ receipts[r] = "fresh" /\ receipts'[r] = "spent"
      /\ \A q \in Receipt \ {r} : receipts'[q] = receipts[q]
  BY DEF CoreInv, TypeOK, Claimable, Spend
<1>2. ASSUME NEW q \in Receipt \ {r}, receipts[q] = "spent",
             About[q].status = "VERIFIED", About[r].status = "VERIFIED"
      PROVE  ~SameWork(r, q) /\ ~SameWork(q, r)
  BY <1>2 DEF Claimable, PaidAlready, SameWork
<1>3. WorkPaidOnce'
  <2> SUFFICES ASSUME NEW p \in Receipt, NEW q \in Receipt, p # q,
                      receipts'[p] = "spent", receipts'[q] = "spent",
                      About[p].status = "VERIFIED", About[q].status = "VERIFIED"
               PROVE  ~SameWork(p, q)
    BY DEF WorkPaidOnce, SameWork
  <2>1. CASE p = r
    BY <1>1, <1>2, <2>1
  <2>2. CASE q = r
    BY <1>1, <1>2, <2>2
  <2>3. CASE p # r /\ q # r
    BY <1>1, <2>3 DEF CoreInv, WorkPaidOnce
  <2> QED
    BY <2>1, <2>2, <2>3
<1> QED
  BY <1>1, <1>3

\* A run moves that does not become an owner; spent receipts stay spent.
LEMMA QuietKeepsOwners ==
    ASSUME OwnersDiffer, NEW s \in Slot,
           \A t \in Slot \ {s} : run'[t] = run[t],
           ~Holder(s)',
           UNCHANGED events,
           \A q \in Receipt : receipts[q] = "spent" => receipts'[q] = "spent"
    PROVE  OwnersDiffer'
BY DEF OwnersDiffer, Holder, PaysFor

\* A run becomes the owner of a receipt nobody owned.
LEMMA TakerOwns ==
    ASSUME OwnersDiffer, NEW s \in Slot, NEW r \in Receipt,
           \A t \in Slot \ {s} : run'[t] = run[t],
           run'[s].input.receipt = r,
           run'[s].delta > 0 => About[r].status = "VERIFIED",
           UNCHANGED events,
           receipts[r] = "fresh", receipts'[r] = "spent",
           \A q \in Receipt : receipts[q] = "spent" => receipts'[q] = "spent"
    PROVE  OwnersDiffer'
<1>1. \A t \in Slot : Holder(t) => run[t].input.receipt # r
  BY DEF OwnersDiffer, PaysFor
<1>2. \A i \in 1 .. Len(events) : events[i].spent => events[i].receipt # r
  BY DEF OwnersDiffer, PaysFor
<1>3. \A t \in Slot \ {s} : Holder(t)' <=> Holder(t)
  BY DEF Holder
<1>4. \A t \in Slot : Holder(t)' => PaysFor(run[t].input.receipt, run[t].delta)'
  BY <1>3 DEF OwnersDiffer, PaysFor
<1>5. \A i \in 1 .. Len(events) : events[i].spent => PaysFor(events[i].receipt, events[i].delta)'
  BY DEF OwnersDiffer, PaysFor
<1>6. \A t, u \in Slot : Holder(t)' /\ Holder(u)' /\ t # u => run'[t].input.receipt # run'[u].input.receipt
  BY <1>1, <1>3 DEF OwnersDiffer
<1>7. \A t \in Slot, i \in 1 .. Len(events) :
          Holder(t)' /\ events[i].spent => run'[t].input.receipt # events[i].receipt
  BY <1>2, <1>3 DEF OwnersDiffer
<1> QED
  BY <1>4, <1>5, <1>6, <1>7 DEF OwnersDiffer

\* The receipt of an owner passes to the row it writes.
LEMMA RowOwns ==
    ASSUME OwnersDiffer, NEW s \in Slot, NEW row, events \in Seq(EventRow), row \in EventRow,
           \A t \in Slot \ {s} : run'[t] = run[t],
           run[s].pc = "priced", run'[s].pc # "priced",
           row.spent = run[s].spent, row.receipt = run[s].input.receipt, row.delta = run[s].delta,
           events' = Append(events, row),
           UNCHANGED receipts
    PROVE  OwnersDiffer'
<1>1. \A t \in Slot : Holder(t)' => Holder(t) /\ t # s /\ run'[t] = run[t]
  BY DEF Holder
<1>2. /\ Len(events') = Len(events) + 1 /\ Len(events) \in Nat
      /\ \A i \in 1 .. Len(events) : events'[i] = events[i]
      /\ events'[Len(events) + 1] = row
  OBVIOUS
<1>3. \A i \in 1 .. Len(events') : i \in 1 .. Len(events) \/ i = Len(events) + 1
  BY <1>2
<1>4. row.spent => /\ Holder(s) /\ PaysFor(row.receipt, row.delta)
                   /\ \A i \in 1 .. Len(events) : events[i].spent => events[i].receipt # row.receipt
                   /\ \A t \in Slot \ {s} : Holder(t) => run[t].input.receipt # row.receipt
  BY DEF OwnersDiffer, Holder
<1>5. \A t \in Slot : Holder(t)' => PaysFor(run[t].input.receipt, run[t].delta)'
  BY <1>1 DEF OwnersDiffer, PaysFor
<1>6. \A i \in 1 .. Len(events') : events'[i].spent => PaysFor(events[i].receipt, events[i].delta)'
  BY <1>2, <1>3, <1>4 DEF OwnersDiffer, PaysFor
<1>7. \A t, u \in Slot : Holder(t)' /\ Holder(u)' /\ t # u => run'[t].input.receipt # run'[u].input.receipt
  BY <1>1 DEF OwnersDiffer
<1>8. \A t \in Slot, i \in 1 .. Len(events') :
          Holder(t)' /\ events'[i].spent => run'[t].input.receipt # events'[i].receipt
  BY <1>1, <1>2, <1>3, <1>4 DEF OwnersDiffer
<1>9. \A i, j \in 1 .. Len(events') :
          i # j /\ events'[i].spent /\ events'[j].spent => events'[i].receipt # events'[j].receipt
  BY <1>2, <1>3, <1>4 DEF OwnersDiffer
<1> QED
  BY <1>5, <1>6, <1>7, <1>8, <1>9 DEF OwnersDiffer

-----------------------------------------------------------------------------
(* How a run moves *)

\* The record of a run that moves is typed, and so are the others.
LEMMA MoveTyped ==
    ASSUME RunsAreTyped, NEW s \in Slot, NEW rec \in RunRecord, run' = [run EXCEPT ![s] = rec],
           rec.pc # "idle" => rec.input \in Input /\ rec.before \in Floor .. Ceiling,
           rec.pc \in {"fetched", "reserving", "claiming"} => rec.input.receipt \in Receipt /\ ~rec.spent,
           rec.pc = "reserving" =>
               rec.input.domain \in Domain /\ About[rec.input.receipt].status = "VERIFIED",
           rec.pc = "idle" => ~rec.spent
    PROVE  /\ RunsAreTyped'
           /\ run'[s] = rec
           /\ \A t \in Slot \ {s} : run'[t] = run[t]
<1>1. /\ run' \in [Slot -> RunRecord]
      /\ run'[s] = rec
      /\ \A t \in Slot \ {s} : run'[t] = run[t]
  BY DEF RunsAreTyped
<1> QED
  BY <1>1 DEF RunsAreTyped

\* The three ways a run that asks the database goes on.
LEMMA HoldMoves ==
    ASSUME RunsAreTyped, NEW s \in Slot, run[s].pc \in {"fetched", "reserving", "claiming"}, Hold(s)
    PROVE  /\ RunsAreTyped' /\ ~Holder(s)' /\ run'[s].pc = "priced"
           /\ \A t \in Slot \ {s} : run'[t] = run[t]
<1>0. PICK zero \in Int : zero = 0
  OBVIOUS
<1> DEFINE rec == [run[s] EXCEPT !.pc = "priced", !.delta = zero, !.hold = TRUE]
<1>1. run[s] \in RunRecord
  BY DEF RunsAreTyped
<1>2. rec \in RunRecord
  BY <1>1 DEF RunRecord, Phase
<1>3. rec.pc = "priced" /\ rec.spent = run[s].spent /\ rec.input = run[s].input
      /\ rec.before = run[s].before
  BY <1>1 DEF RunRecord
<1>4. run' = [run EXCEPT ![s] = rec]
  BY <1>0, <1>1 DEF Hold, RunsAreTyped, RunRecord
<1> HIDE DEF rec
<1>5. RunsAreTyped' /\ run'[s] = rec /\ \A t \in Slot \ {s} : run'[t] = run[t]
  BY <1>2, <1>3, <1>4, MoveTyped DEF RunsAreTyped
<1> QED
  BY <1>3, <1>5 DEF Holder, RunsAreTyped

LEMMA SpentMoves ==
    ASSUME TypeOK, RunsAreTyped, NEW s \in Slot, run[s].pc \in {"reserving", "claiming"},
           NEW delta \in Int, Spent(s, delta)
    PROVE  /\ RunsAreTyped'
           /\ run'[s].input = run[s].input /\ run'[s].delta = delta
           /\ run'[s].day = today /\ Holder(s)'
           /\ \A t \in Slot \ {s} : run'[t] = run[t]
<1> DEFINE rec == [run[s] EXCEPT !.pc = "priced", !.delta = delta, !.spent = TRUE, !.day = today]
<1>1. run[s] \in RunRecord /\ today \in Days
  BY DEF RunsAreTyped, TypeOK
<1>2. rec \in RunRecord /\ rec.pc = "priced" /\ rec.delta = delta /\ rec.spent /\ rec.day = today
      /\ rec.input = run[s].input /\ rec.before = run[s].before
  BY <1>1 DEF RunRecord, Phase
<1>3. run' = [run EXCEPT ![s] = rec]
  BY <1>1 DEF Spent, RunsAreTyped, RunRecord
<1> HIDE DEF rec
<1>4. RunsAreTyped' /\ run'[s] = rec /\ \A t \in Slot \ {s} : run'[t] = run[t]
  BY <1>2, <1>3, MoveTyped DEF RunsAreTyped
<1> QED
  BY <1>2, <1>4 DEF Holder

LEMMA GotoMoves ==
    ASSUME RunsAreTyped, NEW s \in Slot, run[s].pc # "idle", NEW pc \in Phase \ {"idle"}, Goto(s, pc),
           pc \in {"fetched", "reserving", "claiming"} =>
               run[s].input.receipt \in Receipt /\ ~run[s].spent,
           pc = "reserving" =>
               run[s].input.domain \in Domain /\ About[run[s].input.receipt].status = "VERIFIED"
    PROVE  /\ RunsAreTyped'
           /\ run'[s].pc = pc
           /\ \A t \in Slot \ {s} : run'[t] = run[t]
<1> DEFINE rec == [run[s] EXCEPT !.pc = pc]
<1>1. run[s] \in RunRecord
  BY DEF RunsAreTyped
<1>2. rec \in RunRecord /\ rec.pc = pc /\ rec.spent = run[s].spent
      /\ rec.input = run[s].input /\ rec.before = run[s].before
  BY <1>1 DEF RunRecord
<1>3. run' = [run EXCEPT ![s] = rec]
  BY <1>1 DEF Goto, RunsAreTyped, RunRecord
<1> HIDE DEF rec
<1>4. RunsAreTyped' /\ run'[s] = rec /\ \A t \in Slot \ {s} : run'[t] = run[t]
  BY <1>2, <1>3, MoveTyped DEF RunsAreTyped
<1> QED
  BY <1>2, <1>4

-----------------------------------------------------------------------------
(* The steps *)

\* The types of all but the runs, when nothing but the runs moves.
LEMMA RestTyped ==
    ASSUME TypeOK, RunsAreTyped', UNCHANGED <<applier, score, events, booked>>,
           receipts' \in [Receipt -> {"absent", "fresh", "spent"}], today' \in Days
    PROVE  TypeOK'
<1>1. \A s \in Slot : run'[s].pc \in Phase
  BY DEF RunsAreTyped, RunRecord
<1> QED
  BY <1>1 DEF TypeOK

\* A run moves that owns nothing; nothing else does.
LEMMA QuietGood ==
    ASSUME CoreInv, NEW s \in Slot, RunsAreTyped', ~Holder(s)',
           \A t \in Slot \ {s} : run'[t] = run[t],
           UNCHANGED <<db, applier>>, today' \in Days
    PROVE  CoreInv'
<1>1. TypeOK'
  BY RestTyped DEF CoreInv, TypeOK, db
<1>2. OwnersDiffer'
  BY QuietKeepsOwners DEF CoreInv, db
<1>3. WorkPaidOnce'
  BY DEF CoreInv, db, WorkPaidOnce, SameWork
<1> QED
  BY <1>1, <1>2, <1>3 DEF CoreInv

\* A run begins: it has read a score, and owns nothing.
LEMMA FetchMoves ==
    ASSUME CoreInv, NEW s \in Slot, NEW input \in Input, Fetch(s, input)
    PROVE  /\ RunsAreTyped' /\ ~Holder(s)' /\ run'[s].pc # "written"
           /\ \A t \in Slot \ {s} : run'[t] = run[t]
           /\ UNCHANGED <<db, env>>
<1> DEFINE before == score[input.agent]
<1>1. PICK d \in Decays :
        run' = [run EXCEPT ![s] =
                  [Idle EXCEPT !.pc      = IF input.receipt = None THEN "priced" ELSE "fetched",
                               !.input   = input,
                               !.before  = before,
                               !.decayed = IF before - d < Floor THEN Floor ELSE before - d,
                               !.delta   = input.price]]
  BY DEF Fetch
<1> DEFINE rec == [Idle EXCEPT !.pc      = IF input.receipt = None THEN "priced" ELSE "fetched",
                               !.input   = input,
                               !.before  = before,
                               !.decayed = IF before - d < Floor THEN Floor ELSE before - d,
                               !.delta   = input.price]
<1>2. before \in Floor .. Ceiling /\ d \in Nat /\ Floor \in Nat /\ Ceiling \in Nat /\ input.price \in Int
  BY ScoreAssumption DEF CoreInv, TypeOK, Input
<1>3. /\ rec \in RunRecord /\ rec.pc \in {"priced", "fetched"} /\ rec.input = input
      /\ rec.before = before /\ ~rec.spent
      /\ rec.pc = "fetched" => input.receipt \in Receipt
  <2> DEFINE pc == IF input.receipt = None THEN "priced" ELSE "fetched"
             decayed == IF before - d < Floor THEN Floor ELSE before - d
  <2>1. Idle \in RunRecord /\ ~Idle.spent
    BY ScoreAssumption DEF Idle, RunRecord, Phase, Days
  <2>2. pc \in {"priced", "fetched"} /\ (pc = "fetched" => input.receipt \in Receipt)
    BY DEF Input
  <2>3. decayed \in Int /\ before \in Int
    BY <1>2
  <2>4. rec = [Idle EXCEPT !.pc = pc, !.input = input, !.before = before,
                           !.decayed = decayed, !.delta = input.price]
    OBVIOUS
  <2> HIDE DEF pc, decayed, before, rec
  <2> QED
    BY <1>2, <2>1, <2>2, <2>3, <2>4 DEF RunRecord, Phase
<1>4. run' = [run EXCEPT ![s] = rec]
  BY <1>1
<1> HIDE DEF rec
<1>5. RunsAreTyped' /\ run'[s] = rec /\ \A t \in Slot \ {s} : run'[t] = run[t]
  BY <1>2, <1>3, <1>4, MoveTyped DEF CoreInv
<1> QED
  BY <1>3, <1>5 DEF Fetch, Holder

LEMMA FetchGood ==
    ASSUME CoreInv, NEW s \in Slot, NEW input \in Input, Fetch(s, input)
    PROVE  CoreInv'
BY FetchMoves, QuietGood DEF env, CoreInv, TypeOK

LEMMA ConfirmMoves ==
    ASSUME CoreInv, NEW s \in Slot, Confirm(s)
    PROVE  /\ RunsAreTyped' /\ ~Holder(s)' /\ run'[s].pc # "written"
           /\ \A t \in Slot \ {s} : run'[t] = run[t]
           /\ UNCHANGED <<db, env>>
<1>1. run[s].pc = "fetched" /\ UNCHANGED <<db, env>>
  BY DEF Confirm, At
<1>2. run[s].input \in Input /\ run[s].input.receipt \in Receipt /\ ~run[s].spent
  BY <1>1 DEF CoreInv, RunsAreTyped
<1>3. RunsAreTyped' /\ ~Holder(s)' /\ run'[s].pc # "written" /\ \A t \in Slot \ {s} : run'[t] = run[t]
  <2>1. CASE Goto(s, "claiming")
    BY <1>1, <1>2, <2>1, GotoMoves DEF CoreInv, Holder, Phase
  <2>2. CASE /\ Goto(s, "reserving") /\ run[s].input.domain # None
             /\ About[run[s].input.receipt].status = "VERIFIED"
    <3>1. run[s].input.domain \in Domain
      BY <1>2, <2>2 DEF Input
    <3> QED
      BY <1>1, <1>2, <2>2, <3>1, GotoMoves DEF CoreInv, Holder, Phase
  <2>3. CASE Hold(s)
    BY <1>1, <2>3, HoldMoves DEF CoreInv
  <2> QED
    BY <2>1, <2>2, <2>3 DEF Confirm
<1> QED
  BY <1>1, <1>3

LEMMA ConfirmGood ==
    ASSUME CoreInv, NEW s \in Slot, Confirm(s)
    PROVE  CoreInv'
BY ConfirmMoves, QuietGood DEF env, CoreInv, TypeOK

\* A run spends its receipt: it owns it, or its answer was lost and nobody does.
LEMMA SpendingGood ==
    ASSUME CoreInv, NEW s \in Slot, run[s].pc \in {"reserving", "claiming"}, NEW delta \in Int,
           Claimable(run[s].input.receipt), Spend(run[s].input.receipt),
           delta > 0 => About[run[s].input.receipt].status = "VERIFIED",
           Spent(s, delta) \/ Hold(s),
           UNCHANGED <<score, events, env>>,
           booked' \in [Key -> Nat]
    PROVE  CoreInv'
<1> DEFINE r == run[s].input.receipt
<1>1. r \in Receipt
  BY DEF CoreInv, RunsAreTyped
<1>2. /\ receipts' \in [Receipt -> {"absent", "fresh", "spent"}]
      /\ receipts[r] = "fresh" /\ receipts'[r] = "spent"
      /\ \A q \in Receipt : receipts[q] = "spent" => receipts'[q] = "spent"
      /\ WorkPaidOnce'
  BY <1>1, SpendGood
<1>3. RunsAreTyped' /\ OwnersDiffer'
  <2>1. CASE Spent(s, delta)
    <3>1. /\ RunsAreTyped'
          /\ run'[s].input = run[s].input /\ run'[s].delta = delta
          /\ \A t \in Slot \ {s} : run'[t] = run[t]
      BY <2>1, SpentMoves DEF CoreInv
    <3> QED
      BY <1>1, <1>2, <3>1, TakerOwns DEF CoreInv
  <2>2. CASE Hold(s)
    <3>1. RunsAreTyped' /\ ~Holder(s)' /\ \A t \in Slot \ {s} : run'[t] = run[t]
      BY <2>2, HoldMoves DEF CoreInv
    <3> QED
      BY <1>2, <3>1, QuietKeepsOwners DEF CoreInv
  <2> QED
    BY <2>1, <2>2
<1>4. TypeOK'
  <2>1. \A t \in Slot : run'[t].pc \in Phase
    BY <1>3 DEF RunsAreTyped, RunRecord
  <2> QED
    BY <1>2, <2>1 DEF CoreInv, TypeOK, env
<1> QED
  BY <1>2, <1>3, <1>4 DEF CoreInv

\* A run that is refused, or that the database does not answer, holds.
LEMMA HoldingGood ==
    ASSUME CoreInv, NEW s \in Slot, run[s].pc \in {"reserving", "claiming"}, Hold(s), UNCHANGED <<db, env>>
    PROVE  CoreInv'
BY HoldMoves, QuietGood DEF CoreInv, TypeOK, env

LEMMA ReserveGood ==
    ASSUME CoreInv, NEW s \in Slot, Reserve(s)
    PROVE  CoreInv'
<1>1. /\ run[s].pc = "reserving" /\ UNCHANGED <<score, events, env>>
      /\ run[s].input \in Input /\ run[s].input.domain \in Domain
      /\ About[run[s].input.receipt].status = "VERIFIED"
  BY DEF Reserve, At, CoreInv, RunsAreTyped
<1>2. CASE /\ Granted(s) > 0 /\ Claimable(run[s].input.receipt)
           /\ Spend(run[s].input.receipt) /\ Book(s)
           /\ Spent(s, Granted(s)) \/ Hold(s)
  <2> DEFINE granted == Granted(s)
  <2>1. granted \in Int /\ granted > 0
    BY <1>1, <1>2, GrantedIsInt DEF CoreInv
  <2>2. granted \in Nat
    BY <2>1
  <2>3. booked' = [k \in DOMAIN booked |->
                     IF k \in {DayKey(s), DomainKey(s)} THEN booked[k] + granted ELSE booked[k]]
    BY <1>2 DEF Book
  <2>4. Spent(s, granted) \/ Hold(s)
    BY <1>2
  <2> HIDE DEF granted
  <2>5. booked' \in [Key -> Nat]
    BY <2>2, <2>3 DEF CoreInv, TypeOK
  <2> QED
    BY <1>1, <1>2, <2>1, <2>4, <2>5, SpendingGood
<1>3. CASE Hold(s) /\ UNCHANGED <<receipts, booked>>
  BY <1>1, <1>3, HoldingGood DEF db
<1> QED
  BY <1>2, <1>3 DEF Reserve

LEMMA ClaimWrongGood ==
    ASSUME CoreInv, NEW s \in Slot, ClaimWrong(s)
    PROVE  CoreInv'
<1>1. run[s].pc = "claiming" /\ UNCHANGED <<score, events, booked, env>>
  BY DEF ClaimWrong, At
<1>2. CASE /\ Claimable(run[s].input.receipt) /\ Spend(run[s].input.receipt)
           /\ Spent(s, -Wrong) \/ Hold(s)
  <2>1. -Wrong \in Int /\ ~(-Wrong > 0)
    BY ScoreAssumption
  <2>2. booked' \in [Key -> Nat]
    BY <1>1 DEF CoreInv, TypeOK
  <2> QED
    BY <1>1, <1>2, <2>1, <2>2, SpendingGood
<1>3. CASE Hold(s) /\ UNCHANGED receipts
  BY <1>1, <1>3, HoldingGood DEF db
<1> QED
  BY <1>2, <1>3 DEF ClaimWrong

-----------------------------------------------------------------------------
(* The row and the score *)

LEMMA NewRepIdInside ==
    ASSUME CoreInv, NEW s \in Slot, run[s].pc # "idle"
    PROVE  NewRepId(s) \in Floor .. Ceiling
<1>1. run[s].before \in Floor .. Ceiling /\ run[s].decayed \in Int /\ run[s].delta \in Int
  BY DEF CoreInv, RunsAreTyped, RunRecord
<1>2. run[s].decayed + run[s].delta \in Int
  BY <1>1
<1> QED
  BY <1>1, <1>2, ClampInside DEF NewRepId

LEMMA RowTyped ==
    ASSUME CoreInv, NEW s \in Slot, run[s].pc # "idle"
    PROVE  Row(s) \in EventRow
<1>1. /\ run[s].input \in Input /\ run[s].before \in Floor .. Ceiling
      /\ run[s].delta \in Int /\ run[s].spent \in BOOLEAN /\ run[s].day \in Days
  BY DEF CoreInv, RunsAreTyped, RunRecord
<1>2. score[run[s].input.agent] \in Floor .. Ceiling
  BY <1>1 DEF CoreInv, TypeOK, Input
<1>3. score[run[s].input.agent] + run[s].delta \in Int
  BY <1>1, <1>2, ScoreAssumption
<1>4. Clamp(score[run[s].input.agent] + run[s].delta) \in Floor .. Ceiling
  BY <1>3, ClampInside
<1>5. NewRepId(s) \in Floor .. Ceiling
  BY NewRepIdInside
<1> QED
  BY <1>1, <1>2, <1>4, <1>5 DEF Row, EventRow, Input

LEMMA WriteRowGood ==
    ASSUME CoreInv, NEW s \in Slot, WriteRow(s)
    PROVE  CoreInv'
<1>1. run[s].pc = "priced" /\ UNCHANGED <<receipts, booked, env>>
  BY DEF WriteRow, At
<1>2. PICK pc \in {"written", "done", "threw"} : Goto(s, pc)
  BY DEF WriteRow
<1>3. RunsAreTyped' /\ run'[s].pc = pc /\ \A t \in Slot \ {s} : run'[t] = run[t]
  BY <1>1, <1>2, GotoMoves DEF CoreInv, Phase
<1>4. CASE InsertRow(s)
  <2>1. Row(s) \in EventRow /\ events \in Seq(EventRow)
    BY <1>1, RowTyped DEF CoreInv, TypeOK
  <2>2. /\ Row(s).spent = run[s].spent /\ Row(s).receipt = run[s].input.receipt
        /\ Row(s).delta = run[s].delta
    BY DEF Row
  <2>3. events' = Append(events, Row(s))
    BY <1>4 DEF InsertRow
  <2>4. OwnersDiffer'
    BY <1>1, <1>3, <2>1, <2>2, <2>3, RowOwns DEF CoreInv
  <2>5. events' \in Seq(EventRow)
    BY <2>1, <2>3
  <2>6. score' \in [Agent -> Floor .. Ceiling]
    BY <1>4, <2>1 DEF InsertRow, CoreInv, TypeOK, EventRow
  <2>7. TypeOK'
    <3>1. \A t \in Slot : run'[t].pc \in Phase
      BY <1>3 DEF RunsAreTyped, RunRecord
    <3> QED
      BY <1>1, <2>5, <2>6, <3>1 DEF CoreInv, TypeOK, env
  <2>8. WorkPaidOnce'
    BY <1>1 DEF CoreInv, WorkPaidOnce, SameWork
  <2> QED
    BY <1>3, <2>4, <2>7, <2>8 DEF CoreInv
<1>5. CASE UNCHANGED <<events, score>>
  BY <1>1, <1>3, <1>5, QuietGood DEF env, db, Holder, CoreInv, TypeOK
<1> QED
  BY <1>4, <1>5 DEF WriteRow

LEMMA ApplyGood ==
    ASSUME CoreInv, NEW s \in Slot, Apply(s)
    PROVE  CoreInv'
<1>1. run[s].pc = "written" /\ Goto(s, "done") /\ UNCHANGED <<events, receipts, booked, env>>
  BY DEF Apply, At
<1>2. RunsAreTyped' /\ run'[s].pc = "done" /\ \A t \in Slot \ {s} : run'[t] = run[t]
  BY <1>1, GotoMoves DEF CoreInv, Phase
<1>3. score' \in [Agent -> Floor .. Ceiling]
  BY <1>1, NewRepIdInside DEF Apply, CoreInv, TypeOK
<1>4. TypeOK'
  <2>1. \A t \in Slot : run'[t].pc \in Phase
    BY <1>2 DEF RunsAreTyped, RunRecord
  <2> QED
    BY <1>1, <1>3, <2>1 DEF CoreInv, TypeOK, env
<1>5. OwnersDiffer'
  BY <1>1, <1>2, QuietKeepsOwners DEF CoreInv, Holder
<1>6. WorkPaidOnce'
  BY <1>1 DEF CoreInv, WorkPaidOnce, SameWork
<1> QED
  BY <1>2, <1>4, <1>5, <1>6 DEF CoreInv

-----------------------------------------------------------------------------
(* Around the runs *)

LEMMA DieGood ==
    ASSUME CoreInv, NEW s \in Slot, Die(s)
    PROVE  CoreInv'
<1>1. run[s].pc # "idle" /\ Goto(s, "dead") /\ UNCHANGED <<db, env>>
  BY DEF Die, InFlight
<1> QED
  BY <1>1, GotoMoves, QuietGood DEF env, Holder, Phase, CoreInv, TypeOK

LEMMA MirrorGood ==
    ASSUME CoreInv, NEW r \in Receipt, Mirror(r)
    PROVE  CoreInv'
<1>1. /\ receipts' \in [Receipt -> {"absent", "fresh", "spent"}]
      /\ \A q \in Receipt : receipts'[q] = "spent" <=> receipts[q] = "spent"
      /\ UNCHANGED <<score, events, booked, run, env>>
  BY DEF Mirror, CoreInv, TypeOK
<1>2. TypeOK' /\ RunsAreTyped'
  BY <1>1 DEF CoreInv, TypeOK, RunsAreTyped, env
<1>3. OwnersDiffer'
  BY <1>1 DEF CoreInv, OwnersDiffer, Holder, PaysFor
<1>4. WorkPaidOnce'
  BY <1>1 DEF CoreInv, WorkPaidOnce, SameWork
<1> QED
  BY <1>2, <1>3, <1>4 DEF CoreInv

\* Neither a new day nor nothing at all touches a receipt, a run or a row.
LEMMA TimeGood ==
    ASSUME CoreInv, NextDay \/ UNCHANGED vars
    PROVE  CoreInv'
<1>1. UNCHANGED <<applier, db, run>> /\ today' \in Days
  BY ScoreAssumption DEF NextDay, vars, db, CoreInv, TypeOK, Days
<1>2. TypeOK' /\ RunsAreTyped'
  BY <1>1 DEF CoreInv, TypeOK, RunsAreTyped, db
<1>3. OwnersDiffer' /\ WorkPaidOnce'
  BY <1>1 DEF CoreInv, OwnersDiffer, Holder, PaysFor, WorkPaidOnce, SameWork, db
<1> QED
  BY <1>2, <1>3 DEF CoreInv

LEMMA CoreInit ==
    ASSUME Init
    PROVE  CoreInv
<1>1. Idle \in RunRecord /\ Idle.pc = "idle" /\ ~Idle.spent
  BY ScoreAssumption DEF Idle, RunRecord, Phase, Days
<1>2. run \in [Slot -> RunRecord] /\ \A s \in Slot : run[s].pc = "idle" /\ ~run[s].spent
  BY <1>1 DEF Init
<1>3. TypeOK
  <2>1. 0 \in Days /\ Start \in Floor .. Ceiling
    BY ScoreAssumption DEF Days
  <2>2. booked \in [Key -> Nat]
    BY DEF Init
  <2> QED
    BY <1>2, <2>1, <2>2 DEF Init, TypeOK, Phase
<1>4. RunsAreTyped
  BY <1>2 DEF RunsAreTyped
<1>5. OwnersDiffer /\ WorkPaidOnce
  BY <1>2 DEF Init, OwnersDiffer, Holder, WorkPaidOnce
<1> QED
  BY <1>3, <1>4, <1>5 DEF CoreInv

LEMMA CoreStep ==
    ASSUME CoreInv, [Next]_vars
    PROVE  CoreInv'
<1>1. ASSUME NEW s \in Slot, Advance(s) \/ Die(s)
      PROVE  CoreInv'
  BY <1>1, ConfirmGood, ReserveGood, ClaimWrongGood, WriteRowGood, ApplyGood, DieGood DEF Advance
<1>2. ASSUME NEW s \in DOMAIN Request, NEW input \in Request[s], Fetch(s, input)
      PROVE  CoreInv'
  BY <1>2, FetchGood, ScoreAssumption
<1> QED
  BY <1>1, <1>2, MirrorGood, TimeGood DEF Next

-----------------------------------------------------------------------------
(* The budgets *)

\* What one run has to its name under a key, and what one row has.
Part(s, k) == IF s \in Owed(k) THEN run[s].delta ELSE 0

RowPart(row, k) ==
    IF /\ row.spent /\ row.delta > 0
       /\ row.agent = k[1] /\ row.day = k[2] /\ k[3] \in {Whole, row.domain}
    THEN row.delta ELSE 0

LEMMA PartIsNat ==
    ASSUME RunsAreTyped, NEW s \in Slot, NEW k
    PROVE  Part(s, k) \in Nat
BY DEF RunsAreTyped, RunRecord, Part, Owed

\* A run moves: what is owed changes by its part.
LEMMA OwedMoves ==
    ASSUME RunsAreTyped, RunsAreTyped', NEW s \in Slot, NEW k, IsFiniteSet(Owed(k)),
           \A t \in Slot \ {s} : run'[t] = run[t]
    PROVE  /\ IsFiniteSet(Owed(k)') /\ OwedSum(k) \in Int /\ OwedSum(k)' \in Int
           /\ OwedSum(k)' - Part(s, k)' = OwedSum(k) - Part(s, k)
<1> DEFINE f == [t \in Slot |-> run[t].delta]
           g == [t \in Slot |-> run'[t].delta]
           S == Owed(k)
           T == Owed(k)'
<1>1. S \subseteq Slot /\ T \subseteq Slot
  BY DEF Owed
<1>2. S \ {s} = T \ {s}
  BY DEF Owed, Holder
<1>3. /\ \A t \in Slot : f[t] = run[t].delta /\ g[t] = run'[t].delta
      /\ \A t \in Slot : f[t] \in Int /\ g[t] \in Int
      /\ \A t \in Slot \ {s} : f[t] = g[t]
  BY DEF RunsAreTyped, RunRecord
<1>4. /\ OwedSum(k) = SumFunctionOnSet(f, S) /\ OwedSum(k)' = SumFunctionOnSet(g, T)
  BY DEF OwedSum
<1>5. /\ Part(s, k) = IF s \in S THEN f[s] ELSE 0
      /\ Part(s, k)' = IF s \in T THEN g[s] ELSE 0
  BY <1>3 DEF Part
<1> HIDE DEF f, g, S, T
<1>6. /\ IsFiniteSet(T)
      /\ SumFunctionOnSet(f, S) \in Int /\ SumFunctionOnSet(g, T) \in Int
      /\ SumFunctionOnSet(g, T) - (IF s \in T THEN g[s] ELSE 0)
           = SumFunctionOnSet(f, S) - (IF s \in S THEN f[s] ELSE 0)
  <2>1. IsFiniteSet(S)
    BY DEF S
  <2>2. /\ \A y \in S : f[y] \in Int
        /\ \A y \in S \ {s} : g[y] = f[y]
        /\ s \in T => g[s] \in Int
    BY <1>1, <1>3
  <2> QED
    BY <1>2, <2>1, <2>2, SumMoves
<1>7. IsFiniteSet(Owed(k)')
  BY <1>6 DEF T
<1> QED
  BY <1>4, <1>5, <1>6, <1>7

LEMMA RowsFinite ==
    ASSUME TypeOK
    PROVE  /\ IsFiniteSet(Rows)
           /\ \A i \in Rows : events[i] \in EventRow
BY FS_Interval DEF TypeOK, Rows

LEMMA PaidIsInt ==
    ASSUME TypeOK, NEW k
    PROVE  IsFiniteSet(Paid(k)) /\ PaidSum(k) \in Int
<1> DEFINE f == [i \in Rows |-> events[i].delta]
<1>1. IsFiniteSet(Paid(k))
  BY RowsFinite, FS_Subset DEF Paid
<1>2. \A i \in Paid(k) : f[i] \in Int
  BY RowsFinite DEF Paid, EventRow
<1> HIDE DEF f
<1>3. SumFunctionOnSet(f, Paid(k)) \in Int
  BY <1>1, <1>2, SumType
<1> QED
  BY <1>1, <1>3 DEF PaidSum, f

\* A row lands: what is paid under a key grows by its part.
LEMMA PaidGrows ==
    ASSUME TypeOK, NEW row \in EventRow, events' = Append(events, row), NEW k
    PROVE  PaidSum(k)' = PaidSum(k) + RowPart(row, k)
<1> DEFINE f == [i \in Rows |-> events[i].delta]
           g == [i \in Rows' |-> events'[i].delta]
           S == Paid(k)
           T == Paid(k)'
           n == Len(events) + 1
<1>1. /\ Len(events') = n /\ Len(events) \in Nat
      /\ \A i \in Rows : events'[i] = events[i]
      /\ events'[n] = row
  BY DEF TypeOK, Rows
<1>2. Rows' = Rows \cup {n} /\ n \notin Rows
  BY <1>1 DEF Rows
<1>3. S \ {n} = T \ {n} /\ S \subseteq Rows /\ T \subseteq Rows'
  BY <1>1, <1>2 DEF Paid, Gains
<1>4. /\ n \notin S
      /\ n \in T <=> RowPart(row, k) # 0
      /\ n \in T => g[n] = RowPart(row, k)
  BY <1>1, <1>2 DEF Paid, Gains, RowPart, EventRow
<1>5. /\ \A i \in S : f[i] \in Int
      /\ \A i \in S \ {n} : g[i] = f[i]
      /\ RowPart(row, k) \in Int
  <2>1. \A i \in S : f[i] \in Int
    BY <1>3, RowsFinite DEF EventRow
  <2>2. \A i \in S \ {n} : g[i] = f[i]
    BY <1>1, <1>2, <1>3
  <2>3. RowPart(row, k) \in Int
    BY DEF EventRow, RowPart
  <2> HIDE DEF f, g, S, n
  <2> QED
    BY <2>1, <2>2, <2>3
<1>6. PaidSum(k) = SumFunctionOnSet(f, S) /\ PaidSum(k)' = SumFunctionOnSet(g, T)
  BY DEF PaidSum
<1>7. IsFiniteSet(S)
  BY PaidIsInt
<1> HIDE DEF f, g, S, T, n
<1>8. /\ SumFunctionOnSet(f, S) \in Int /\ SumFunctionOnSet(g, T) \in Int
      /\ SumFunctionOnSet(g, T) - (IF n \in T THEN g[n] ELSE 0)
           = SumFunctionOnSet(f, S) - (IF n \in S THEN f[n] ELSE 0)
  <2>1. n \in T => g[n] \in Int
    BY <1>4, <1>5
  <2> QED
    BY <1>3, <1>5, <1>7, <2>1, SumMoves
<1> QED
  BY <1>4, <1>5, <1>6, <1>8

\* A run that owes nothing after its step leaves the books covered, whether or
\* not it booked something on the way.
LEMMA QuietBooks ==
    ASSUME CoreInv, BooksCover, RunsAreTyped', NEW s \in Slot, ~Holder(s)' \/ ~(run'[s].delta > 0),
           \A t \in Slot \ {s} : run'[t] = run[t], UNCHANGED events,
           \A k \in Key : booked[k] <= booked'[k] /\ booked'[k] <= Cap(k) /\ booked'[k] \in Int
    PROVE  BooksCover'
<1> SUFFICES ASSUME NEW k \in Key
             PROVE  /\ IsFiniteSet(Owed(k)')
                    /\ PaidSum(k)' + OwedSum(k)' <= booked'[k]
                    /\ booked'[k] <= Cap(k)
  BY DEF BooksCover, Cap
<1>1. /\ IsFiniteSet(Owed(k)') /\ OwedSum(k) \in Int /\ OwedSum(k)' \in Int
      /\ OwedSum(k)' - Part(s, k)' = OwedSum(k) - Part(s, k)
  BY OwedMoves DEF BooksCover, CoreInv
<1>2. Part(s, k)' = 0 /\ Part(s, k) \in Nat
  BY PartIsNat DEF Part, Owed, CoreInv
<1>3. PaidSum(k)' = PaidSum(k) /\ PaidSum(k) \in Int
  BY PaidIsInt DEF PaidSum, Paid, Gains, Rows, CoreInv
<1>4. PaidSum(k) + OwedSum(k) <= booked[k] /\ booked[k] \in Int
  BY DEF BooksCover, CoreInv, TypeOK
<1>5. booked[k] <= booked'[k] /\ booked'[k] <= Cap(k) /\ booked'[k] \in Int
  OBVIOUS
<1> QED
  BY <1>1, <1>2, <1>3, <1>4, <1>5

\* When the budget stands still its keys stay inside their caps.
LEMMA BooksStand ==
    ASSUME CoreInv, BooksCover, UNCHANGED booked
    PROVE  \A k \in Key : booked[k] <= booked'[k] /\ booked'[k] <= Cap(k) /\ booked'[k] \in Int
BY DEF CoreInv, TypeOK, BooksCover

\* What a grant books: its share under the agent's day and under the domain's,
\* inside what is left of both.
LEMMA BookGrows ==
    ASSUME CoreInv, BooksCover, NEW s \in Slot, run[s].input \in Input, run[s].input.domain \in Domain,
           Granted(s) > 0, Book(s)
    PROVE  /\ Granted(s) \in Nat
           /\ \A k \in Key :
                /\ booked'[k] \in Int /\ booked[k] <= booked'[k] /\ booked'[k] <= Cap(k)
                /\ k \in {DayKey(s), DomainKey(s)} => booked'[k] = booked[k] + Granted(s)
<1>1. DayKey(s) \in Key /\ DomainKey(s) \in Key
  BY DEF DayKey, DomainKey, CoreInv, TypeOK, Input, Key
<1>2. DayKey(s)[3] = Whole /\ DomainKey(s)[3] # Whole
  BY ScoreAssumption DEF DayKey, DomainKey
<1>3. \A k \in Key : booked[k] \in Nat /\ booked[k] <= Cap(k)
  BY DEF CoreInv, TypeOK, BooksCover
<1>4. /\ Granted(s) \in Nat
      /\ Granted(s) <= DayCap - booked[DayKey(s)]
      /\ Granted(s) <= DomainCap - booked[DomainKey(s)]
  <2> DEFINE d == booked[DayKey(s)]
             m == booked[DomainKey(s)]
  <2>1. d \in Nat /\ m \in Nat
    BY <1>1, <1>3
  <2>2. Granted(s) = Least(Least(Gain, DomainCap), Least(DayCap - d, DomainCap - m))
    BY DEF Granted
  <2> HIDE DEF d, m
  <2>3. /\ Granted(s) \in Nat
        /\ Granted(s) <= DayCap - d
        /\ Granted(s) <= DomainCap - m
    BY <2>1, <2>2, ScoreAssumption DEF Least
  <2> QED
    BY <2>3 DEF d, m
<1>5. \A k \in Key : booked'[k] = IF k \in {DayKey(s), DomainKey(s)}
                                  THEN booked[k] + Granted(s) ELSE booked[k]
  BY DEF Book, CoreInv, TypeOK
<1>6. ASSUME NEW k \in Key, k \in {DayKey(s), DomainKey(s)}
      PROVE  booked[k] + Granted(s) <= Cap(k)
  <2>1. booked[k] \in Nat /\ DayCap \in Nat /\ DomainCap \in Nat
    BY <1>3, ScoreAssumption
  <2>2. CASE k = DayKey(s)
    BY <1>2, <1>4, <2>1, <2>2 DEF Cap
  <2>3. CASE k = DomainKey(s)
    BY <1>2, <1>4, <2>1, <2>3 DEF Cap
  <2> QED
    BY <1>6, <2>2, <2>3
<1> QED
  BY <1>3, <1>4, <1>5, <1>6

LEMMA ReserveBooks ==
    ASSUME CoreInv, BooksCover, NEW s \in Slot, Reserve(s)
    PROVE  BooksCover'
<1>1. /\ run[s].pc = "reserving" /\ UNCHANGED events
      /\ run[s].input \in Input /\ run[s].input.domain \in Domain
  BY DEF Reserve, At, CoreInv, RunsAreTyped
<1>2. CASE Hold(s) /\ UNCHANGED booked
  BY <1>1, <1>2, HoldMoves, BooksStand, QuietBooks DEF CoreInv
<1>3. CASE Granted(s) > 0 /\ Book(s) /\ Hold(s)
  BY <1>1, <1>3, HoldMoves, BookGrows, QuietBooks DEF CoreInv
<1>4. CASE Granted(s) > 0 /\ Book(s) /\ Spent(s, Granted(s))
  <2> SUFFICES ASSUME NEW k \in Key
               PROVE  /\ IsFiniteSet(Owed(k)')
                      /\ PaidSum(k)' + OwedSum(k)' <= booked'[k]
                      /\ booked'[k] <= Cap(k)
    BY DEF BooksCover, Cap
  <2> DEFINE granted == Granted(s)
  <2>1. /\ granted \in Nat /\ booked'[k] \in Int /\ booked[k] <= booked'[k] /\ booked'[k] <= Cap(k)
        /\ k \in {DayKey(s), DomainKey(s)} => booked'[k] = booked[k] + granted
    BY <1>1, <1>4, BookGrows
  <2>2. Spent(s, granted) /\ granted \in Int /\ granted > 0
    BY <1>4, <2>1
  <2> HIDE DEF granted
  <2>3. /\ RunsAreTyped'
        /\ run'[s].input = run[s].input /\ run'[s].delta = granted
        /\ run'[s].day = today /\ Holder(s)'
        /\ \A t \in Slot \ {s} : run'[t] = run[t]
    BY <1>1, <2>2, SpentMoves DEF CoreInv
  <2>4. /\ IsFiniteSet(Owed(k)') /\ OwedSum(k) \in Int /\ OwedSum(k)' \in Int
        /\ OwedSum(k)' - Part(s, k)' = OwedSum(k) - Part(s, k)
    BY <2>3, OwedMoves DEF BooksCover, CoreInv
  <2>5. Part(s, k) = 0
    BY <1>1 DEF Part, Owed, Holder
  <2>6. Part(s, k)' = IF k \in {DayKey(s), DomainKey(s)} THEN granted ELSE 0
    <3>1. s \in Owed(k)' <=> /\ run[s].input.agent = k[1] /\ today = k[2]
                             /\ k[3] \in {Whole, run[s].input.domain}
      BY <2>2, <2>3 DEF Owed
    <3>2. k = <<k[1], k[2], k[3]>>
      BY DEF Key
    <3>3. s \in Owed(k)' <=> k \in {DayKey(s), DomainKey(s)}
      BY <3>1, <3>2 DEF DayKey, DomainKey
    <3> QED
      BY <2>3, <3>3 DEF Part
  <2>7. PaidSum(k)' = PaidSum(k) /\ PaidSum(k) \in Int
    BY <1>1, PaidIsInt DEF PaidSum, Paid, Gains, Rows, CoreInv
  <2>8. PaidSum(k) + OwedSum(k) <= booked[k] /\ booked[k] \in Int
    BY DEF BooksCover, CoreInv, TypeOK
  <2> QED
    BY <2>1, <2>4, <2>5, <2>6, <2>7, <2>8
<1> QED
  BY <1>2, <1>3, <1>4 DEF Reserve

LEMMA ClaimWrongBooks ==
    ASSUME CoreInv, BooksCover, NEW s \in Slot, ClaimWrong(s)
    PROVE  BooksCover'
<1>1. run[s].pc = "claiming" /\ UNCHANGED <<events, booked>>
  BY DEF ClaimWrong, At
<1>2. CASE Hold(s)
  BY <1>1, <1>2, HoldMoves, BooksStand, QuietBooks DEF CoreInv
<1>3. CASE Spent(s, -Wrong)
  <2>1. -Wrong \in Int /\ ~(-Wrong > 0)
    BY ScoreAssumption
  <2>2. /\ RunsAreTyped' /\ run'[s].delta = -Wrong
        /\ \A t \in Slot \ {s} : run'[t] = run[t]
    BY <1>1, <1>3, <2>1, SpentMoves DEF CoreInv
  <2> QED
    BY <1>1, <2>1, <2>2, BooksStand, QuietBooks
<1> QED
  BY <1>2, <1>3 DEF ClaimWrong

\* The row a run writes takes over what the run owed.
LEMMA WriteRowBooks ==
    ASSUME CoreInv, BooksCover, NEW s \in Slot, WriteRow(s)
    PROVE  BooksCover'
<1>1. run[s].pc = "priced" /\ UNCHANGED booked
  BY DEF WriteRow, At
<1>2. PICK pc \in {"written", "done", "threw"} : Goto(s, pc)
  BY DEF WriteRow
<1>3. RunsAreTyped' /\ run'[s].pc = pc /\ \A t \in Slot \ {s} : run'[t] = run[t]
  BY <1>1, <1>2, GotoMoves DEF CoreInv, Phase
<1>4. ~Holder(s)'
  BY <1>3 DEF Holder
<1>5. CASE UNCHANGED events
  BY <1>1, <1>3, <1>4, <1>5, BooksStand, QuietBooks
<1>6. CASE InsertRow(s)
  <2> SUFFICES ASSUME NEW k \in Key
               PROVE  /\ IsFiniteSet(Owed(k)')
                      /\ PaidSum(k)' + OwedSum(k)' <= booked'[k]
                      /\ booked'[k] <= Cap(k)
    BY DEF BooksCover, Cap
  <2>1. /\ IsFiniteSet(Owed(k)') /\ OwedSum(k) \in Int /\ OwedSum(k)' \in Int
        /\ OwedSum(k)' - Part(s, k)' = OwedSum(k) - Part(s, k)
    BY <1>3, OwedMoves DEF BooksCover, CoreInv
  <2>2. Row(s) \in EventRow /\ events' = Append(events, Row(s))
    BY <1>1, <1>6, RowTyped DEF InsertRow
  <2>3. PaidSum(k)' = PaidSum(k) + RowPart(Row(s), k) /\ PaidSum(k) \in Int
    BY <2>2, PaidGrows, PaidIsInt DEF CoreInv
  <2>4. RowPart(Row(s), k) = Part(s, k) /\ Part(s, k)' = 0 /\ Part(s, k) \in Nat
    BY <1>1, <1>4, PartIsNat DEF RowPart, Row, Part, Owed, Holder, CoreInv
  <2>5. /\ PaidSum(k) + OwedSum(k) <= booked[k] /\ booked[k] \in Int
        /\ booked[k] <= Cap(k)
    BY DEF BooksCover, CoreInv, TypeOK
  <2> QED
    BY <1>1, <2>1, <2>3, <2>4, <2>5
<1> QED
  BY <1>5, <1>6 DEF WriteRow

\* A step that touches neither a row, a run nor the budget.
LEMMA StillBooks ==
    ASSUME BooksCover, UNCHANGED <<events, run, booked>>
    PROVE  BooksCover'
BY DEF BooksCover, PaidSum, Paid, Gains, Rows, OwedSum, Owed, Holder, Cap

LEMMA BooksStep ==
    ASSUME CoreInv, BooksCover, [Next]_vars
    PROVE  BooksCover'
<1>1. ASSUME NEW s \in Slot, Confirm(s)
      PROVE  BooksCover'
  BY <1>1, ConfirmMoves, BooksStand, QuietBooks DEF db
<1>2. ASSUME NEW s \in Slot, Apply(s) \/ Die(s)
      PROVE  BooksCover'
  <2>1. PICK pc \in {"done", "dead"} : Goto(s, pc)
    BY <1>2 DEF Apply, Die
  <2>2. run[s].pc # "idle" /\ UNCHANGED <<events, booked>>
    BY <1>2 DEF Apply, Die, At, InFlight, db
  <2>3. RunsAreTyped' /\ run'[s].pc = pc /\ \A t \in Slot \ {s} : run'[t] = run[t]
    BY <2>1, <2>2, GotoMoves DEF CoreInv, Phase
  <2>4. ~Holder(s)'
    BY <2>3 DEF Holder
  <2> QED
    BY <2>2, <2>3, <2>4, BooksStand, QuietBooks
<1>3. ASSUME NEW s \in DOMAIN Request, NEW input \in Request[s], Fetch(s, input)
      PROVE  BooksCover'
  <2>1. s \in Slot /\ input \in Input
    BY ScoreAssumption
  <2> QED
    BY <1>3, <2>1, FetchMoves, BooksStand, QuietBooks DEF db
<1>4. ASSUME (\E r \in Receipt : Mirror(r)) \/ NextDay \/ UNCHANGED vars
      PROVE  BooksCover'
  BY <1>4, StillBooks DEF Mirror, NextDay, vars, db
<1> QED
  BY <1>1, <1>2, <1>3, <1>4, ReserveBooks, ClaimWrongBooks, WriteRowBooks DEF Next, Advance

-----------------------------------------------------------------------------
(* The replay *)

LEMMA MovementIsInt ==
    ASSUME TypeOK, NEW a \in Agent
    PROVE  IsFiniteSet(Moving(a)) /\ Movement(a) \in Int
<1> DEFINE f == [i \in Rows |-> events[i].after - events[i].before]
<1>1. IsFiniteSet(Moving(a))
  BY RowsFinite, FS_Subset DEF Moving
<1>2. \A i \in Moving(a) : f[i] \in Int
  BY RowsFinite, ScoreAssumption DEF Moving, EventRow
<1> HIDE DEF f
<1>3. SumFunctionOnSet(f, Moving(a)) \in Int
  BY <1>1, <1>2, SumType
<1> QED
  BY <1>1, <1>3 DEF Movement, f

\* What a row moves an agent's score by, in a replay.
RowMoves(row, a) == IF row.agent = a /\ row.delta # 0 THEN row.after - row.before ELSE 0

LEMMA MovementGrows ==
    ASSUME TypeOK, NEW row \in EventRow, events' = Append(events, row), NEW a \in Agent
    PROVE  Movement(a)' = Movement(a) + RowMoves(row, a)
<1> DEFINE f == [i \in Rows |-> events[i].after - events[i].before]
           g == [i \in Rows' |-> events'[i].after - events'[i].before]
           S == Moving(a)
           T == Moving(a)'
           n == Len(events) + 1
<1>1. /\ Len(events') = n /\ Len(events) \in Nat
      /\ \A i \in Rows : events'[i] = events[i]
      /\ events'[n] = row
  BY DEF TypeOK, Rows
<1>2. Rows' = Rows \cup {n} /\ n \notin Rows
  BY <1>1 DEF Rows
<1>3. S \ {n} = T \ {n} /\ S \subseteq Rows /\ T \subseteq Rows'
  BY <1>1, <1>2 DEF Moving
<1>4. /\ n \notin S
      /\ n \in T <=> row.agent = a /\ row.delta # 0
      /\ n \in T => g[n] = RowMoves(row, a)
      /\ n \notin T => RowMoves(row, a) = 0
  BY <1>1, <1>2 DEF Moving, RowMoves
<1>5. /\ \A i \in S : f[i] \in Int
      /\ \A i \in S \ {n} : g[i] = f[i]
      /\ RowMoves(row, a) \in Int
  <2>1. row.after - row.before \in Int
    BY ScoreAssumption DEF EventRow
  <2>2. \A i \in S : f[i] \in Int
    BY <1>3, RowsFinite, ScoreAssumption DEF EventRow
  <2>3. \A i \in S \ {n} : g[i] = f[i]
    BY <1>1, <1>2, <1>3
  <2>4. RowMoves(row, a) \in Int
    BY <2>1 DEF RowMoves
  <2> HIDE DEF f, g, S, n
  <2> QED
    BY <2>2, <2>3, <2>4
<1>6. Movement(a) = SumFunctionOnSet(f, S) /\ Movement(a)' = SumFunctionOnSet(g, T)
  BY DEF Movement
<1>7. IsFiniteSet(S)
  BY MovementIsInt
<1> HIDE DEF f, g, S, T, n
<1>8. /\ SumFunctionOnSet(f, S) \in Int /\ SumFunctionOnSet(g, T) \in Int
      /\ SumFunctionOnSet(g, T) - (IF n \in T THEN g[n] ELSE 0)
           = SumFunctionOnSet(f, S) - (IF n \in S THEN f[n] ELSE 0)
  BY <1>3, <1>4, <1>5, <1>7, SumMoves
<1> QED
  BY <1>4, <1>5, <1>6, <1>8

\* Neither a score nor a row: the replay stands.
LEMMA StillReplays ==
    ASSUME TriggerReplays, UNCHANGED <<applier, score, events>>
    PROVE  TriggerReplays'
BY DEF TriggerReplays, Movement, Moving, Rows

\* A row that lands with the trigger alone moves the score by what it says.
LEMMA WriteRowReplays ==
    ASSUME CoreInv, TriggerReplays, NEW s \in Slot, WriteRow(s)
    PROVE  TriggerReplays'
<1>1. run[s].pc = "priced" /\ UNCHANGED applier
  BY DEF WriteRow, At, env
<1>2. CASE UNCHANGED <<events, score>>
  BY <1>1, <1>2, StillReplays
<1>3. CASE InsertRow(s)
  <2> SUFFICES ASSUME applier = "trigger", NEW a \in Agent
               PROVE  score'[a] = Start + Movement(a)'
    BY <1>1 DEF TriggerReplays, Movement, Moving, Rows
  <2> DEFINE row == Row(s)
             mine == run[s].input.agent
  <2>1. row \in EventRow /\ events' = Append(events, row)
    BY <1>1, <1>3, RowTyped DEF InsertRow
  <2>2. Movement(a)' = Movement(a) + RowMoves(row, a) /\ Movement(a) \in Int
    BY <2>1, MovementGrows, MovementIsInt DEF CoreInv
  <2>3. /\ score[a] = Start + Movement(a)
        /\ score \in [Agent -> Floor .. Ceiling] /\ Start \in Int
    BY ScoreAssumption DEF TriggerReplays, CoreInv, TypeOK
  <2>4. /\ row.agent = mine /\ row.delta = run[s].delta
        /\ TriggerApplies(s) <=> row.delta # 0
        /\ TriggerApplies(s) => row.before = score[mine]
    BY DEF Row, TriggerApplies, AppApplies
  <2>5. score' = IF TriggerApplies(s) THEN [score EXCEPT ![mine] = row.after] ELSE score
    BY <1>3 DEF InsertRow
  <2>6. row.after \in Int /\ score[a] \in Int
    BY <2>1, <2>3, ScoreAssumption DEF EventRow
  <2> HIDE DEF row, mine
  <2>7. score'[a] = score[a] + RowMoves(row, a)
    <3>1. CASE row.delta # 0 /\ a = mine
      BY <2>3, <2>4, <2>5, <2>6, <3>1 DEF RowMoves
    <3>2. CASE ~(row.delta # 0 /\ a = mine)
      BY <2>3, <2>4, <2>5, <2>6, <3>2 DEF RowMoves
    <3> QED
      BY <3>1, <3>2
  <2>8. RowMoves(row, a) \in Int
    BY <2>1, ScoreAssumption DEF RowMoves, EventRow
  <2> QED
    BY <2>2, <2>3, <2>6, <2>7, <2>8
<1> QED
  BY <1>2, <1>3 DEF WriteRow

LEMMA ReplayStep ==
    ASSUME CoreInv, OnlyTheTrigger, TriggerReplays, [Next]_vars
    PROVE  OnlyTheTrigger' /\ TriggerReplays'
<1>1. ASSUME NEW s \in Slot, Confirm(s)
      PROVE  OnlyTheTrigger' /\ TriggerReplays'
  BY <1>1, ConfirmMoves, StillReplays DEF db, env, OnlyTheTrigger
<1>2. ASSUME NEW s \in Slot, Reserve(s) \/ ClaimWrong(s)
      PROVE  OnlyTheTrigger' /\ TriggerReplays'
  <2>1. UNCHANGED <<applier, score, events>>
    BY <1>2 DEF Reserve, ClaimWrong, env
  <2>2. run'[s].pc = "priced" /\ \A t \in Slot \ {s} : run'[t] = run[t]
    BY <1>2 DEF Reserve, ClaimWrong, Hold, Spent, CoreInv, RunsAreTyped, RunRecord
  <2> QED
    BY <2>1, <2>2, StillReplays DEF OnlyTheTrigger
<1>3. ASSUME NEW s \in Slot, WriteRow(s)
      PROVE  OnlyTheTrigger' /\ TriggerReplays'
  <2>1. applier = "trigger" => \E pc \in {"done", "threw"} : Goto(s, pc)
    BY <1>3 DEF WriteRow, AppApplies
  <2>2. UNCHANGED applier
    BY <1>3 DEF WriteRow, env
  <2>3. \E pc \in {"written", "done", "threw"} : Goto(s, pc)
    BY <1>3 DEF WriteRow
  <2>4. \A t \in Slot \ {s} : run'[t] = run[t]
    BY <2>3 DEF Goto, CoreInv, RunsAreTyped
  <2>5. applier = "trigger" => run'[s].pc # "written"
    <3> SUFFICES ASSUME NEW pc \in {"done", "threw"}, Goto(s, pc)
                 PROVE  run'[s].pc # "written"
      BY <2>1
    <3> QED
      BY DEF Goto, CoreInv, RunsAreTyped, RunRecord
  <2>6. OnlyTheTrigger'
    BY <2>2, <2>4, <2>5 DEF OnlyTheTrigger
  <2> QED
    BY <1>3, <2>6, WriteRowReplays
<1>4. ASSUME NEW s \in Slot, Apply(s)
      PROVE  OnlyTheTrigger' /\ TriggerReplays'
  <2>1. applier # "trigger" /\ UNCHANGED applier
    BY <1>4 DEF Apply, At, OnlyTheTrigger, env
  <2> QED
    BY <2>1 DEF OnlyTheTrigger, TriggerReplays
<1>5. ASSUME NEW s \in Slot, Die(s)
      PROVE  OnlyTheTrigger' /\ TriggerReplays'
  BY <1>5, StillReplays DEF Die, Goto, db, env, OnlyTheTrigger, CoreInv, RunsAreTyped
<1>6. ASSUME NEW s \in DOMAIN Request, NEW input \in Request[s], Fetch(s, input)
      PROVE  OnlyTheTrigger' /\ TriggerReplays'
  <2>1. s \in Slot /\ input \in Input
    BY ScoreAssumption
  <2> QED
    BY <1>6, <2>1, FetchMoves, StillReplays DEF db, env, OnlyTheTrigger
<1>7. ASSUME (\E r \in Receipt : Mirror(r)) \/ NextDay \/ UNCHANGED vars
      PROVE  OnlyTheTrigger' /\ TriggerReplays'
  BY <1>7, StillReplays DEF Mirror, NextDay, vars, db, env, OnlyTheTrigger
<1> QED
  BY <1>1, <1>2, <1>3, <1>4, <1>5, <1>6, <1>7 DEF Next, Advance

LEMMA InitGood ==
    ASSUME Init
    PROVE  IInv
<1>1. CoreInv
  BY CoreInit
<1>2. Rows = {} /\ \A s \in Slot : run[s].pc = "idle"
  BY DEF Init, Idle, Rows
<1>3. BooksCover
  <2> SUFFICES ASSUME NEW k \in Key
               PROVE  IsFiniteSet(Owed(k)) /\ PaidSum(k) + OwedSum(k) <= booked[k] /\ booked[k] <= Cap(k)
    BY DEF BooksCover
  <2>1. Owed(k) = {} /\ Paid(k) = {}
    BY <1>2 DEF Owed, Holder, Paid
  <2>2. PaidSum(k) = 0 /\ OwedSum(k) = 0
    <3>1. PaidSum(k) = SumFunctionOnSet([i \in Rows |-> events[i].delta], {})
      BY <2>1, Zenon DEF PaidSum
    <3>2. OwedSum(k) = SumFunctionOnSet([s \in Slot |-> run[s].delta], {})
      BY <2>1, Zenon DEF OwedSum
    <3> QED
      BY <3>1, <3>2, SumEmpty, Zenon
  <2>3. booked[k] = 0 /\ 0 <= Cap(k)
    BY ScoreAssumption DEF Init, Cap
  <2> QED
    BY <2>1, <2>2, <2>3, FS_EmptySet
<1>4. TriggerReplays
  <2> SUFFICES ASSUME NEW a \in Agent
               PROVE  score[a] = Start + Movement(a)
    BY DEF TriggerReplays
  <2>1. Moving(a) = {}
    BY <1>2 DEF Moving
  <2>2. Movement(a) = SumFunctionOnSet([i \in Rows |-> events[i].after - events[i].before], {})
    BY <2>1, Zenon DEF Movement
  <2>3. Movement(a) = 0
    BY <2>2, SumEmpty, Zenon
  <2> QED
    BY <2>3, ScoreAssumption DEF Init
<1> QED
  BY <1>1, <1>2, <1>3, <1>4 DEF IInv, OnlyTheTrigger

LEMMA StepGood ==
    ASSUME IInv, [Next]_vars
    PROVE  IInv'
BY CoreStep, BooksStep, ReplayStep DEF IInv

-----------------------------------------------------------------------------
(* What the invariant implies *)

LEMMA OwnersMoveOnce == IInv => OneMovePerReceipt
<1>1. ASSUME IInv
      PROVE  OneMovePerReceipt
  <2> SUFFICES ASSUME NEW i \in 1 .. Len(events), NEW j \in 1 .. Len(events),
                      i # j, events[i].spent, events[j].spent
               PROVE  /\ events[i].receipt # events[j].receipt
                      /\ Gains(i) /\ Gains(j) => ~SameWork(events[i].receipt, events[j].receipt)
    BY DEF OneMovePerReceipt
  <2>1. events[i].receipt # events[j].receipt
    BY <1>1 DEF IInv, CoreInv, OwnersDiffer
  <2>2. PaysFor(events[i].receipt, events[i].delta) /\ PaysFor(events[j].receipt, events[j].delta)
    BY <1>1 DEF IInv, CoreInv, OwnersDiffer
  <2> QED
    BY <1>1, <2>1, <2>2 DEF IInv, CoreInv, WorkPaidOnce, PaysFor, Gains
<1> QED
  BY <1>1

\* What the books cover is inside the caps.
LEMMA BooksBoundGains == IInv => GainsWithinBudget
<1>1. ASSUME IInv
      PROVE  GainsWithinBudget
  <2>1. ASSUME NEW k \in Key
        PROVE  PaidSum(k) <= Cap(k) /\ PaidSum(k) \in Int
    <3>1. PaidSum(k) \in Int /\ booked[k] \in Int /\ Cap(k) \in Int
      BY <1>1, PaidIsInt, ScoreAssumption DEF IInv, CoreInv, TypeOK, Cap
    <3>2. OwedSum(k) \in Nat
      <4> DEFINE f == [s \in Slot |-> run[s].delta]
      <4>1. \A s \in Owed(k) : f[s] \in Nat
        BY <1>1 DEF Owed, IInv, CoreInv, RunsAreTyped, RunRecord
      <4>2. IsFiniteSet(Owed(k))
        BY <1>1 DEF IInv, BooksCover
      <4> HIDE DEF f
      <4>3. SumFunctionOnSet(f, Owed(k)) \in Nat
        BY <4>1, <4>2, SumOfPart
      <4> QED
        BY <4>3 DEF OwedSum, f
    <3>3. PaidSum(k) + OwedSum(k) <= booked[k] /\ booked[k] <= Cap(k)
      BY <1>1 DEF IInv, BooksCover
    <3> QED
      BY <3>1, <3>2, <3>3
  <2> SUFFICES ASSUME NEW a \in Agent, NEW d \in Days
               PROVE  /\ PaidSum(<<a, d, Whole>>) <= DayCap
                      /\ PaidSum(<<a, d, Whole>>) < Wrong
                      /\ \A m \in Domain : PaidSum(<<a, d, m>>) <= DomainCap
    BY DEF GainsWithinBudget
  <2>2. <<a, d, Whole>> \in Key /\ Cap(<<a, d, Whole>>) = DayCap
    BY DEF Key, Cap
  <2>3. \A m \in Domain : <<a, d, m>> \in Key /\ Cap(<<a, d, m>>) = DomainCap
    BY ScoreAssumption DEF Key, Cap
  <2>4. PaidSum(<<a, d, Whole>>) <= DayCap /\ PaidSum(<<a, d, Whole>>) \in Int
    BY <2>1, <2>2
  <2>5. \A m \in Domain : PaidSum(<<a, d, m>>) <= DomainCap
    BY <2>1, <2>3
  <2> QED
    BY <2>4, <2>5, ScoreAssumption
<1> QED
  BY <1>1

-----------------------------------------------------------------------------
(* The theorems *)

(***************************************************************************)
(* The inductive invariant: a spent receipt has at most one owner, the run *)
(* that spent it or the row it wrote; one piece of work is paid under one  *)
(* receipt; what is granted or written was booked first; and with the      *)
(* trigger alone the rows replay to the score.                             *)
(***************************************************************************)
THEOREM ReceiptsHaveOneOwner == Spec => []IInv
<1>1. Init => IInv
  BY InitGood
<1>2. IInv /\ [Next]_vars => IInv'
  BY StepGood
<1> QED
  BY <1>1, <1>2, PTL DEF Spec

\* Every reachable state is well typed: no score, in the table or on a row,
\* leaves the clamp (updateRepId, apply_repid_score_event).
THEOREM ScoresStayInside == Spec => []TypeOK
<1>1. IInv => TypeOK
  BY DEF IInv, CoreInv
<1> QED
  BY <1>1, ReceiptsHaveOneOwner, PTL

\* One receipt moves one score once, and one piece of work is paid once
\* (claim_confirmed_gain, claimConfirmationReceipt).
THEOREM ReceiptsMoveOnce == Spec => []OneMovePerReceipt
  BY OwnersMoveOnce, ReceiptsHaveOneOwner, PTL

(***************************************************************************)
(* The gains of an agent on one day stay inside the day's budget, below    *)
(* one wrong, and those of a domain inside the domain's, however many runs *)
(* reserve at the same time and whatever is lost (claim_confirmed_gain).   *)
(***************************************************************************)
THEOREM GainsStayInBudget == Spec => []GainsWithinBudget
  BY BooksBoundGains, ReceiptsHaveOneOwner, PTL

\* With the trigger as the only applier the movements of the rows add up to the
\* score, whatever failed, was lost, overlapped or crashed
\* (apply_repid_score_event, WRITER_DIRECT_APPLY=false).
THEOREM RowsReplayToScore == Spec => []TriggerReplays
<1>1. IInv => TriggerReplays
  BY DEF IInv
<1> QED
  BY <1>1, ReceiptsHaveOneOwner, PTL

-----------------------------------------------------------------------------
(* The settler of failed receipts, beside the requests.  Its job runs        *)
(* updateRepId in a slot of its own and uses that slot again; a restart      *)
(* drops the run, also one that has spent its receipt.                       *)

SettlerInv == IInv /\ STypeOK

LEMMA IdleTyped == Idle \in RunRecord /\ Idle.pc = "idle" /\ ~Idle.spent
  BY ScoreAssumption DEF Idle, RunRecord, Phase, Days

\* A slot is emptied: its run is given up, whatever it had done.
LEMMA RunDropped ==
    ASSUME IInv, NEW s \in Slot, run' = [run EXCEPT ![s] = Idle], UNCHANGED <<db, env>>
    PROVE  IInv'
<1>1. RunsAreTyped /\ run \in [Slot -> RunRecord] /\ TypeOK
  BY DEF IInv, CoreInv, RunsAreTyped
<1>2. PICK rec : rec = Idle
  OBVIOUS
<1>3. RunsAreTyped' /\ run'[s] = rec /\ \A t \in Slot \ {s} : run'[t] = run[t]
  BY <1>1, <1>2, IdleTyped, MoveTyped
<1>4. run'[s].pc = "idle" /\ ~Holder(s)'
  BY <1>2, <1>3, IdleTyped DEF Holder
<1>5. CoreInv'
  BY <1>1, <1>3, <1>4, QuietGood DEF IInv, CoreInv, TypeOK, env
<1>6. BooksCover'
  BY <1>3, <1>4, BooksStand, QuietBooks DEF IInv, db
<1>7. OnlyTheTrigger' /\ TriggerReplays'
  BY <1>3, <1>4, StillReplays DEF IInv, OnlyTheTrigger, db, env
<1> QED
  BY <1>5, <1>6, <1>7 DEF IInv

\* Any slot may present any input.
LEMMA FetchKeeps ==
    ASSUME IInv, NEW s \in Slot, NEW input \in Input, Fetch(s, input)
    PROVE  /\ IInv'
           /\ run'[s].pc # "idle"
<1>1. CoreInv'
  BY FetchGood DEF IInv
<1>2. BooksCover'
  BY FetchMoves, BooksStand, QuietBooks DEF IInv, db
<1>3. OnlyTheTrigger' /\ TriggerReplays'
  BY FetchMoves, StillReplays DEF IInv, OnlyTheTrigger, db, env
<1>4. run'[s].pc # "idle"
  BY DEF Fetch, Idle, IInv, CoreInv, RunsAreTyped
<1> QED
  BY <1>1, <1>2, <1>3, <1>4 DEF IInv

\* A run that goes on, or dies, leaves its slot in use and no other slot.
LEMMA AdvanceStaysBusy ==
    ASSUME IInv, NEW s \in Slot, Advance(s) \/ Die(s)
    PROVE  \A t \in Slot : run'[t].pc = "idle" <=> run[t].pc = "idle"
<1>1. RunsAreTyped /\ TypeOK
  BY DEF IInv, CoreInv
<1>2. run[s].pc # "idle"
  BY DEF Advance, Confirm, Reserve, ClaimWrong, WriteRow, Apply, Die, InFlight, At
<1>3. \/ Hold(s)
      \/ \E pc \in Phase \ {"idle"} : Goto(s, pc)
      \/ \E delta : Spent(s, delta)
  BY DEF Advance, Confirm, Reserve, ClaimWrong, WriteRow, Apply, Die, Phase
<1>4. run'[s].pc # "idle" /\ \A t \in Slot \ {s} : run'[t] = run[t]
  <2>0. run \in [Slot -> RunRecord] /\ run[s] \in RunRecord
    BY <1>1 DEF RunsAreTyped
  <2>1. CASE Hold(s)
    BY <2>0, <2>1 DEF Hold, RunRecord
  <2>2. ASSUME NEW pc \in Phase \ {"idle"}, Goto(s, pc)
        PROVE  run'[s].pc # "idle" /\ \A t \in Slot \ {s} : run'[t] = run[t]
    BY <2>0, <2>2 DEF Goto, RunRecord
  <2>3. ASSUME NEW delta, Spent(s, delta)
        PROVE  run'[s].pc # "idle" /\ \A t \in Slot \ {s} : run'[t] = run[t]
    BY <2>0, <2>3 DEF Spent, RunRecord
  <2> QED
    BY <1>3, <2>1, <2>2, <2>3
<1> QED
  BY <1>2, <1>4

\* What the job presents is an input, from its own page.
LEMMA OldestIsRow ==
    ASSUME STypeOK, pass.page # {}
    PROVE  /\ Oldest \in pass.page /\ Oldest \in Receipt
           /\ Rest \in SUBSET Receipt /\ Cardinality(Rest) <= ScanLimit
           /\ Presentation(Oldest) \in Input
<1>1. pass.page \in SUBSET Receipt /\ IsFiniteSet(pass.page)
  BY SettlerAssumption, FS_Subset DEF STypeOK
<1>2. pass.page \in SUBSET Nat
  BY <1>1, ScoreAssumption
<1>3. Oldest \in pass.page
  BY <1>2, MinOfSet DEF Oldest
<1>4. Cardinality(Rest) <= Cardinality(pass.page)
  BY <1>1, FS_Subset DEF Rest
<1>5. Cardinality(Rest) \in Nat /\ Cardinality(pass.page) \in Nat /\ ScanLimit \in Nat
  BY <1>1, FS_Subset, FS_CardinalityType, SettlerAssumption DEF Rest
<1>6. Cardinality(Rest) <= ScanLimit
  BY <1>4, <1>5 DEF STypeOK
<1>7. Presentation(Oldest) \in Input
  <2>1. Oldest \in Receipt
    BY <1>1, <1>3
  <2>2. About[Oldest] \in Statement
    BY <2>1, ScoreAssumption
  <2>3. About[Oldest].subject \in Agent
    BY <2>2 DEF Statement
  <2> QED
    BY <2>1, <2>3 DEF Presentation, Input
<1> QED
  BY <1>1, <1>3, <1>6, <1>7 DEF Rest

\* A page holds no more rows than were asked for.
LEMMA PageFits == Page \in SUBSET Receipt /\ Cardinality(Page) <= ScanLimit
<1> DEFINE rows == {r \in Receipt : Candidate(r) /\ r > cursor}
           Below(r) == {q \in rows : q < r}
<1>1. IsFiniteSet(rows) /\ rows \in SUBSET Nat
  BY SettlerAssumption, ScoreAssumption, FS_Subset
<1>2. Page = {r \in rows : Cardinality(Below(r)) < ScanLimit}
  BY DEF Page
<1>3. rows \in SUBSET Receipt /\ ScanLimit \in Nat
  BY SettlerAssumption
<1> HIDE DEF rows
<1>4. IsFiniteSet(Page) /\ Page \in SUBSET Nat /\ Page \in SUBSET rows
  BY <1>1, <1>2, FS_Subset
<1>5. CASE Page = {}
  BY <1>3, <1>5, FS_EmptySet
<1>6. CASE Page # {}
  <2>1. PICK z \in Page : \A r \in Page : r <= z
    BY <1>4, <1>6, GreatestOf
  <2>2. Page \ {z} \subseteq Below(z)
    BY <1>4, <2>1
  <2>3. IsFiniteSet(Below(z)) /\ Cardinality(Below(z)) < ScanLimit
    BY <1>1, <1>2, <2>1, FS_Subset
  <2>4. IsFiniteSet(Page \ {z}) /\ Cardinality(Page \ {z}) = Cardinality(Page) - 1
    BY <1>4, <2>1, FS_RemoveElement
  <2> HIDE DEF Below
  <2>5. Cardinality(Page \ {z}) <= Cardinality(Below(z))
    BY <2>2, <2>3, FS_Subset
  <2>6. Cardinality(Page) \in Nat /\ Cardinality(Below(z)) \in Nat
    BY <1>4, <2>3, FS_CardinalityType
  <2>7. Cardinality(Page) <= ScanLimit
    BY <1>3, <2>3, <2>4, <2>5, <2>6
  <2> QED
    BY <1>3, <1>4, <2>7
<1> QED
  BY <1>5, <1>6

LEMMA SettlerStepTyped ==
    ASSUME SettlerInv, Wake \/ PassOver \/ EndPass
    PROVE  SettlerInv'
<1>1. UNCHANGED <<db, env, run>> /\ UNCHANGED <<score, events, receipts, booked, applier, today>>
  BY DEF Wake, PassOver, EndPass, vars, db, env
<1>2. IInv'
  <2>1. CoreInv'
    BY <1>1 DEF SettlerInv, IInv, CoreInv, TypeOK, RunsAreTyped, OwnersDiffer, Holder, PaysFor,
       WorkPaidOnce
  <2>2. BooksCover' /\ OnlyTheTrigger' /\ TriggerReplays'
    BY <1>1, StillBooks, StillReplays DEF SettlerInv, IInv, OnlyTheTrigger
  <2> QED
    BY <2>1, <2>2 DEF IInv
<1>3. STypeOK /\ run' = run
  BY <1>1 DEF SettlerInv
<1>4. CASE Wake
  <2>1. /\ pass'.pc = "scan" /\ pass'.page = Page
        /\ pass' \in [pc : {"asleep", "scan", "apply"}, page : SUBSET Receipt, short : BOOLEAN,
                      accepted : 0 .. MaxPerRun, last : Receipt \cup {0}]
    <3>1. PICK page : page = Page
      OBVIOUS
    <3>2. PICK short \in BOOLEAN : short = (Cardinality(Page) < ScanLimit)
      <4>1. CASE Cardinality(Page) < ScanLimit
        <5>1. TRUE = (Cardinality(Page) < ScanLimit)
          BY <4>1
        <5> QED
          BY <5>1, Zenon
      <4>2. CASE ~(Cardinality(Page) < ScanLimit)
        <5>1. FALSE = (Cardinality(Page) < ScanLimit)
          BY <4>2
        <5> QED
          BY <5>1, Zenon
      <4> QED
        BY <4>1, <4>2
    <3>3. pass' = [pc |-> "scan", page |-> page, short |-> short, accepted |-> 0, last |-> 0]
      BY <1>4, <3>1, <3>2 DEF Wake, Asleep
    <3>4. page \in SUBSET Receipt /\ 0 \in 0 .. MaxPerRun
      BY <3>1, PageFits, SettlerAssumption
    <3> QED
      BY <3>1, <3>3, <3>4
  <2> QED
    BY <1>2, <1>3, <1>4, <2>1, PageFits DEF Wake, STypeOK, SettlerInv
<1>5. CASE PassOver
  <2>1. pass.pc = "scan" /\ pass.page # {} /\ cursor' = cursor
    BY <1>5 DEF PassOver, Scanning
  <2>2. Oldest \in Receipt /\ Rest \in SUBSET Receipt /\ Cardinality(Rest) <= ScanLimit
    BY <1>3, <2>1, OldestIsRow
  <2>3. PICK o, rest : o = Oldest /\ rest = Rest
    OBVIOUS
  <2>4. /\ pass'.pc = pass.pc /\ pass'.page = rest
        /\ pass' \in [pc : {"asleep", "scan", "apply"}, page : SUBSET Receipt, short : BOOLEAN,
                      accepted : 0 .. MaxPerRun, last : Receipt \cup {0}]
    BY <1>3, <1>5, <2>2, <2>3 DEF PassOver, STypeOK
  <2> QED
    BY <1>2, <1>3, <2>1, <2>2, <2>3, <2>4 DEF STypeOK, SettlerInv
<1>6. CASE EndPass
  <2>1. pass.pc = "scan" /\ pass' = Asleep
    BY <1>6 DEF EndPass
  <2>2. cursor' \in Receipt \cup {0}
    BY <1>3, <1>6 DEF EndPass, STypeOK
  <2>3. /\ Asleep \in [pc : {"asleep", "scan", "apply"}, page : SUBSET Receipt, short : BOOLEAN,
                       accepted : 0 .. MaxPerRun, last : Receipt \cup {0}]
        /\ Cardinality(Asleep.page) <= ScanLimit /\ Asleep.pc = "asleep"
    BY SettlerAssumption, FS_EmptySet DEF Asleep
  <2> QED
    BY <1>2, <1>3, <2>1, <2>2, <2>3 DEF STypeOK, SettlerInv
<1> QED
  BY <1>4, <1>5, <1>6

LEMMA AcceptTyped ==
    ASSUME SettlerInv, Accept
    PROVE  SettlerInv'
<1>1. STypeOK /\ IInv /\ Settler \in Slot
  BY SettlerAssumption DEF SettlerInv
<1>2. /\ pass.pc = "scan" /\ pass.page # {} /\ pass.accepted < MaxPerRun /\ cursor' = cursor
      /\ Fetch(Settler, Presentation(Oldest))
  BY DEF Accept, Scanning
<1>3. /\ Oldest \in Receipt /\ Rest \in SUBSET Receipt /\ Cardinality(Rest) <= ScanLimit
      /\ Presentation(Oldest) \in Input
  BY <1>1, <1>2, OldestIsRow
<1>4. IInv' /\ run'[Settler].pc # "idle"
  BY <1>1, <1>2, <1>3, FetchKeeps
<1>5. PICK o, rest : o = Oldest /\ rest = Rest
  OBVIOUS
<1>6. pass.accepted + 1 \in 0 .. MaxPerRun
  BY <1>1, <1>2, SettlerAssumption DEF STypeOK
<1>7. /\ pass'.pc = "apply" /\ pass'.page = rest
      /\ pass' \in [pc : {"asleep", "scan", "apply"}, page : SUBSET Receipt, short : BOOLEAN,
                    accepted : 0 .. MaxPerRun, last : Receipt \cup {0}]
  BY <1>1, <1>3, <1>5, <1>6 DEF Accept, STypeOK
<1> QED
  BY <1>1, <1>2, <1>3, <1>4, <1>5, <1>7 DEF STypeOK, SettlerInv

\* The slot is emptied: when the pass has its answer, or by a restart.
LEMMA EmptiedTyped ==
    ASSUME SettlerInv, Applied \/ Restart
    PROVE  SettlerInv'
<1>1. STypeOK /\ IInv /\ Settler \in Slot /\ run \in [Slot -> RunRecord]
  BY SettlerAssumption DEF SettlerInv, IInv, CoreInv, RunsAreTyped
<1>2. run' = [run EXCEPT ![Settler] = Idle] /\ UNCHANGED <<db, env>>
  BY DEF Applied, Free, Restart
<1>3. IInv'
  BY <1>1, <1>2, RunDropped
<1>4. run'[Settler].pc = "idle"
  BY <1>1, <1>2, IdleTyped
<1>5. CASE Applied
  <2>1. /\ pass'.pc = "scan" /\ pass'.page = pass.page /\ cursor' = cursor
        /\ pass' \in [pc : {"asleep", "scan", "apply"}, page : SUBSET Receipt, short : BOOLEAN,
                      accepted : 0 .. MaxPerRun, last : Receipt \cup {0}]
    BY <1>1, <1>5 DEF Applied, STypeOK
  <2> QED
    BY <1>1, <1>3, <1>4, <2>1 DEF STypeOK, SettlerInv
<1>6. CASE Restart
  <2>1. /\ Asleep \in [pc : {"asleep", "scan", "apply"}, page : SUBSET Receipt, short : BOOLEAN,
                       accepted : 0 .. MaxPerRun, last : Receipt \cup {0}]
        /\ Cardinality(Asleep.page) <= ScanLimit /\ Asleep.pc = "asleep"
    BY SettlerAssumption, FS_EmptySet DEF Asleep
  <2>2. pass' = Asleep /\ cursor' = 0
    BY <1>6 DEF Restart
  <2> QED
    BY <1>3, <1>4, <2>1, <2>2 DEF STypeOK, SettlerInv
<1> QED
  BY <1>5, <1>6

LEMMA OtherTyped ==
    ASSUME SettlerInv, OtherStep \/ UNCHANGED svars
    PROVE  SettlerInv'
<1>1. STypeOK /\ IInv /\ UNCHANGED <<cursor, pass>> /\ Settler \in Slot
  BY SettlerAssumption DEF SettlerInv, OtherStep, svars
<1>2. [Next]_vars
  BY DEF OtherStep, Next, svars
<1>3. IInv'
  BY <1>1, <1>2, StepGood
<1>4. run'[Settler].pc = "idle" <=> run[Settler].pc = "idle"
  <2>1. ASSUME NEW s \in Slot, Advance(s) \/ Die(s)
        PROVE  run'[Settler].pc = "idle" <=> run[Settler].pc = "idle"
    BY <1>1, <2>1, AdvanceStaysBusy
  <2>2. ASSUME NEW s \in DOMAIN Request, NEW input \in Request[s], Fetch(s, input)
        PROVE  run'[Settler].pc = "idle" <=> run[Settler].pc = "idle"
    <3>1. s \in Slot /\ s # Settler /\ input \in Input
      BY ScoreAssumption, SettlerAssumption
    <3>2. run'[Settler] = run[Settler]
      BY <1>1, <2>2, <3>1, FetchMoves DEF IInv
    <3> QED
      BY <3>2
  <2>3. ASSUME (\E r \in Receipt : Mirror(r)) \/ NextDay \/ UNCHANGED vars
        PROVE  run'[Settler].pc = "idle" <=> run[Settler].pc = "idle"
    BY <2>3 DEF Mirror, NextDay, vars
  <2> QED
    BY <1>2, <2>1, <2>2, <2>3 DEF Next
<1>5. STypeOK'
  BY <1>1, <1>4 DEF STypeOK
<1> QED
  BY <1>3, <1>5 DEF SettlerInv

LEMMA SettlerInvariant == SSpec => []SettlerInv
<1>1. SInit => SettlerInv
  <2> SUFFICES ASSUME SInit PROVE SettlerInv
    OBVIOUS
  <2>1. IInv
    BY InitGood DEF SInit
  <2>2. run[Settler].pc = "idle"
    BY SettlerAssumption DEF SInit, Init, Idle
  <2>3. STypeOK
    BY <2>2, SettlerAssumption, FS_EmptySet DEF SInit, STypeOK, Asleep
  <2> QED
    BY <2>1, <2>3 DEF SettlerInv
<1>2. SettlerInv /\ [SNext]_svars => SettlerInv'
  BY SettlerStepTyped, AcceptTyped, EmptiedTyped, OtherTyped DEF SNext, SettlerStep
<1> QED
  BY <1>1, <1>2, PTL DEF SSpec

\* The job's pass and its slot agree: updateRepId runs there only while a pass
\* waits for it, also across restarts (failed-receipt-settler.ts, running).
THEOREM PassesOwnTheirRun == SSpec => []STypeOK
<1>1. SettlerInv => STypeOK
  BY DEF SettlerInv
<1> QED
  BY <1>1, SettlerInvariant, PTL

(***************************************************************************)
(* The job keeps what score updates promise: a receipt that its subject    *)
(* and the job present at the same moment moves one score once, no budget  *)
(* is overdrawn, and with the trigger alone the rows replay to the score,  *)
(* although restarts drop runs that have spent their receipt               *)
(* (settleFailedReceiptsOnce).                                             *)
(***************************************************************************)
THEOREM SettlingMovesOnce == SSpec => [](OneMovePerReceipt /\ GainsWithinBudget /\ TriggerReplays)
<1>1. SettlerInv => OneMovePerReceipt /\ GainsWithinBudget /\ TriggerReplays
  BY OwnersMoveOnce, BooksBoundGains DEF SettlerInv, IInv
<1> QED
  BY <1>1, SettlerInvariant, PTL
=============================================================================
