---------------------------- MODULE PanelProofs ----------------------------
(***************************************************************************)
(* Theorems about the dispute panel beside deferred settlement, for any    *)
(* requests, handlers and workers, and any number of faults: the panel     *)
(* leaves every promise of the settlement in place, a row is ruled on      *)
(* once, and a party's ruling excludes the settlement's reward.            *)
(***************************************************************************)
EXTENDS PanelInvariant, SettlementProofs

-----------------------------------------------------------------------------
(* The panel beside the contract *)

\* What the panel and the disputes do to the contract, a party may do.
LEMMA PanelStepSettles ==
    ASSUME [PanelNext]_allVars
    PROVE  [Next]_vars
<1>1. CASE SettlementNext
  <2>1. ASSUME NEW r \in Request, DeliveryWithPanel(r)
        PROVE  DeliveryStep(r)
    BY <2>1 DEF DeliveryWithPanel, DeliveryStep
  <2> QED
    BY <1>1, <2>1 DEF SettlementNext, Next
<1>2. ASSUME NEW d \in Disputer, DisputeContract(d) \/ FileDispute(d)
      PROVE  [Next]_vars
  <2>1. CASE DisputeContract(d)
    BY <2>1 DEF DisputeContract, Dispute, Next
  <2>2. CASE FileDispute(d)
    BY <2>2 DEF FileDispute
  <2> QED
    BY <1>2, <2>1, <2>2
<1>3. ASSUME NEW r \in Deliverer, FileVeto(r)
      PROVE  [Next]_vars
  BY <1>3 DEF FileVeto
<1>4. ASSUME NEW w \in Panel, PanelStep(w) \/ WorkerDies(w)
      PROVE  [Next]_vars
  <2>1. CASE ResolveContract(w)
    BY <2>1 DEF ResolveContract, Resolve, Next, vars, rows
  <2>2. CASE PickDispute(w) \/ ClaimDispute(w) \/ HearDispute(w) \/ WriteRow(w)
               \/ ApplyRuling(w) \/ FailRow(w) \/ WorkerDies(w)
    BY <2>2 DEF PickDispute, ClaimDispute, HearDispute, WriteRow, ApplyRuling, FailRow, WorkerDies
  <2> QED
    BY <1>4, <2>1, <2>2 DEF PanelStep
<1>5. CASE UNCHANGED allVars
  BY <1>5 DEF allVars
<1> QED
  BY <1>1, <1>2, <1>3, <1>4, <1>5 DEF PanelNext

(***************************************************************************)
(* The contract beside the panel is the contract of DeferredSettlement: no *)
(* dispute, veto, hearing or ruling, failed or not, does to it what a      *)
(* request could not do.                                                   *)
(***************************************************************************)
THEOREM PanelKeepsSettlement == PanelSpec => Spec
<1>1. PanelInit => Init
  BY DEF PanelInit
<1>2. [PanelNext]_allVars => [Next]_vars
  BY PanelStepSettles
<1> QED
  BY <1>1, <1>2, PTL DEF PanelSpec, Spec

\* A contested contract can only be resolved.
LEMMA ContestedStays ==
    ASSUME IInv, [Next]_vars, Contested
    PROVE  Contested'
<1>1. TypeOK /\ contract \in Contract
  BY DEF IInv, TypeOK
<1>2. ASSUME NEW r \in Request, EscrowStep(r)
      PROVE  Contested'
  <2>1. CASE LinkPayment(r)
    BY <1>1, <2>1, TriggerAllows DEF LinkPayment, UpdateContract, Contract, Contested
  <2>2. CASE EscrowStarts(r) \/ HoldPayment(r)
    BY <2>2 DEF EscrowStarts, HoldPayment, rows, Contested
  <2> QED
    BY <1>2, <2>1, <2>2 DEF EscrowStep
<1>3. ASSUME NEW r \in Request, DeliveryStep(r)
      PROVE  Contested'
  <2>1. CASE FileResult(r)
    BY <1>1, <2>1, TriggerAllows DEF FileResult, UpdateContract, Contract, Contested
  <2>2. CASE RouteToDispute(r)
    BY <1>1, <2>2 DEF RouteToDispute, UpdateContract, Contract, Contested
  <2>3. CASE FulfilDirectly(r)
    BY <2>3 DEF FulfilDirectly, Contested
  <2>4. CASE TakeWork(r) \/ HandlerThrows(r) \/ RewardDelivery(r)
    BY <2>4 DEF TakeWork, HandlerThrows, RewardDelivery, rows, Contested
  <2> QED
    BY <1>3, <2>1, <2>2, <2>3, <2>4 DEF DeliveryStep
<1>4. ASSUME NEW r \in Request, ReleaseStep(r)
      PROVE  Contested'
  <2>1. CASE Finalize(r)
    BY <1>1, <2>1, TriggerAllows DEF Finalize, UpdateContract, Contract, Contested
  <2>2. CASE CloseContract(r)
    BY <1>1, <2>2, TriggerAllows DEF CloseContract, UpdateContract, Contract, Contested
  <2>3. CASE LookUp(r) \/ VoidExpired(r) \/ Claim(r) \/ SettleAnswered(r) \/ SettleLost(r)
               \/ Record(r) \/ HandBack(r) \/ RewardSettlement(r) \/ VoidLookUp(r) \/ VoidPayment(r)
    BY <2>3 DEF LookUp, VoidExpired, Claim, SettleAnswered, SettleLost, Record, HandBack,
                RewardSettlement, VoidLookUp, VoidPayment, rows, Contested
  <2> QED
    BY <1>4, <2>1, <2>2, <2>3 DEF ReleaseStep
<1>5. ASSUME NEW r \in Request, ArrivalStep(r) \/ ChainStep(r) \/ Die(r)
      PROVE  Contested'
  BY <1>5 DEF ArrivalStep, SatisfyStarts, SweepContracts, SweepSettlements, ChainStep,
              TransferLands, TransferRefused, Die, rows, Contested
<1>6. CASE Cancel \/ Dispute \/ Resolve \/ WindowPasses
  BY <1>1, <1>6, TriggerAllows DEF Cancel, Dispute, Resolve, WindowPasses, SetStatus,
                                   Contract, rows, Contested
<1>7. CASE UNCHANGED vars
  BY <1>7 DEF vars, rows, Contested
<1> QED
  BY <1>2, <1>3, <1>4, <1>5, <1>6, <1>7 DEF Next

-----------------------------------------------------------------------------
(* What a step of the panel's own does to its state *)

RowStatus == {"pending", "processing", "completed", "failed", "skipped"}

LEMMA SetRowChanges ==
    ASSUME queue \in Seq(Row), NEW i \in DOMAIN queue, NEW status \in RowStatus,
           SetRow(i, status)
    PROVE  /\ queue' \in Seq(Row) /\ DOMAIN queue' = DOMAIN queue
           /\ \A j \in DOMAIN queue : queue'[j].by = queue[j].by
           /\ \A j \in DOMAIN queue : queue'[j].rulings = queue[j].rulings
           /\ \A j \in DOMAIN queue \ {i} : queue'[j].status = queue[j].status
           /\ queue'[i].status = status
<1>1. queue[i] \in Row
  OBVIOUS
<1>2. queue' = [queue EXCEPT ![i] = [queue[i] EXCEPT !.status = status]]
  BY DEF SetRow
<1>3. [queue[i] EXCEPT !.status = status] \in Row
  BY <1>1 DEF Row, RowStatus
<1>4. queue' \in Seq(Row) /\ DOMAIN queue' = DOMAIN queue
  BY <1>2, <1>3
<1>5. /\ [queue[i] EXCEPT !.status = status].by = queue[i].by
      /\ [queue[i] EXCEPT !.status = status].rulings = queue[i].rulings
      /\ [queue[i] EXCEPT !.status = status].status = status
  BY <1>1 DEF Row
<1> QED
  BY <1>2, <1>4, <1>5

LEMMA FileChanges ==
    ASSUME queue \in Seq(Row), NEW f \in Disputer \cup Deliverer, File(f)
    PROVE  /\ queue' \in Seq(Row) /\ DOMAIN queue \subseteq DOMAIN queue'
           /\ \A j \in DOMAIN queue : queue'[j] = queue[j]
           /\ \A j \in DOMAIN queue' \ DOMAIN queue :
                 queue'[j].by = f /\ queue'[j].rulings = 0 /\ queue'[j].status = "pending"
<1>1. [by |-> f, rulings |-> 0, status |-> "pending"] \in Row
  BY DEF Row
<1>2. queue' = Append(queue, [by |-> f, rulings |-> 0, status |-> "pending"])
  BY DEF File
<1>3. queue' \in Seq(Row) /\ Len(queue') = Len(queue) + 1
  BY <1>1, <1>2
<1>4. DOMAIN queue = 1..Len(queue) /\ DOMAIN queue' = 1..(Len(queue) + 1) /\ Len(queue) \in Nat
  BY <1>3
<1>5. \A j \in DOMAIN queue' \ DOMAIN queue : j = Len(queue) + 1
  BY <1>4
<1> QED
  BY <1>2, <1>3, <1>4, <1>5

LEMMA HearChanges ==
    ASSUME panel \in [Panel -> Hearing], NEW w \in Panel, NEW hearing \in Hearing,
           Hear(w, hearing)
    PROVE  /\ panel' \in [Panel -> Hearing]
           /\ panel'[w] = hearing
           /\ \A v \in Panel \ {w} : panel'[v] = panel[v]
BY DEF Hear

LEMMA StopChanges ==
    ASSUME panel \in [Panel -> Hearing], NEW w \in Panel, Stop(w)
    PROVE  /\ panel' \in [Panel -> Hearing]
           /\ panel'[w].pc = "idle"
           /\ \A v \in Panel \ {w} : panel'[v] = panel[v]
<1>1. Idle \in Hearing /\ Idle.pc = "idle"
  BY DEF Idle, Hearing
<1> QED
  BY <1>1, HearChanges DEF Stop

LEMMA FaultCounts ==
    ASSUME faults \in 0..MaxFaults, Fault
    PROVE  faults' \in 0..MaxFaults
BY PanelAssumption DEF Fault

-----------------------------------------------------------------------------
(* One lemma for each action: the settlement's part of the state keeps its *)
(* type, a contested contract stays contested, and so the invariant stays. *)

Beside == TypeOK' /\ (Contested => Contested')

LEMMA DisputeContractGood ==
    ASSUME PanelInv, Beside, NEW d \in Disputer, DisputeContract(d)
    PROVE  PanelInv'
<1>1. contract \in Contract /\ disputer \in [Disputer -> {"idle", "file", "done"}]
  BY DEF PanelInv, PanelTypeOK, TypeOK
<1>2. Contested'
  BY <1>1 DEF DisputeContract, SetStatus, Contract, Contested
<1>3. PanelTypeOK'
  BY DEF PanelInv, PanelTypeOK, Beside, DisputeContract
<1>4. RowsHaveOneWorker' /\ RulingsAreOwed'
  BY DEF PanelInv, RowsHaveOneWorker, RulingsAreOwed, OneRulingPerRow, DisputeContract
<1>5. PartiesDisputeFirst'
  BY <1>2 DEF PartiesDisputeFirst
<1> QED
  BY <1>3, <1>4, <1>5 DEF PanelInv

\* A new row is pending, is unruled and is in nobody's hands.
LEMMA FileGood ==
    ASSUME PanelInv, NEW f \in Disputer \cup Deliverer, File(f), UNCHANGED panel
    PROVE  RowsHaveOneWorker' /\ RulingsAreOwed'
<1>1. /\ DOMAIN queue \subseteq DOMAIN queue'
      /\ \A j \in DOMAIN queue : queue'[j] = queue[j]
      /\ \A j \in DOMAIN queue' \ DOMAIN queue : queue'[j].rulings = 0
  BY FileChanges DEF PanelInv, PanelTypeOK
<1>2. RowsHaveOneWorker'
  BY <1>1 DEF PanelInv, RowsHaveOneWorker, Hearings
<1>3. OneRulingPerRow'
  BY <1>1 DEF PanelInv, RulingsAreOwed, OneRulingPerRow
<1>4. RulingsAreOwed'
  BY <1>1, <1>3 DEF PanelInv, RowsHaveOneWorker, RulingsAreOwed, Hearings
<1> QED
  BY <1>2, <1>4

LEMMA FileDisputeGood ==
    ASSUME PanelInv, Beside, NEW d \in Disputer, FileDispute(d)
    PROVE  PanelInv'
<1>1. Contested'
  BY DEF PanelInv, PartiesDisputeFirst, Beside, FileDispute
<1>2. disputer' \in [Disputer -> {"idle", "file", "done"}]
  BY DEF PanelInv, PanelTypeOK, FileDispute
<1>3. PartiesDisputeFirst'
  BY <1>1 DEF PartiesDisputeFirst
<1>4. CASE File(d) /\ UNCHANGED <<panel, faults>>
  <2>1. PanelTypeOK'
    BY <1>2, <1>4, FileChanges DEF PanelInv, PanelTypeOK, Beside
  <2> QED
    BY <1>3, <1>4, <2>1, FileGood DEF PanelInv
<1>5. CASE Fault /\ UNCHANGED <<queue, panel>>
  <2>1. PanelTypeOK'
    BY <1>2, <1>5, FaultCounts DEF PanelInv, PanelTypeOK, Beside
  <2>2. RowsHaveOneWorker' /\ RulingsAreOwed'
    BY <1>5 DEF PanelInv, RowsHaveOneWorker, RulingsAreOwed, OneRulingPerRow
  <2> QED
    BY <1>3, <2>1, <2>2 DEF PanelInv
<1> QED
  BY <1>4, <1>5 DEF FileDispute

LEMMA FileVetoGood ==
    ASSUME PanelInv, Beside, NEW r \in Deliverer, FileVeto(r)
    PROVE  PanelInv'
<1>1. File(r) /\ UNCHANGED <<disputer, panel, faults>>
  BY DEF FileVeto
<1>2. PanelTypeOK'
  BY <1>1, FileChanges DEF PanelInv, PanelTypeOK, Beside
<1>3. PartiesDisputeFirst'
  <2>1. r \notin Disputer
    BY PanelAssumption DEF Request
  <2>2. /\ \A j \in DOMAIN queue : queue'[j] = queue[j]
        /\ \A j \in DOMAIN queue' \ DOMAIN queue : queue'[j].by = r
    BY <1>1, FileChanges DEF PanelInv, PanelTypeOK
  <2> QED
    BY <1>1, <2>1, <2>2 DEF PanelInv, PartiesDisputeFirst, Beside
<1> QED
  BY <1>1, <1>2, <1>3, FileGood DEF PanelInv

(***************************************************************************)
(* A worker's step is good when it touches no row but its own, which it    *)
(* holds or takes, and the rows justify the phase it reaches.              *)
(***************************************************************************)
Holds(w, i) == panel[w].row = i /\ (panel[w].pc \in Hearings \/ queue[i].status = "pending")

OnlyWorks(w) ==
    /\ panel' \in [Panel -> Hearing]
    /\ \A v \in Panel \ {w} : panel'[v] = panel[v]
    /\ disputer' = disputer
    /\ faults' \in 0..MaxFaults

GoodHearing(w) ==
    /\ panel'[w].pc # "idle" => panel'[w].row \in DOMAIN queue
    /\ panel'[w].pc \in Hearings =>
          Holds(w, panel'[w].row) /\ queue'[panel'[w].row].status # "pending"
    /\ panel'[w].pc \in Hearings \ {"fail"} => queue'[panel'[w].row].rulings = 0
    /\ panel'[w].pc = "write" => panel'[w].to # "none"

GoodQueue(w) ==
    /\ queue' \in Seq(Row) /\ DOMAIN queue' = DOMAIN queue
    /\ \A i \in DOMAIN queue :
          /\ queue'[i].by = queue[i].by
          /\ \/ queue'[i].status = queue[i].status /\ queue'[i].rulings = queue[i].rulings
             \/ Holds(w, i)
    /\ OneRulingPerRow'

LEMMA WorkerGood ==
    ASSUME PanelInv, Beside, NEW w \in Panel, OnlyWorks(w), GoodHearing(w), GoodQueue(w)
    PROVE  PanelInv'
<1>1. PanelTypeOK'
  BY DEF PanelInv, PanelTypeOK, Beside, OnlyWorks, GoodQueue
<1>2. ASSUME NEW v \in Panel \ {w}, panel[v].pc \in Hearings
      PROVE  /\ ~Holds(w, panel[v].row)
             /\ panel[v].row \in DOMAIN queue
             /\ queue'[panel[v].row].status # "pending"
             /\ queue'[panel[v].row].rulings = queue[panel[v].row].rulings
  <2>1. panel[v].row \in DOMAIN queue /\ queue[panel[v].row].status # "pending"
    BY <1>2 DEF PanelInv, RowsHaveOneWorker, Hearings
  <2>2. panel[w].pc \in Hearings => panel[w].row # panel[v].row
    BY <1>2 DEF PanelInv, RowsHaveOneWorker
  <2> QED
    BY <2>1, <2>2 DEF Holds, GoodQueue
<1>3. RowsHaveOneWorker'
  <2>1. ASSUME NEW v \in Panel, panel'[v].pc # "idle"
        PROVE  panel'[v].row \in DOMAIN queue'
    BY <2>1 DEF PanelInv, RowsHaveOneWorker, OnlyWorks, GoodHearing, GoodQueue
  <2>2. ASSUME NEW v \in Panel, panel'[v].pc \in Hearings
        PROVE  queue'[panel'[v].row].status # "pending"
    BY <1>2, <2>2 DEF OnlyWorks, GoodHearing
  <2>3. ASSUME NEW u \in Panel, NEW v \in Panel, u # v,
               panel'[u].pc \in Hearings, panel'[v].pc \in Hearings
        PROVE  panel'[u].row # panel'[v].row
    <3>1. CASE u = w
      BY <1>2, <2>3, <3>1 DEF OnlyWorks, GoodHearing
    <3>2. CASE v = w
      BY <1>2, <2>3, <3>2 DEF OnlyWorks, GoodHearing
    <3>3. CASE u # w /\ v # w
      BY <2>3, <3>3 DEF PanelInv, RowsHaveOneWorker, OnlyWorks
    <3> QED
      BY <3>1, <3>2, <3>3
  <2> QED
    BY <2>1, <2>2, <2>3 DEF RowsHaveOneWorker
<1>4. RulingsAreOwed'
  <2>1. ASSUME NEW v \in Panel, panel'[v].pc \in Hearings \ {"fail"}
        PROVE  queue'[panel'[v].row].rulings = 0
    BY <1>2, <2>1 DEF PanelInv, RulingsAreOwed, OnlyWorks, GoodHearing
  <2>2. ASSUME NEW v \in Panel, panel'[v].pc = "write"
        PROVE  panel'[v].to # "none"
    BY <2>2 DEF PanelInv, RulingsAreOwed, OnlyWorks, GoodHearing
  <2> QED
    BY <2>1, <2>2 DEF RulingsAreOwed, GoodQueue
<1>5. PartiesDisputeFirst'
  BY DEF PanelInv, PartiesDisputeFirst, Beside, OnlyWorks, GoodQueue
<1> QED
  BY <1>1, <1>3, <1>4, <1>5 DEF PanelInv

\* A step that leaves the rows alone.
LEMMA SameQueueGood ==
    ASSUME PanelInv, NEW w \in Panel, UNCHANGED queue
    PROVE  GoodQueue(w)
BY DEF PanelInv, PanelTypeOK, RulingsAreOwed, OneRulingPerRow, GoodQueue

\* A step that writes the status of the worker's own row, and rules on nothing.
LEMMA SetRowGood ==
    ASSUME PanelInv, NEW w \in Panel, NEW i \in DOMAIN queue, NEW status \in RowStatus,
           Holds(w, i), SetRow(i, status), status = "pending" => queue[i].rulings = 0
    PROVE  GoodQueue(w)
<1>1. queue \in Seq(Row)
  BY DEF PanelInv, PanelTypeOK
<1>2. OneRulingPerRow'
  BY <1>1, SetRowChanges DEF PanelInv, RulingsAreOwed, OneRulingPerRow
<1> QED
  BY <1>1, <1>2, SetRowChanges DEF GoodQueue

\* What a worker that is not idle knows of itself and of its row.
LEMMA OwnRow ==
    ASSUME PanelInv, NEW w \in Panel, panel[w].pc # "idle"
    PROVE  /\ panel \in [Panel -> Hearing] /\ panel[w] \in Hearing
           /\ panel[w].row \in DOMAIN queue
           /\ panel[w].pc \in Hearings => Holds(w, panel[w].row)
           /\ panel[w].pc \in Hearings \ {"fail"} => queue[panel[w].row].rulings = 0
           /\ panel[w].pc = "write" => panel[w].to # "none"
           /\ queue[panel[w].row].rulings \in Nat
           /\ faults \in 0..MaxFaults
<1>1. panel \in [Panel -> Hearing] /\ queue \in Seq(Row) /\ faults \in 0..MaxFaults
  BY DEF PanelInv, PanelTypeOK
<1>2. panel[w].row \in DOMAIN queue
  BY DEF PanelInv, RowsHaveOneWorker
<1>3. queue[panel[w].row] \in Row
  BY <1>1, <1>2
<1>4. queue[panel[w].row].rulings \in Nat
  BY <1>3 DEF Row
<1> QED
  BY <1>1, <1>2, <1>4 DEF PanelInv, RulingsAreOwed, Holds

LEMMA PickDisputeGood ==
    ASSUME PanelInv, Beside, NEW w \in Panel, PickDispute(w)
    PROVE  PanelInv'
<1>1. panel \in [Panel -> Hearing] /\ queue \in Seq(Row) /\ faults \in 0..MaxFaults
  BY DEF PanelInv, PanelTypeOK
<1>2. PICK i \in DOMAIN queue : Hear(w, [Idle EXCEPT !.pc = "claim", !.row = i])
  BY DEF PickDispute
<1>3. /\ [Idle EXCEPT !.pc = "claim", !.row = i] \in Hearing
      /\ [Idle EXCEPT !.pc = "claim", !.row = i].pc = "claim"
      /\ [Idle EXCEPT !.pc = "claim", !.row = i].row = i
  <2>1. i \in Nat
    BY <1>1
  <2>2. Idle \in Hearing
    BY DEF Idle, Hearing
  <2> QED
    BY <2>1, <2>2 DEF Hearing
<1>4. /\ panel' \in [Panel -> Hearing] /\ panel'[w].pc = "claim" /\ panel'[w].row = i
      /\ \A v \in Panel \ {w} : panel'[v] = panel[v]
  BY <1>1, <1>2, <1>3, HearChanges
<1>5. OnlyWorks(w) /\ GoodHearing(w)
  BY <1>1, <1>4 DEF PickDispute, OnlyWorks, GoodHearing, Hearings
<1> QED
  BY <1>5, SameQueueGood, WorkerGood DEF PickDispute

\* A worker that stops, whatever it held.
LEMMA StopGood ==
    ASSUME PanelInv, NEW w \in Panel, Stop(w), UNCHANGED disputer,
           faults' \in 0..MaxFaults
    PROVE  OnlyWorks(w) /\ GoodHearing(w)
<1>1. /\ panel' \in [Panel -> Hearing] /\ panel'[w].pc = "idle"
      /\ \A v \in Panel \ {w} : panel'[v] = panel[v]
  BY StopChanges DEF PanelInv, PanelTypeOK
<1> QED
  BY <1>1 DEF OnlyWorks, GoodHearing, Hearings

LEMMA ClaimDisputeGood ==
    ASSUME PanelInv, Beside, NEW w \in Panel, ClaimDispute(w)
    PROVE  PanelInv'
<1> DEFINE i    == panel[w].row
           free == queue[i].status = "pending"
<1>1. panel[w].pc = "claim"
  BY DEF ClaimDispute
<1>2. /\ panel \in [Panel -> Hearing] /\ panel[w] \in Hearing /\ i \in DOMAIN queue
      /\ queue[i].rulings \in Nat /\ faults \in 0..MaxFaults /\ queue \in Seq(Row)
  BY <1>1, OwnRow DEF PanelInv, PanelTypeOK
<1>3. free => Holds(w, i) /\ queue[i].rulings = 0
  BY <1>2 DEF PanelInv, RulingsAreOwed, OneRulingPerRow, Holds
<1>4. CASE free /\ SetRow(i, "processing") /\ Hear(w, [panel[w] EXCEPT !.pc = "hear"])
           /\ UNCHANGED <<disputer, faults>>
  <2>1. /\ [panel[w] EXCEPT !.pc = "hear"] \in Hearing
        /\ [panel[w] EXCEPT !.pc = "hear"].pc = "hear"
        /\ [panel[w] EXCEPT !.pc = "hear"].row = i
    BY <1>2 DEF Hearing
  <2>2. /\ panel' \in [Panel -> Hearing] /\ panel'[w].pc = "hear" /\ panel'[w].row = i
        /\ \A v \in Panel \ {w} : panel'[v] = panel[v]
    BY <1>2, <1>4, <2>1, HearChanges
  <2>3. queue'[i].status = "processing" /\ queue'[i].rulings = queue[i].rulings
    BY <1>2, <1>4, SetRowChanges DEF RowStatus
  <2>4. OnlyWorks(w) /\ GoodHearing(w)
    BY <1>2, <1>3, <1>4, <2>2, <2>3 DEF OnlyWorks, GoodHearing
  <2>5. GoodQueue(w)
    BY <1>2, <1>3, <1>4, SetRowGood DEF RowStatus
  <2> QED
    BY <2>4, <2>5, WorkerGood
<1>5. CASE Stop(w) /\ ((free /\ SetRow(i, "processing")) \/ UNCHANGED queue)
           /\ UNCHANGED disputer /\ (Fault \/ UNCHANGED faults)
  <2>1. OnlyWorks(w) /\ GoodHearing(w)
    BY <1>2, <1>5, FaultCounts, StopGood
  <2>2. GoodQueue(w)
    BY <1>2, <1>3, <1>5, SetRowGood, SameQueueGood DEF RowStatus
  <2> QED
    BY <2>1, <2>2, WorkerGood
<1> QED
  BY <1>4, <1>5 DEF ClaimDispute

LEMMA HearDisputeGood ==
    ASSUME PanelInv, Beside, NEW w \in Panel, HearDispute(w)
    PROVE  PanelInv'
<1> DEFINE i == panel[w].row
           HeardOut ==
             \E hearing \in Hearing :
                /\ Hear(w, hearing)
                /\ hearing.pc \in {"write", "fail"} /\ hearing.row = i
                /\ hearing.pc = "write" => hearing.to # "none"
<1>1. panel[w].pc = "hear" /\ UNCHANGED <<queue, disputer, faults>>
  BY DEF HearDispute
<1>2. /\ panel \in [Panel -> Hearing] /\ panel[w] \in Hearing /\ i \in DOMAIN queue
      /\ Holds(w, i) /\ queue[i].rulings = 0 /\ faults \in 0..MaxFaults
  BY <1>1, OwnRow DEF Hearings
<1>3. queue[i].status # "pending"
  BY <1>1 DEF PanelInv, RowsHaveOneWorker, Hearings
<1>4. HeardOut
  <2>1. ASSUME NEW fault \in {"someone", "nobody"},
               Hear(w, [panel[w] EXCEPT !.pc = "write", !.to = "completed", !.fault = fault])
        PROVE  HeardOut
    <3> DEFINE hearing == [panel[w] EXCEPT !.pc = "write", !.to = "completed", !.fault = fault]
    <3>1. hearing \in Hearing /\ hearing.pc = "write" /\ hearing.row = i /\ hearing.to = "completed"
      BY <1>2 DEF Hearing
    <3>2. Hear(w, hearing)
      BY <2>1
    <3> HIDE DEF hearing
    <3> QED
      BY <3>1, <3>2
  <2>2. ASSUME NEW to \in {"skipped", "pending"},
               Hear(w, [panel[w] EXCEPT !.pc = "write", !.to = to])
        PROVE  HeardOut
    <3> DEFINE hearing == [panel[w] EXCEPT !.pc = "write", !.to = to]
    <3>1. hearing \in Hearing /\ hearing.pc = "write" /\ hearing.row = i /\ hearing.to = to
      BY <1>2 DEF Hearing
    <3>2. Hear(w, hearing)
      BY <2>2
    <3> HIDE DEF hearing
    <3> QED
      BY <3>1, <3>2
  <2>3. CASE Hear(w, [panel[w] EXCEPT !.pc = "fail"])
    BY <1>2, <2>3 DEF Hearing
  <2> QED
    BY <2>1, <2>2, <2>3 DEF HearDispute
<1>5. /\ panel' \in [Panel -> Hearing]
      /\ \A v \in Panel \ {w} : panel'[v] = panel[v]
      /\ panel'[w].pc \in {"write", "fail"} /\ panel'[w].row = i
      /\ panel'[w].pc = "write" => panel'[w].to # "none"
  BY <1>2, <1>4, HearChanges
<1>6. OnlyWorks(w) /\ GoodHearing(w)
  BY <1>1, <1>2, <1>3, <1>5 DEF OnlyWorks, GoodHearing
<1> QED
  BY <1>1, <1>6, SameQueueGood, WorkerGood

\* A worker that goes on with the row it holds.
LEMMA GoesOnGood ==
    ASSUME PanelInv, NEW w \in Panel, panel[w].pc \in Hearings,
           NEW pc \in {"resolve", "rule", "fail"},
           Hear(w, [panel[w] EXCEPT !.pc = pc]), UNCHANGED disputer,
           faults' \in 0..MaxFaults, queue'[panel[w].row].status # "pending",
           pc # "fail" => queue'[panel[w].row].rulings = 0
    PROVE  OnlyWorks(w) /\ GoodHearing(w)
<1>1. /\ panel \in [Panel -> Hearing] /\ panel[w] \in Hearing
      /\ panel[w].row \in DOMAIN queue /\ Holds(w, panel[w].row)
  BY OwnRow DEF Hearings
<1>2. /\ [panel[w] EXCEPT !.pc = pc] \in Hearing
      /\ [panel[w] EXCEPT !.pc = pc].pc = pc
      /\ [panel[w] EXCEPT !.pc = pc].row = panel[w].row
  BY <1>1 DEF Hearing
<1>3. /\ panel' \in [Panel -> Hearing] /\ panel'[w].pc = pc /\ panel'[w].row = panel[w].row
      /\ \A v \in Panel \ {w} : panel'[v] = panel[v]
  BY <1>1, <1>2, HearChanges
<1> QED
  BY <1>1, <1>3 DEF OnlyWorks, GoodHearing

LEMMA WriteRowGood ==
    ASSUME PanelInv, Beside, NEW w \in Panel, WriteRow(w)
    PROVE  PanelInv'
<1> DEFINE i == panel[w].row
<1>1. panel[w].pc = "write" /\ UNCHANGED disputer
  BY DEF WriteRow
<1>2. /\ panel[w] \in Hearing /\ i \in DOMAIN queue /\ Holds(w, i)
      /\ queue[i].rulings = 0 /\ panel[w].to # "none" /\ faults \in 0..MaxFaults
  BY <1>1, OwnRow DEF Hearings
<1>3. queue[i].status # "pending" /\ queue \in Seq(Row)
  BY <1>1 DEF PanelInv, PanelTypeOK, RowsHaveOneWorker, Hearings
<1>4. panel[w].to \in RowStatus
  BY <1>2 DEF Hearing, RowStatus
<1>5. faults' \in 0..MaxFaults
  BY <1>2, FaultCounts DEF WriteRow
<1>6. /\ GoodQueue(w) /\ queue'[i].rulings = 0
      /\ panel[w].to = "completed" => queue'[i].status # "pending"
  <2>1. CASE SetRow(i, panel[w].to)
    BY <1>2, <1>3, <1>4, <2>1, SetRowGood, SetRowChanges
  <2>2. CASE UNCHANGED queue
    BY <1>2, <1>3, <2>2, SameQueueGood
  <2> QED
    BY <2>1, <2>2 DEF WriteRow
<1>7. OnlyWorks(w) /\ GoodHearing(w)
  <2>1. CASE panel[w].to = "completed" /\ Hear(w, [panel[w] EXCEPT !.pc = "resolve"])
    BY <1>1, <1>5, <1>6, <2>1, GoesOnGood DEF Hearings
  <2>2. CASE Stop(w)
    BY <1>1, <1>5, <2>2, StopGood
  <2> QED
    BY <2>1, <2>2 DEF WriteRow
<1> QED
  BY <1>6, <1>7, WorkerGood

LEMMA ResolveContractGood ==
    ASSUME PanelInv, Beside, NEW w \in Panel, ResolveContract(w)
    PROVE  PanelInv'
<1> DEFINE i == panel[w].row
<1>1. panel[w].pc = "resolve" /\ UNCHANGED <<queue, disputer>>
  BY DEF ResolveContract
<1>2. queue[i].rulings = 0 /\ faults \in 0..MaxFaults
  BY <1>1, OwnRow DEF Hearings
<1>3. queue[i].status # "pending"
  BY <1>1 DEF PanelInv, RowsHaveOneWorker, Hearings
<1>4. faults' \in 0..MaxFaults
  BY <1>2, FaultCounts DEF ResolveContract
<1>5. OnlyWorks(w) /\ GoodHearing(w)
  BY <1>1, <1>2, <1>3, <1>4, GoesOnGood DEF ResolveContract, Hearings
<1> QED
  BY <1>1, <1>5, SameQueueGood, WorkerGood

LEMMA ApplyRulingGood ==
    ASSUME PanelInv, Beside, NEW w \in Panel, ApplyRuling(w)
    PROVE  PanelInv'
<1> DEFINE i == panel[w].row
<1>1. panel[w].pc = "rule" /\ UNCHANGED disputer
  BY DEF ApplyRuling
<1>2. /\ i \in DOMAIN queue /\ Holds(w, i) /\ queue[i].rulings = 0
      /\ faults \in 0..MaxFaults
  BY <1>1, OwnRow DEF Hearings
<1>3. queue[i].status # "pending" /\ queue \in Seq(Row)
  BY <1>1 DEF PanelInv, PanelTypeOK, RowsHaveOneWorker, Hearings
<1>4. faults' \in 0..MaxFaults
  BY <1>2, FaultCounts DEF ApplyRuling
<1>5. GoodQueue(w) /\ queue'[i].status # "pending"
  <2>1. CASE queue' = [queue EXCEPT ![i].rulings = @ + 1]
    <3>1. queue[i] \in Row
      BY <1>2, <1>3
    <3> DEFINE ruled == [queue[i] EXCEPT !.rulings = @ + 1]
    <3>2. /\ ruled \in Row /\ ruled.rulings = 1
          /\ ruled.status = queue[i].status /\ ruled.by = queue[i].by
      BY <1>2, <3>1 DEF Row
    <3>3. queue' = [queue EXCEPT ![i] = ruled]
      BY <2>1
    <3> HIDE DEF ruled
    <3>4. /\ queue' \in Seq(Row) /\ DOMAIN queue' = DOMAIN queue /\ queue'[i] = ruled
          /\ \A j \in DOMAIN queue \ {i} : queue'[j] = queue[j]
      BY <1>2, <1>3, <3>2, <3>3
    <3>5. OneRulingPerRow'
      BY <1>3, <3>2, <3>4 DEF PanelInv, RulingsAreOwed, OneRulingPerRow
    <3> QED
      BY <1>2, <1>3, <3>2, <3>4, <3>5 DEF GoodQueue
  <2>2. CASE UNCHANGED queue
    BY <1>3, <2>2, SameQueueGood
  <2> QED
    BY <2>1, <2>2 DEF ApplyRuling
<1>6. OnlyWorks(w) /\ GoodHearing(w)
  <2>1. CASE Hear(w, [panel[w] EXCEPT !.pc = "fail"])
    BY <1>1, <1>4, <1>5, <2>1, GoesOnGood DEF Hearings
  <2>2. CASE Stop(w)
    BY <1>1, <1>4, <2>2, StopGood
  <2> QED
    BY <2>1, <2>2 DEF ApplyRuling
<1> QED
  BY <1>5, <1>6, WorkerGood

LEMMA FailRowGood ==
    ASSUME PanelInv, Beside, NEW w \in Panel, FailRow(w)
    PROVE  PanelInv'
<1>1. panel[w].pc = "fail" /\ UNCHANGED disputer /\ Stop(w)
  BY DEF FailRow
<1>2. /\ panel[w].row \in DOMAIN queue /\ Holds(w, panel[w].row)
      /\ faults \in 0..MaxFaults
  BY <1>1, OwnRow DEF Hearings
<1>3. GoodQueue(w)
  BY <1>2, SetRowGood, SameQueueGood DEF FailRow, RowStatus
<1>4. OnlyWorks(w) /\ GoodHearing(w)
  BY <1>1, <1>2, FaultCounts, StopGood DEF FailRow
<1> QED
  BY <1>3, <1>4, WorkerGood

LEMMA WorkerDiesGood ==
    ASSUME PanelInv, Beside, NEW w \in Panel, WorkerDies(w)
    PROVE  PanelInv'
<1>1. faults' \in 0..MaxFaults
  BY FaultCounts DEF PanelInv, PanelTypeOK, WorkerDies
<1>2. OnlyWorks(w) /\ GoodHearing(w)
  BY <1>1, StopGood DEF WorkerDies
<1> QED
  BY <1>2, SameQueueGood, WorkerGood DEF WorkerDies

LEMMA BesideGood ==
    ASSUME PanelInv, Beside, UNCHANGED panelVars
    PROVE  PanelInv'
<1>1. PanelTypeOK' /\ RowsHaveOneWorker'
  BY DEF PanelInv, PanelTypeOK, RowsHaveOneWorker, Beside, panelVars
<1>2. RulingsAreOwed' /\ PartiesDisputeFirst'
  BY DEF PanelInv, RulingsAreOwed, OneRulingPerRow, PartiesDisputeFirst, Beside, panelVars
<1> QED
  BY <1>1, <1>2 DEF PanelInv

-----------------------------------------------------------------------------
(* The invariant, and what the run checks *)

LEMMA PanelInitGood ==
    ASSUME PanelInit
    PROVE  PanelInv
<1>1. IInv
  BY InitGood DEF PanelInit
<1>2. queue \in Seq(Row) /\ DOMAIN queue = {}
  BY DEF PanelInit
<1>3. panel \in [Panel -> Hearing] /\ \A w \in Panel : panel[w].pc = "idle"
  BY DEF PanelInit, Idle, Hearing
<1>4. PanelTypeOK
  BY <1>1, <1>2, <1>3, PanelAssumption DEF PanelInit, PanelTypeOK, IInv
<1>5. RowsHaveOneWorker /\ RulingsAreOwed /\ PartiesDisputeFirst
  BY <1>2, <1>3 DEF PanelInit, RowsHaveOneWorker, RulingsAreOwed, OneRulingPerRow,
                    PartiesDisputeFirst, Hearings
<1> QED
  BY <1>4, <1>5 DEF PanelInv

LEMMA PanelStepGood ==
    ASSUME IInv, PanelInv, [PanelNext]_allVars
    PROVE  PanelInv'
<1>1. [Next]_vars
  BY PanelStepSettles
<1>2. Beside
  BY <1>1, StepGood, ContestedStays DEF IInv, Beside
<1>3. CASE SettlementNext \/ UNCHANGED allVars
  BY <1>2, <1>3, BesideGood DEF SettlementNext, allVars
<1>4. ASSUME NEW d \in Disputer, DisputeContract(d) \/ FileDispute(d)
      PROVE  PanelInv'
  BY <1>2, <1>4, DisputeContractGood, FileDisputeGood
<1>5. ASSUME NEW r \in Deliverer, FileVeto(r)
      PROVE  PanelInv'
  BY <1>2, <1>5, FileVetoGood
<1>6. ASSUME NEW w \in Panel, PanelStep(w) \/ WorkerDies(w)
      PROVE  PanelInv'
  BY <1>2, <1>6, PickDisputeGood, ClaimDisputeGood, HearDisputeGood, WriteRowGood,
     ResolveContractGood, ApplyRulingGood, FailRowGood, WorkerDiesGood DEF PanelStep
<1> QED
  BY <1>3, <1>4, <1>5, <1>6 DEF PanelNext

(***************************************************************************)
(* What each phase of a worker says of its row, and each row a party filed *)
(* of the contract, beside the invariant of the settlement.                *)
(***************************************************************************)
THEOREM RowsAreJustified == PanelSpec => [](IInv /\ PanelInv)
<1>1. PanelInit => IInv /\ PanelInv
  BY InitGood, PanelInitGood DEF PanelInit
<1>2. IInv /\ PanelInv /\ [PanelNext]_allVars => IInv' /\ PanelInv'
  BY PanelStepSettles, StepGood, PanelStepGood
<1> QED
  BY <1>1, <1>2, PTL DEF PanelSpec

(***************************************************************************)
(* The rows of dispute_validation_queue, the requests and the workers      *)
(* beside them stay well typed.                                            *)
(***************************************************************************)
THEOREM PanelTyped == PanelSpec => []PanelTypeOK
<1>1. PanelInv => PanelTypeOK
  BY DEF PanelInv
<1> QED
  BY <1>1, RowsAreJustified, PTL

(***************************************************************************)
(* processOne's claim gated on "pending" keeps every row to one worker     *)
(* until its last write, so applyServiceDisputeResolution runs once for a  *)
(* row, however many workers race and whichever statements fail.           *)
(***************************************************************************)
THEOREM RowsAreRuledOnce == PanelSpec => []OneRulingPerRow
<1>1. PanelInv => OneRulingPerRow
  BY DEF PanelInv, RulingsAreOwed
<1> QED
  BY <1>1, RowsAreJustified, PTL

(***************************************************************************)
(* The dispute request updates the contract before it files its row, and   *)
(* the trigger lets nothing but a resolution follow: the ruling and the    *)
(* reward of finalizeSettledContract exclude each other.                   *)
(***************************************************************************)
THEOREM RulingsExcludeReward == PanelSpec => []RulingExcludesReward
<1>1. IInv /\ PanelInv => RulingExcludesReward
  BY DEF IInv, RewardedOnce, PanelInv, PartiesDisputeFirst, Contested, RulingExcludesReward
<1> QED
  BY <1>1, RowsAreJustified, PTL
=============================================================================
