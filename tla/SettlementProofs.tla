-------------------------- MODULE SettlementProofs --------------------------
(***************************************************************************)
(* Theorems about deferred settlement, for any number of requests of each  *)
(* kind and any of the faults: each action keeps the inductive invariant,   *)
(* its invariants hold, and it implements PayAfterDelivery.                *)
(***************************************************************************)
EXTENDS SettlementInvariant, TLAPS

-----------------------------------------------------------------------------
(* The moves of a request, and each action *)


(***************************************************************************)
(* What the moves of a request leave in its own record and in the others.  *)
(***************************************************************************)
LEMMA GotoMoves ==
    ASSUME TypeOK, NEW r \in Request, NEW pc \in Working, Goto(r, pc)
    PROVE  /\ req' \in [Request -> RequestState]
           /\ \A q \in Request \ {r} : req'[q] = req[q]
           /\ req'[r].pc = pc
           /\ req'[r].net = req[r].net
           /\ req'[r].stranded = req[r].stranded
BY DEF TypeOK, RequestState, Goto

LEMMA EndMoves ==
    ASSUME TypeOK, NEW r \in Request, NEW answer \in Answer, End(r, answer)
    PROVE  /\ req' \in [Request -> RequestState]
           /\ \A q \in Request \ {r} : req'[q] = req[q]
           /\ req'[r].pc = IF r \in Sweeper THEN "idle" ELSE "done"
           /\ req'[r].net = req[r].net
           /\ ~req'[r].stranded
<1>1. req[r].net \in {"none", "sent", "landed", "refused"}
  BY DEF TypeOK, RequestState
<1> QED
  BY <1>1 DEF TypeOK, RequestState, Answer, End

\* The moves that change what the facilitator holds of a request.
LEMMA NetMoves ==
    ASSUME TypeOK, NEW r \in Request, NEW net \in {"none", "sent", "landed", "refused"},
           req' = [req EXCEPT ![r].net = net]
    PROVE  /\ req' \in [Request -> RequestState]
           /\ \A q \in Request \ {r} : req'[q] = req[q]
           /\ req'[r].pc = req[r].pc
           /\ req'[r].net = net
           /\ req'[r].stranded = req[r].stranded
BY DEF TypeOK, RequestState

LEMMA NetGotoMoves ==
    ASSUME TypeOK, NEW r \in Request, NEW pc \in Working,
           NEW net \in {"none", "sent", "landed", "refused"},
           req' = [req EXCEPT ![r].pc = pc, ![r].net = net]
    PROVE  /\ req' \in [Request -> RequestState]
           /\ \A q \in Request \ {r} : req'[q] = req[q]
           /\ req'[r].pc = pc
           /\ req'[r].net = net
           /\ req'[r].stranded = req[r].stranded
<1>1. req[r] \in RequestState
  BY DEF TypeOK
<1> QED
  BY <1>1 DEF TypeOK, RequestState

\* The moves of the sweep, of a lost answer, of an answer and of the claim.
LEMMA SweepMoves ==
    ASSUME TypeOK, NEW r \in Request, SweepContracts(r), ~IsStranded
    PROVE  /\ req' \in [Request -> RequestState]
           /\ \A q \in Request \ {r} : req'[q] = req[q]
           /\ req'[r].pc = "sweep"
           /\ req'[r].net = req[r].net
           /\ ~req'[r].stranded
<1> DEFINE found == IsStranded
<1>1. found = FALSE /\ req' = [req EXCEPT ![r].pc = "sweep", ![r].stranded = found]
  BY DEF SweepContracts
<1>2. req[r] \in RequestState
  BY DEF TypeOK
<1> HIDE DEF found
<1> QED
  BY <1>1, <1>2 DEF TypeOK, RequestState, Working

LEMMA LostMoves ==
    ASSUME TypeOK, NEW r \in Request, SettleLost(r)
    PROVE  /\ req' \in [Request -> RequestState]
           /\ \A q \in Request \ {r} : req'[q] = req[q]
           /\ req'[r].pc = "handback"
           /\ req'[r].net \in {req[r].net, "none"}
           /\ req'[r].stranded = req[r].stranded
<1> DEFINE net == IF req[r].net = "sent" THEN "sent" ELSE "none"
<1>1. net \in {"none", "sent"} /\ net \in {req[r].net, "none"}
  OBVIOUS
<1>2. req' = [req EXCEPT ![r].pc = "handback", ![r].net = net]
  BY DEF SettleLost
<1> HIDE DEF net
<1> QED
  BY <1>1, <1>2, NetGotoMoves DEF Working, Holding

LEMMA AnsweredMoves ==
    ASSUME TypeOK, NEW r \in Request, SettleAnswered(r)
    PROVE  /\ req' \in [Request -> RequestState]
           /\ \A q \in Request \ {r} : req'[q] = req[q]
           /\ \/ req[r].net = "landed" /\ req'[r].pc = "record"
              \/ req[r].net = "refused" /\ req'[r].pc = "handback"
           /\ req'[r].net = "none"
           /\ req'[r].stranded = req[r].stranded
<1>1. CASE req[r].net = "landed" /\ req' = [req EXCEPT ![r].pc = "record", ![r].net = "none"]
  BY <1>1, NetGotoMoves DEF Working, Holding
<1>2. CASE req[r].net = "refused" /\ req' = [req EXCEPT ![r].pc = "handback", ![r].net = "none"]
  BY <1>2, NetGotoMoves DEF Working, Holding
<1> QED
  BY <1>1, <1>2 DEF SettleAnswered

LEMMA ClaimMoves ==
    ASSUME TypeOK, NEW r \in Request, Claim(r)
    PROVE  /\ req' \in [Request -> RequestState]
           /\ \A q \in Request \ {r} : req'[q] = req[q]
           /\ \/ /\ sett = "authorized" /\ sett' = "settling"
                 /\ req'[r].pc = "settle" /\ req'[r].net = "sent"
                 /\ req'[r].stranded = req[r].stranded
              \/ /\ req'[r].pc = IF r \in Sweeper THEN "idle" ELSE "done"
                 /\ req'[r].net = req[r].net
                 /\ ~req'[r].stranded
<1>1. CASE sett = "authorized" /\ sett' = "settling"
           /\ req' = [req EXCEPT ![r].pc = "settle", ![r].net = "sent"]
  BY <1>1, NetGotoMoves DEF Working, Holding
<1>2. CASE End(r, "refused") \/ End(r, "failed")
  BY <1>2, EndMoves DEF Answer
<1> QED
  BY <1>1, <1>2 DEF Claim

(***************************************************************************)
(* A step of request r is good when the phase it reaches is justified by   *)
(* the new state, and the shared state it leaves justifies the phases of   *)
(* the others.                                                             *)
(***************************************************************************)
OnlyMoves(r) ==
    /\ req' \in [Request -> RequestState]
    /\ \A q \in Request \ {r} : req'[q] = req[q]

GoodPhase(r) ==
    /\ req'[r].pc \in Releasing \/ req'[r].net # "none" => tally'.accepted
    /\ req'[r].pc \in {"record", "finalize", "close", "reward"} => chain'.moved
    /\ req'[r].net = "landed" => chain'.moved
    /\ ~req'[r].stranded
    /\ r \in Sweeper => req'[r].pc \in {"idle", "sweep"}
    /\ req'[r].pc \in ReleaserPhases \/ req'[r].net # "none" => r \in Releaser
    /\ req'[r].pc \in Holding =>
          sett' \in {"settling", "voided"} /\ (req[r].pc \in Holding \/ sett = "authorized")
    /\ req'[r].pc = "reward" =>
          /\ contract'.status = "settled" /\ tally'.satisfied = 0
          /\ req[r].pc = "reward" \/ contract.status # "settled"

GoodRows(r) ==
    /\ contract' \in Contract
    /\ sett' \in {"none", "authorized", "settling", "settled", "voided"}
    /\ sett' = "settled" \/ Closed' => chain'.moved
    /\ sett' = sett \/ sett' = "voided" \/ sett \in {"none", "authorized"} \/ req[r].pc \in Holding
    /\ contract'.score = "positive" => Closed'
    /\ contract.status = "settled" => contract'.status = "settled"

GoodHistory(r) ==
    /\ chain' \in [moved : BOOLEAN, window : {"open", "past"}]
    /\ tally' \in [accepted : BOOLEAN, fulfilled : Nat, satisfied : Nat]
    /\ chain.moved => chain'.moved
    /\ tally.accepted => tally'.accepted
    /\ chain'.moved => tally'.accepted
    /\ \/ tally'.satisfied = tally.satisfied
       \/ req[r].pc = "reward" /\ req'[r].pc # "reward" /\ tally'.satisfied = 1

\* A good step keeps the invariant.
LEMMA GoodStep ==
    ASSUME IInv, NEW r \in Request, OnlyMoves(r), GoodPhase(r), GoodRows(r), GoodHistory(r)
    PROVE  IInv'
<1>1. TypeOK'
  BY DEF IInv, TypeOK, OnlyMoves, GoodRows, GoodHistory
<1>2. AcceptedFirst'
  BY DEF IInv, AcceptedFirst, OnlyMoves, GoodPhase, GoodHistory
<1>3. PaidFirst'
  BY DEF IInv, PaidFirst, RecordedMeansPaid, OnlyMoves, GoodPhase, GoodRows, GoodHistory
<1>4. NeverStranded'
  BY DEF IInv, NeverStranded, Releaser, Request, OnlyMoves, GoodPhase, GoodRows
<1>5. RewardedOnce'
  BY DEF IInv, TypeOK, RewardedOnce, OnlyMoves, GoodPhase, GoodRows, GoodHistory
<1>6. PhasesByKind'
  BY DEF IInv, PhasesByKind, OnlyMoves, GoodPhase
<1>7. OneReleaser'
  <2>1. SUFFICES ASSUME NEW p \in Releaser, req'[p].pc \in Holding
                 PROVE  /\ sett' \in {"settling", "voided"}
                        /\ \A q \in Releaser : req'[q].pc \in Holding => q = p
    BY DEF OneReleaser
  <2>2. Releaser \subseteq Request
    BY DEF Releaser, Request
  <2>3. \A q \in Releaser \ {r} : req'[q] = req[q]
    BY <2>2 DEF OnlyMoves
  <2>4. \A q \in Releaser : req[q].pc \in Holding => sett \in {"settling", "voided"}
    BY DEF IInv, OneReleaser
  <2>5. \A q, o \in Releaser : req[q].pc \in Holding /\ req[o].pc \in Holding => q = o
    BY DEF IInv, OneReleaser
  <2>6. CASE p = r
    BY <2>1, <2>3, <2>4, <2>5, <2>6 DEF GoodPhase
  <2>7. CASE p # r
    <3>1. req[p].pc \in Holding /\ sett \in {"settling", "voided"}
      BY <2>1, <2>3, <2>4, <2>7
    <3>2. req'[r].pc \in Holding => req[r].pc \in Holding
      BY <3>1 DEF GoodPhase
    <3>3. r \in Releaser => req[r].pc \notin Holding /\ req'[r].pc \notin Holding
      BY <2>5, <2>7, <3>1, <3>2
    <3>4. req[r].pc \in Holding => r \in Releaser
      BY DEF IInv, PhasesByKind, ReleaserPhases, Releasing
    <3> QED
      BY <2>1, <2>3, <2>5, <3>1, <3>3, <3>4 DEF GoodRows
  <2> QED
    BY <2>6, <2>7
<1> QED
  BY <1>1, <1>2, <1>3, <1>4, <1>5, <1>6, <1>7 DEF IInv

\* Where the trigger of service_contracts lets each status come from.
LEMMA TriggerAllows ==
    ASSUME TypeOK
    PROVE  /\ MayBecome("escrowed")  => contract.status \in {"pending", "escrowed"}
           /\ MayBecome("fulfilled") => contract.status \in {"escrowed", "fulfilled"}
           /\ MayBecome("disputed")  => contract.status \in {"escrowed", "fulfilled", "disputed"}
           /\ MayBecome("satisfied") => contract.status \in {"fulfilled", "satisfied"}
           /\ MayBecome("settled")   => contract.status = "satisfied"
           /\ MayBecome("cancelled") => contract.status = "pending"
           /\ MayBecome("resolved")  => contract.status = "disputed"
BY DEF TypeOK, Contract, Status, MayBecome, Transitions

-----------------------------------------------------------------------------
(* One lemma for each action of a request: its step is good.               *)
(* Escrow                                                                  *)

LEMMA EscrowStartsGood ==
    ASSUME IInv, SettlementAssumption, NEW r \in Request, EscrowStarts(r)
    PROVE  IInv'
<1>1. OnlyMoves(r)
  BY GotoMoves, EndMoves DEF IInv, Working, Answer, EscrowStarts, OnlyMoves
<1>2. GoodPhase(r)
  BY GotoMoves, EndMoves DEF IInv, Working, Holding, Answer, Releasing,
      ReleaserPhases, NeverStranded, PhasesByKind, Releaser, EscrowStarts,
      GoodPhase
<1>3. GoodRows(r)
  BY DEF IInv, TypeOK, PaidFirst, RecordedMeansPaid, NeverStranded, Closed,
      rows, EscrowStarts, GoodRows
<1>4. GoodHistory(r)
  BY DEF IInv, TypeOK, AcceptedFirst, EscrowStarts, GoodHistory
<1> QED
  BY <1>1, <1>2, <1>3, <1>4, GoodStep

LEMMA HoldPaymentGood ==
    ASSUME IInv, SettlementAssumption, NEW r \in Request, HoldPayment(r)
    PROVE  IInv'
<1>1. OnlyMoves(r)
  BY GotoMoves, EndMoves DEF IInv, Working, Answer, HoldPayment, OnlyMoves
<1>2. GoodPhase(r)
  BY GotoMoves, EndMoves DEF IInv, Working, Holding, Answer, Releasing,
      ReleaserPhases, AcceptedFirst, PaidFirst, NeverStranded, PhasesByKind,
      At, HoldPayment, GoodPhase
<1>3. GoodRows(r)
  BY DEF IInv, TypeOK, PaidFirst, RecordedMeansPaid, NeverStranded, Closed,
      HoldPayment, GoodRows
<1>4. GoodHistory(r)
  BY DEF IInv, TypeOK, AcceptedFirst, HoldPayment, GoodHistory
<1> QED
  BY <1>1, <1>2, <1>3, <1>4, GoodStep

LEMMA LinkPaymentGood ==
    ASSUME IInv, SettlementAssumption, NEW r \in Request, LinkPayment(r)
    PROVE  IInv'
<1>1. OnlyMoves(r)
  BY EndMoves DEF IInv, Answer, UpdateContract, LinkPayment, OnlyMoves
<1>2. GoodPhase(r)
  BY EndMoves DEF IInv, Holding, Answer, Releasing, ReleaserPhases,
      AcceptedFirst, PaidFirst, PhasesByKind, UpdateContract, LinkPayment,
      GoodPhase
<1>3. GoodRows(r)
  BY TriggerAllows DEF IInv, TypeOK, Contract, Status, PaidFirst,
      RecordedMeansPaid, NeverStranded, Closed, UpdateContract, LinkPayment,
      GoodRows
<1>4. GoodHistory(r)
  BY DEF IInv, TypeOK, AcceptedFirst, LinkPayment, GoodHistory
<1> QED
  BY <1>1, <1>2, <1>3, <1>4, GoodStep

-----------------------------------------------------------------------------
(* Delivery *)

LEMMA TakeWorkGood ==
    ASSUME IInv, SettlementAssumption, NEW r \in Request, TakeWork(r)
    PROVE  IInv'
<1>1. OnlyMoves(r)
  BY GotoMoves DEF IInv, Working, TakeWork, OnlyMoves
<1>2. GoodPhase(r)
  BY GotoMoves DEF IInv, Working, Holding, Releasing, ReleaserPhases,
      NeverStranded, PhasesByKind, Releaser, TakeWork, GoodPhase
<1>3. GoodRows(r)
  BY DEF IInv, TypeOK, PaidFirst, RecordedMeansPaid, NeverStranded, Closed,
      rows, TakeWork, GoodRows
<1>4. GoodHistory(r)
  BY DEF IInv, TypeOK, AcceptedFirst, TakeWork, GoodHistory
<1> QED
  BY <1>1, <1>2, <1>3, <1>4, GoodStep

LEMMA FulfilDirectlyGood ==
    ASSUME IInv, SettlementAssumption, NEW r \in Request, FulfilDirectly(r)
    PROVE  IInv'
<1>1. OnlyMoves(r)
  BY GotoMoves DEF IInv, Working, FulfilDirectly, OnlyMoves
<1>2. GoodPhase(r)
  BY GotoMoves DEF IInv, Working, Holding, Releasing, ReleaserPhases,
      NeverStranded, PhasesByKind, Releaser, FulfilDirectly, GoodPhase
<1>3. GoodRows(r)
  BY DEF IInv, TypeOK, Contract, Status, Result, PaidFirst, RecordedMeansPaid,
      NeverStranded, Closed, FulfilDirectly, GoodRows
<1>4. GoodHistory(r)
  BY DEF IInv, TypeOK, AcceptedFirst, FulfilDirectly, GoodHistory
<1> QED
  BY <1>1, <1>2, <1>3, <1>4, GoodStep

LEMMA FileResultGood ==
    ASSUME IInv, SettlementAssumption, NEW r \in Request, FileResult(r)
    PROVE  IInv'
<1>1. OnlyMoves(r)
  BY GotoMoves, EndMoves DEF IInv, Working, Answer, UpdateContract,
      FileResult, OnlyMoves
<1>2. GoodPhase(r)
  BY GotoMoves, EndMoves DEF IInv, Working, Holding, Answer, Releasing,
      ReleaserPhases, AcceptedFirst, PaidFirst, NeverStranded, PhasesByKind,
      At, UpdateContract, FileResult, GoodPhase
<1>3. GoodRows(r)
  BY TriggerAllows DEF IInv, TypeOK, Contract, Status, Result, PaidFirst,
      RecordedMeansPaid, NeverStranded, Closed, UpdateContract, FileResult,
      GoodRows
<1>4. GoodHistory(r)
  BY DEF IInv, TypeOK, AcceptedFirst, FileResult, GoodHistory
<1> QED
  BY <1>1, <1>2, <1>3, <1>4, GoodStep

LEMMA RouteToDisputeGood ==
    ASSUME IInv, SettlementAssumption, NEW r \in Request, RouteToDispute(r)
    PROVE  IInv'
<1>1. OnlyMoves(r)
  BY EndMoves DEF IInv, Answer, UpdateContract, RouteToDispute, OnlyMoves
<1>2. GoodPhase(r)
  BY EndMoves DEF IInv, Holding, Answer, Releasing, ReleaserPhases,
      AcceptedFirst, PaidFirst, PhasesByKind, UpdateContract, RouteToDispute,
      GoodPhase
<1>3. GoodRows(r)
  BY TriggerAllows DEF IInv, TypeOK, Contract, Status, Result, PaidFirst,
      RecordedMeansPaid, NeverStranded, Closed, UpdateContract,
      RouteToDispute, GoodRows
<1>4. GoodHistory(r)
  BY DEF IInv, TypeOK, AcceptedFirst, RouteToDispute, GoodHistory
<1> QED
  BY <1>1, <1>2, <1>3, <1>4, GoodStep

LEMMA HandlerThrowsGood ==
    ASSUME IInv, SettlementAssumption, NEW r \in Request, HandlerThrows(r)
    PROVE  IInv'
<1>1. OnlyMoves(r)
  BY EndMoves DEF IInv, Answer, HandlerThrows, OnlyMoves
<1>2. GoodPhase(r)
  BY EndMoves DEF IInv, Holding, Answer, Releasing, ReleaserPhases,
      AcceptedFirst, PaidFirst, PhasesByKind, HandlerThrows, GoodPhase
<1>3. GoodRows(r)
  BY DEF IInv, TypeOK, PaidFirst, RecordedMeansPaid, NeverStranded, Closed,
      rows, HandlerThrows, GoodRows
<1>4. GoodHistory(r)
  BY DEF IInv, TypeOK, AcceptedFirst, HandlerThrows, GoodHistory
<1> QED
  BY <1>1, <1>2, <1>3, <1>4, GoodStep

LEMMA RewardDeliveryGood ==
    ASSUME IInv, SettlementAssumption, NEW r \in Request, RewardDelivery(r)
    PROVE  IInv'
<1>1. OnlyMoves(r)
  BY EndMoves DEF IInv, Answer, RewardDelivery, OnlyMoves
<1>2. GoodPhase(r)
  BY EndMoves DEF IInv, TypeOK, Holding, Answer, Releasing, ReleaserPhases,
      AcceptedFirst, PaidFirst, PhasesByKind, RewardDelivery, GoodPhase
<1>3. GoodRows(r)
  BY DEF IInv, TypeOK, PaidFirst, RecordedMeansPaid, NeverStranded, Closed,
      rows, RewardDelivery, GoodRows
<1>4. GoodHistory(r)
  BY DEF IInv, TypeOK, AcceptedFirst, RewardDelivery, GoodHistory
<1> QED
  BY <1>1, <1>2, <1>3, <1>4, GoodStep

-----------------------------------------------------------------------------
(* Satisfy and the retry sweep *)

LEMMA SatisfyStartsGood ==
    ASSUME IInv, SettlementAssumption, NEW r \in Request, SatisfyStarts(r)
    PROVE  IInv'
<1>1. OnlyMoves(r)
  BY GotoMoves, EndMoves DEF IInv, Working, Answer, SatisfyStarts, OnlyMoves
<1>2. GoodPhase(r)
  BY GotoMoves, EndMoves DEF IInv, TypeOK, Working, Holding, Answer,
      Releasing, AcceptedFirst, PaidFirst, NeverStranded, Releaser,
      SatisfyStarts, GoodPhase
<1>3. GoodRows(r)
  BY DEF IInv, TypeOK, PaidFirst, RecordedMeansPaid, NeverStranded, Closed,
      rows, SatisfyStarts, GoodRows
<1>4. GoodHistory(r)
  BY DEF IInv, TypeOK, AcceptedFirst, SatisfyStarts, GoodHistory
<1> QED
  BY <1>1, <1>2, <1>3, <1>4, GoodStep

LEMMA SweepContractsGood ==
    ASSUME IInv, SettlementAssumption, NEW r \in Request, SweepContracts(r)
    PROVE  IInv'
<1>1. OnlyMoves(r)
  BY SweepMoves DEF IInv, IsStranded, Closed, NeverStranded, SweepContracts,
      OnlyMoves
<1>2. GoodPhase(r)
  BY DEF IInv, TypeOK, RequestState, Holding, Releasing, AcceptedFirst,
      PaidFirst, NeverStranded, Releaser, SweepContracts, GoodPhase
<1>3. GoodRows(r)
  BY DEF IInv, TypeOK, PaidFirst, RecordedMeansPaid, NeverStranded, Closed,
      rows, SweepContracts, GoodRows
<1>4. GoodHistory(r)
  BY DEF IInv, TypeOK, AcceptedFirst, SweepContracts, GoodHistory
<1> QED
  BY <1>1, <1>2, <1>3, <1>4, GoodStep

LEMMA SweepSettlementsGood ==
    ASSUME IInv, SettlementAssumption, NEW r \in Request, SweepSettlements(r)
    PROVE  IInv'
<1>1. OnlyMoves(r)
  BY GotoMoves, EndMoves DEF IInv, Working, Answer, SweepSettlements,
      OnlyMoves
<1>2. GoodPhase(r)
  BY EndMoves DEF IInv, Holding, Answer, Releasing, ReleaserPhases,
      AcceptedFirst, PaidFirst, NeverStranded, PhasesByKind, SweepSettlements,
      GoodPhase
<1>3. GoodRows(r)
  BY DEF IInv, TypeOK, PaidFirst, RecordedMeansPaid, NeverStranded, Closed,
      rows, SweepSettlements, GoodRows
<1>4. GoodHistory(r)
  BY DEF IInv, TypeOK, AcceptedFirst, SweepSettlements, GoodHistory
<1> QED
  BY <1>1, <1>2, <1>3, <1>4, GoodStep

-----------------------------------------------------------------------------
(* releaseHeldPayment *)

LEMMA LookUpGood ==
    ASSUME IInv, SettlementAssumption, NEW r \in Request, LookUp(r)
    PROVE  IInv'
<1>1. OnlyMoves(r)
  BY GotoMoves, EndMoves DEF IInv, Working, Answer, LookUp, OnlyMoves
<1>2. GoodPhase(r)
  BY GotoMoves, EndMoves DEF IInv, Working, Holding, Answer, Releasing,
      ReleaserPhases, AcceptedFirst, PaidFirst, NeverStranded, PhasesByKind,
      At, RecordedMeansPaid, LookUp, GoodPhase
<1>3. GoodRows(r)
  BY DEF IInv, TypeOK, PaidFirst, RecordedMeansPaid, NeverStranded, Closed,
      rows, LookUp, GoodRows
<1>4. GoodHistory(r)
  BY DEF IInv, TypeOK, AcceptedFirst, LookUp, GoodHistory
<1> QED
  BY <1>1, <1>2, <1>3, <1>4, GoodStep

LEMMA VoidExpiredGood ==
    ASSUME IInv, SettlementAssumption, NEW r \in Request, VoidExpired(r)
    PROVE  IInv'
<1>1. OnlyMoves(r)
  BY EndMoves DEF IInv, Answer, VoidExpired, OnlyMoves
<1>2. GoodPhase(r)
  BY EndMoves DEF IInv, Holding, Answer, Releasing, ReleaserPhases,
      AcceptedFirst, PaidFirst, PhasesByKind, VoidExpired, GoodPhase
<1>3. GoodRows(r)
  BY DEF IInv, TypeOK, PaidFirst, RecordedMeansPaid, NeverStranded, Closed,
      VoidExpired, GoodRows
<1>4. GoodHistory(r)
  BY DEF IInv, TypeOK, AcceptedFirst, VoidExpired, GoodHistory
<1> QED
  BY <1>1, <1>2, <1>3, <1>4, GoodStep

LEMMA ClaimGood ==
    ASSUME IInv, SettlementAssumption, NEW r \in Request, Claim(r)
    PROVE  IInv'
<1>1. OnlyMoves(r)
  BY ClaimMoves DEF IInv, Claim, OnlyMoves
<1>2. GoodPhase(r)
  BY ClaimMoves DEF IInv, Holding, Releasing, ReleaserPhases, AcceptedFirst,
      PaidFirst, NeverStranded, PhasesByKind, At, Claim, GoodPhase
<1>3. GoodRows(r)
  BY DEF IInv, TypeOK, PaidFirst, RecordedMeansPaid, NeverStranded, Closed,
      Claim, GoodRows
<1>4. GoodHistory(r)
  BY DEF IInv, TypeOK, AcceptedFirst, Claim, GoodHistory
<1> QED
  BY <1>1, <1>2, <1>3, <1>4, GoodStep

LEMMA SettleAnsweredGood ==
    ASSUME IInv, SettlementAssumption, NEW r \in Request, SettleAnswered(r)
    PROVE  IInv'
<1>1. OnlyMoves(r)
  BY AnsweredMoves DEF IInv, SettleAnswered, OnlyMoves
<1>2. GoodPhase(r)
  BY AnsweredMoves DEF IInv, Holding, AcceptedFirst, PaidFirst, NeverStranded,
      PhasesByKind, OneReleaser, At, rows, SettleAnswered, GoodPhase
<1>3. GoodRows(r)
  BY DEF IInv, TypeOK, PaidFirst, RecordedMeansPaid, NeverStranded, Closed,
      rows, SettleAnswered, GoodRows
<1>4. GoodHistory(r)
  BY DEF IInv, TypeOK, AcceptedFirst, SettleAnswered, GoodHistory
<1> QED
  BY <1>1, <1>2, <1>3, <1>4, GoodStep

LEMMA SettleLostGood ==
    ASSUME IInv, SettlementAssumption, NEW r \in Request, SettleLost(r)
    PROVE  IInv'
<1>1. OnlyMoves(r)
  BY LostMoves DEF IInv, SettleLost, OnlyMoves
<1>2. GoodPhase(r)
  BY DEF IInv, TypeOK, Holding, Releasing, ReleaserPhases, AcceptedFirst,
      NeverStranded, PhasesByKind, OneReleaser, At, rows, SettleLost,
      GoodPhase
<1>3. GoodRows(r)
  BY DEF IInv, TypeOK, PaidFirst, RecordedMeansPaid, NeverStranded, Closed,
      rows, SettleLost, GoodRows
<1>4. GoodHistory(r)
  BY DEF IInv, TypeOK, AcceptedFirst, SettleLost, GoodHistory
<1> QED
  BY <1>1, <1>2, <1>3, <1>4, GoodStep

LEMMA RecordGood ==
    ASSUME IInv, SettlementAssumption, NEW r \in Request, Record(r)
    PROVE  IInv'
<1>1. OnlyMoves(r)
  BY GotoMoves DEF IInv, Working, Record, OnlyMoves
<1>2. GoodPhase(r)
  BY GotoMoves DEF IInv, Working, Holding, Releasing, ReleaserPhases,
      AcceptedFirst, PaidFirst, NeverStranded, PhasesByKind, At, Record,
      GoodPhase
<1>3. GoodRows(r)
  BY DEF IInv, TypeOK, PaidFirst, NeverStranded, Closed, At, Holding, Record,
      GoodRows
<1>4. GoodHistory(r)
  BY DEF IInv, TypeOK, AcceptedFirst, Record, GoodHistory
<1> QED
  BY <1>1, <1>2, <1>3, <1>4, GoodStep

LEMMA HandBackGood ==
    ASSUME IInv, SettlementAssumption, NEW r \in Request, HandBack(r)
    PROVE  IInv'
<1>1. OnlyMoves(r)
  BY EndMoves DEF IInv, Answer, HandBack, OnlyMoves
<1>2. GoodPhase(r)
  BY EndMoves DEF IInv, Holding, Answer, Releasing, ReleaserPhases,
      AcceptedFirst, PaidFirst, PhasesByKind, HandBack, GoodPhase
<1>3. GoodRows(r)
  BY DEF IInv, TypeOK, PaidFirst, RecordedMeansPaid, NeverStranded, Closed,
      At, Holding, HandBack, GoodRows
<1>4. GoodHistory(r)
  BY DEF IInv, TypeOK, AcceptedFirst, HandBack, GoodHistory
<1> QED
  BY <1>1, <1>2, <1>3, <1>4, GoodStep

-----------------------------------------------------------------------------
(* finalizeSettledContract *)

LEMMA FinalizeGood ==
    ASSUME IInv, SettlementAssumption, NEW r \in Request, Finalize(r)
    PROVE  IInv'
<1>1. OnlyMoves(r)
  BY GotoMoves, EndMoves DEF IInv, Working, Answer, UpdateContract, Finalize,
      OnlyMoves
<1>2. GoodPhase(r)
  BY GotoMoves, EndMoves DEF IInv, Working, Holding, Answer, ReleaserPhases,
      AcceptedFirst, PaidFirst, NeverStranded, PhasesByKind, At,
      UpdateContract, Finalize, GoodPhase
<1>3. GoodRows(r)
  BY TriggerAllows DEF IInv, TypeOK, Contract, Status, PaidFirst,
      NeverStranded, Closed, At, UpdateContract, Finalize, GoodRows
<1>4. GoodHistory(r)
  BY DEF IInv, TypeOK, AcceptedFirst, Finalize, GoodHistory
<1> QED
  BY <1>1, <1>2, <1>3, <1>4, GoodStep

LEMMA CloseContractGood ==
    ASSUME IInv, SettlementAssumption, NEW r \in Request, CloseContract(r)
    PROVE  IInv'
<1>1. OnlyMoves(r)
  BY GotoMoves, EndMoves DEF IInv, Working, Answer, UpdateContract,
      CloseContract, OnlyMoves
<1>2. GoodPhase(r)
  BY GotoMoves, EndMoves, TriggerAllows DEF IInv, TypeOK, Working, Holding,
      Answer, ReleaserPhases, AcceptedFirst, PaidFirst, RewardedOnce,
      NeverStranded, PhasesByKind, At, Contract, UpdateContract,
      CloseContract, GoodPhase
<1>3. GoodRows(r)
  BY DEF IInv, TypeOK, Contract, Status, PaidFirst, NeverStranded, Closed, At,
      UpdateContract, CloseContract, GoodRows
<1>4. GoodHistory(r)
  BY DEF IInv, TypeOK, AcceptedFirst, CloseContract, GoodHistory
<1> QED
  BY <1>1, <1>2, <1>3, <1>4, GoodStep

LEMMA RewardSettlementGood ==
    ASSUME IInv, SettlementAssumption, NEW r \in Request, RewardSettlement(r)
    PROVE  IInv'
<1>1. OnlyMoves(r)
  BY EndMoves DEF IInv, Answer, RewardSettlement, OnlyMoves
<1>2. GoodPhase(r)
  BY EndMoves DEF IInv, TypeOK, Holding, Answer, ReleaserPhases,
      AcceptedFirst, PaidFirst, PhasesByKind, At, RewardSettlement, GoodPhase
<1>3. GoodRows(r)
  BY DEF IInv, TypeOK, PaidFirst, NeverStranded, Closed, At, rows,
      RewardSettlement, GoodRows
<1>4. GoodHistory(r)
  BY EndMoves DEF IInv, TypeOK, AcceptedFirst, RewardedOnce, At, Answer,
      RewardSettlement, GoodHistory
<1> QED
  BY <1>1, <1>2, <1>3, <1>4, GoodStep

-----------------------------------------------------------------------------
(* voidAuthorization *)

LEMMA VoidLookUpGood ==
    ASSUME IInv, SettlementAssumption, NEW r \in Request, VoidLookUp(r)
    PROVE  IInv'
<1>1. OnlyMoves(r)
  BY GotoMoves, EndMoves DEF IInv, Working, Answer, VoidLookUp, OnlyMoves
<1>2. GoodPhase(r)
  BY GotoMoves, EndMoves DEF IInv, Working, Holding, Answer, Releasing,
      ReleaserPhases, AcceptedFirst, PaidFirst, NeverStranded, PhasesByKind,
      At, VoidLookUp, GoodPhase
<1>3. GoodRows(r)
  BY DEF IInv, TypeOK, PaidFirst, RecordedMeansPaid, NeverStranded, Closed,
      rows, VoidLookUp, GoodRows
<1>4. GoodHistory(r)
  BY DEF IInv, TypeOK, AcceptedFirst, VoidLookUp, GoodHistory
<1> QED
  BY <1>1, <1>2, <1>3, <1>4, GoodStep

LEMMA VoidPaymentGood ==
    ASSUME IInv, SettlementAssumption, NEW r \in Request, VoidPayment(r)
    PROVE  IInv'
<1>1. OnlyMoves(r)
  BY EndMoves DEF IInv, Answer, VoidPayment, OnlyMoves
<1>2. GoodPhase(r)
  BY EndMoves DEF IInv, Holding, Answer, Releasing, ReleaserPhases,
      AcceptedFirst, PaidFirst, PhasesByKind, VoidPayment, GoodPhase
<1>3. GoodRows(r)
  BY DEF IInv, TypeOK, PaidFirst, RecordedMeansPaid, NeverStranded, Closed,
      VoidPayment, GoodRows
<1>4. GoodHistory(r)
  BY DEF IInv, TypeOK, AcceptedFirst, VoidPayment, GoodHistory
<1> QED
  BY <1>1, <1>2, <1>3, <1>4, GoodStep

-----------------------------------------------------------------------------
(* The chain and the processes *)

LEMMA TransferLandsGood ==
    ASSUME IInv, SettlementAssumption, NEW r \in Request, TransferLands(r)
    PROVE  IInv'
<1>1. OnlyMoves(r)
  BY DEF IInv, TypeOK, RequestState, TransferLands, OnlyMoves
<1>2. GoodPhase(r)
  BY DEF IInv, AcceptedFirst, RewardedOnce, NeverStranded, PhasesByKind,
      OneReleaser, rows, TransferLands, GoodPhase
<1>3. GoodRows(r)
  BY DEF IInv, TypeOK, NeverStranded, Closed, rows, TransferLands, GoodRows
<1>4. GoodHistory(r)
  BY DEF IInv, TypeOK, AcceptedFirst, TransferLands, GoodHistory
<1> QED
  BY <1>1, <1>2, <1>3, <1>4, GoodStep

LEMMA TransferRefusedGood ==
    ASSUME IInv, SettlementAssumption, NEW r \in Request, TransferRefused(r)
    PROVE  IInv'
<1>1. OnlyMoves(r)
  BY DEF IInv, TypeOK, RequestState, TransferRefused, OnlyMoves
<1>2. GoodPhase(r)
  BY DEF IInv, AcceptedFirst, PaidFirst, RewardedOnce, NeverStranded,
      PhasesByKind, OneReleaser, rows, TransferRefused, GoodPhase
<1>3. GoodRows(r)
  BY DEF IInv, TypeOK, PaidFirst, RecordedMeansPaid, NeverStranded, Closed,
      rows, TransferRefused, GoodRows
<1>4. GoodHistory(r)
  BY DEF IInv, TypeOK, AcceptedFirst, TransferRefused, GoodHistory
<1> QED
  BY <1>1, <1>2, <1>3, <1>4, GoodStep

LEMMA DieGood ==
    ASSUME IInv, SettlementAssumption, NEW r \in Request, Die(r)
    PROVE  IInv'
<1>1. OnlyMoves(r)
  BY EndMoves DEF IInv, Answer, Die, OnlyMoves
<1>2. GoodPhase(r)
  BY EndMoves DEF IInv, Holding, Answer, Releasing, ReleaserPhases,
      AcceptedFirst, PaidFirst, PhasesByKind, Die, GoodPhase
<1>3. GoodRows(r)
  BY DEF IInv, TypeOK, PaidFirst, RecordedMeansPaid, NeverStranded, Closed,
      rows, Die, GoodRows
<1>4. GoodHistory(r)
  BY DEF IInv, TypeOK, AcceptedFirst, Die, GoodHistory
<1> QED
  BY <1>1, <1>2, <1>3, <1>4, GoodStep


-----------------------------------------------------------------------------
(* The inductive invariant *)

\* The rows are empty and every request is idle.
LEMMA InitGood ==
    ASSUME Init
    PROVE  IInv
<1>1. TypeOK
  BY DEF Init, TypeOK, Contract, Status, Result, RequestState, Answer
<1>2. \A r \in Request :
        req[r].pc = "idle" /\ req[r].net = "none" /\ req[r].stranded = FALSE
  BY DEF Init
<1>3. AcceptedFirst /\ PaidFirst
  BY <1>2 DEF Init, AcceptedFirst, PaidFirst, RecordedMeansPaid, Closed, Releasing, Holding
<1>4. NeverStranded
  BY <1>2 DEF Init, NeverStranded, Request, Releaser
<1>5. RewardedOnce
  BY <1>2 DEF Init, RewardedOnce
<1>6. PhasesByKind /\ OneReleaser
  BY <1>2 DEF PhasesByKind, OneReleaser, ReleaserPhases, Releasing, Holding, Request, Releaser
<1> QED
  BY <1>1, <1>3, <1>4, <1>5, <1>6 DEF IInv

\* A step of no request: the contract changes only before acceptance can close
\* it, or the signature's window passes.
LEMMA BystanderGood ==
    ASSUME IInv, UNCHANGED <<sett, req, tally>>, chain'.moved = chain.moved,
           chain' \in [moved : BOOLEAN, window : {"open", "past"}],
           contract' \in Contract, contract'.score = contract.score,
           ~Closed => ~Closed',
           Closed => UNCHANGED contract
    PROVE  IInv'
<1>1. TypeOK'
  BY DEF IInv, TypeOK
<1>2. AcceptedFirst'
  BY DEF IInv, AcceptedFirst
<1>3. PaidFirst'
  BY DEF IInv, PaidFirst, RecordedMeansPaid, Closed
<1>4. NeverStranded'
  BY DEF IInv, NeverStranded, Closed
<1>5. RewardedOnce'
  BY DEF IInv, RewardedOnce, Closed
<1>6. PhasesByKind' /\ OneReleaser'
  BY DEF IInv, PhasesByKind, OneReleaser
<1> QED
  BY <1>1, <1>2, <1>3, <1>4, <1>5, <1>6 DEF IInv

\* The three updates of the contract that are one request each, and the clock.
LEMMA CancelGood ==
    ASSUME IInv, Cancel
    PROVE  IInv'
BY BystanderGood, TriggerAllows DEF IInv, TypeOK, Contract, Status, Cancel, SetStatus, Closed

LEMMA DisputeGood ==
    ASSUME IInv, Dispute
    PROVE  IInv'
BY BystanderGood, TriggerAllows DEF IInv, TypeOK, Contract, Status, Dispute, SetStatus, Closed

LEMMA ResolveGood ==
    ASSUME IInv, Resolve
    PROVE  IInv'
BY BystanderGood, TriggerAllows DEF IInv, TypeOK, Contract, Status, Resolve, SetStatus, Closed

LEMMA WindowPassesGood ==
    ASSUME IInv, WindowPasses
    PROVE  IInv'
BY BystanderGood DEF IInv, TypeOK, WindowPasses, rows, Closed

\* Every step keeps the invariant.
LEMMA StepGood ==
    ASSUME IInv, [Next]_vars
    PROVE  IInv'
<1>1. ASSUME NEW r \in Request, EscrowStep(r)
      PROVE  IInv'
  BY <1>1, SettlementAssumption, EscrowStartsGood, HoldPaymentGood, LinkPaymentGood
     DEF EscrowStep
<1>2. ASSUME NEW r \in Request, DeliveryStep(r)
      PROVE  IInv'
  BY <1>2, SettlementAssumption, TakeWorkGood, FulfilDirectlyGood, FileResultGood,
     RouteToDisputeGood, HandlerThrowsGood, RewardDeliveryGood
     DEF DeliveryStep
<1>3. ASSUME NEW r \in Request, ArrivalStep(r)
      PROVE  IInv'
  BY <1>3, SettlementAssumption, SatisfyStartsGood, SweepContractsGood, SweepSettlementsGood
     DEF ArrivalStep
<1>4. ASSUME NEW r \in Request, ReleaseStep(r)
      PROVE  IInv'
  BY <1>4, SettlementAssumption, LookUpGood, VoidExpiredGood, ClaimGood, SettleAnsweredGood,
     SettleLostGood, RecordGood, HandBackGood, FinalizeGood, CloseContractGood,
     RewardSettlementGood, VoidLookUpGood, VoidPaymentGood
     DEF ReleaseStep
<1>5. ASSUME NEW r \in Request, ChainStep(r)
      PROVE  IInv'
  BY <1>5, SettlementAssumption, TransferLandsGood, TransferRefusedGood DEF ChainStep
<1>6. ASSUME NEW r \in Request, Die(r)
      PROVE  IInv'
  BY <1>6, SettlementAssumption, DieGood
<1>7. CASE Cancel \/ Dispute \/ Resolve \/ WindowPasses
  BY <1>7, CancelGood, DisputeGood, ResolveGood, WindowPassesGood
<1>8. CASE UNCHANGED vars
  BY <1>8 DEF vars, rows, IInv, TypeOK, AcceptedFirst, PaidFirst, RecordedMeansPaid, NeverStranded,
     RewardedOnce, PhasesByKind, OneReleaser, Closed
<1> QED
  BY <1>1, <1>2, <1>3, <1>4, <1>5, <1>6, <1>7, <1>8 DEF Next

(***************************************************************************)
(* The inductive invariant holds: each phase of a request is justified by  *)
(* the rows, the chain and the buyer's acceptance.                         *)
(***************************************************************************)
THEOREM PhasesAreJustified == Spec => []IInv
<1>1. Init => IInv
  BY InitGood
<1>2. IInv /\ [Next]_vars => IInv'
  BY StepGood
<1> QED
  BY <1>1, <1>2, PTL DEF Spec

-----------------------------------------------------------------------------
(* What the runs check *)

(***************************************************************************)
(* The rows, the chain and every request stay well typed.                  *)
(***************************************************************************)
THEOREM SettlementTyped == Spec => []TypeOK
<1>1. IInv => TypeOK
  BY DEF IInv
<1> QED
  BY <1>1, PhasesAreJustified, PTL

(***************************************************************************)
(* The update gated on "authorized" lets one release at a time hold the    *)
(* payment (releaseHeldPayment), however many race.                        *)
(***************************************************************************)
THEOREM ReleasesExclude == Spec => []OneReleaser
<1>1. IInv => OneReleaser
  BY DEF IInv
<1> QED
  BY <1>1, PhasesAreJustified, PTL

(***************************************************************************)
(* A row recorded "settled" and a contract finalizeSettledContract closed  *)
(* mean that the transfer landed.                                          *)
(***************************************************************************)
THEOREM RecordsAreTrue == Spec => []RecordedMeansPaid
<1>1. IInv => RecordedMeansPaid
  BY DEF IInv, PaidFirst
<1> QED
  BY <1>1, PhasesAreJustified, PTL

(***************************************************************************)
(* No sweep of the retry worker ever releases: what isStranded asks for is *)
(* written only in the update that leaves "fulfilled".                     *)
(***************************************************************************)
THEOREM SweepsFindNothing == Spec => []NeverStranded
<1>1. IInv => NeverStranded
  BY DEF IInv
<1> QED
  BY <1>1, PhasesAreJustified, PTL

\* What a void leaves to a step: only Record writes a voided row.
LEMMA VoidStep ==
    ASSUME IInv, [Next]_vars, sett = "voided"
    PROVE  sett' = "voided" \/ (sett' = "settled" /\ chain.moved)
<1>1. ASSUME NEW r \in Request, Record(r)
      PROVE  sett' \in {"voided", "settled"} /\ chain.moved
  BY <1>1 DEF Record, At, IInv, PaidFirst
<1>2. ASSUME NEW r \in Request, EscrowStep(r) \/ DeliveryStep(r) \/ ArrivalStep(r)
      PROVE  sett' = sett
  <2>1. HoldPayment(r) => sett' = sett
    BY DEF HoldPayment
  <2> QED
    BY <1>2, <2>1 DEF EscrowStep, DeliveryStep, ArrivalStep, EscrowStarts, LinkPayment, TakeWork,
       FulfilDirectly, FileResult, RouteToDispute, HandlerThrows, RewardDelivery,
       SatisfyStarts, SweepContracts, SweepSettlements, rows
<1>3. ASSUME NEW r \in Request, ReleaseStep(r), ~Record(r)
      PROVE  sett' = sett
  <2>1. VoidExpired(r) \/ Claim(r) \/ HandBack(r) \/ VoidPayment(r) => sett' = sett
    BY DEF VoidExpired, Claim, HandBack, VoidPayment
  <2> QED
    BY <1>3, <2>1 DEF ReleaseStep, LookUp, SettleAnswered, SettleLost, Finalize, CloseContract,
       RewardSettlement, VoidLookUp, rows
<1>4. ASSUME NEW r \in Request, ChainStep(r) \/ Die(r)
      PROVE  sett' = sett
  BY <1>4 DEF ChainStep, TransferLands, TransferRefused, Die, rows
<1>5. CASE Cancel \/ Dispute \/ Resolve \/ WindowPasses \/ UNCHANGED vars
  BY <1>5 DEF Cancel, Dispute, Resolve, WindowPasses, vars, rows
<1> QED
  BY <1>1, <1>2, <1>3, <1>4, <1>5 DEF Next

(***************************************************************************)
(* A voided authorization is never handed back (voidAuthorization against  *)
(* the hand-back of releaseHeldPayment).                                   *)
(***************************************************************************)
THEOREM VoidsAreFinal == Spec => VoidIsFinal
<1>1. IInv /\ [Next]_vars =>
        [sett = "voided" => sett' = "voided" \/ (sett' = "settled" /\ chain.moved)]_vars
  BY VoidStep
<1> QED
  BY <1>1, PhasesAreJustified, PTL DEF Spec, VoidIsFinal

-----------------------------------------------------------------------------
(* The promise *)

\* Nothing the promise speaks of changes.
Kept ==
    /\ UNCHANGED tally.accepted /\ UNCHANGED chain.moved /\ UNCHANGED tally.satisfied
    /\ contract.status = "settled" <=> contract'.status = "settled"

\* Such a step is a stutter of the promise.
LEMMA KeptStutters ==
    ASSUME Kept
    PROVE  UNCHANGED Promise!vars
BY DEF Kept, Promise!vars

\* Escrow and delivery are invisible to the promise.
LEMMA EscrowKeeps ==
    ASSUME IInv, NEW r \in Request, EscrowStep(r)
    PROVE  Kept
<1>1. LinkPayment(r) => Kept
  BY TriggerAllows DEF IInv, TypeOK, Contract, LinkPayment, UpdateContract, Kept
<1> QED
  BY <1>1 DEF EscrowStep, EscrowStarts, HoldPayment, rows, Kept

LEMMA DeliveryKeeps ==
    ASSUME IInv, NEW r \in Request, DeliveryStep(r)
    PROVE  Kept
<1>1. FileResult(r) => Kept
  BY TriggerAllows DEF IInv, TypeOK, Contract, FileResult, UpdateContract, Kept
<1>2. RouteToDispute(r) => Kept
  BY TriggerAllows DEF IInv, TypeOK, Contract, RouteToDispute, UpdateContract, Kept
<1>3. FulfilDirectly(r) => Kept
  BY DEF IInv, TypeOK, Contract, FulfilDirectly, Kept
<1>4. RewardDelivery(r) => Kept
  BY DEF IInv, TypeOK, RewardDelivery, rows, Kept
<1> QED
  BY <1>1, <1>2, <1>3, <1>4 DEF DeliveryStep, TakeWork, HandlerThrows, rows, Kept

\* A satisfy that pays is the acceptance.
LEMMA SatisfyAccepts ==
    ASSUME IInv, NEW r \in Request, SatisfyStarts(r)
    PROVE  Kept \/ Promise!Accept
<1>1. tally' = tally \/ tally' = [tally EXCEPT !.accepted = TRUE]
  BY DEF SatisfyStarts
<1>2. UNCHANGED <<contract, chain>>
  BY DEF SatisfyStarts, rows
<1>3. CASE tally' = tally
  BY <1>2, <1>3 DEF Kept
<1>4. CASE tally' = [tally EXCEPT !.accepted = TRUE]
  <2>1. tally'.accepted = TRUE /\ tally'.satisfied = tally.satisfied
    BY <1>4 DEF IInv, TypeOK
  <2>2. tally.accepted = TRUE \/ tally.accepted = FALSE
    BY DEF IInv, TypeOK
  <2> QED
    BY <1>2, <2>1, <2>2 DEF Kept, Promise!Accept
<1> QED
  BY <1>1, <1>3, <1>4

\* The "settled" update closes a contract whose money moved.
LEMMA ClosePaid ==
    ASSUME IInv, NEW r \in Request, CloseContract(r)
    PROVE  Kept \/ Promise!Close
<1>1. contract' = contract \/ (MayBecome("settled") /\ contract' = [contract EXCEPT !.status = "settled"])
  BY DEF CloseContract, UpdateContract, IInv, TypeOK, Contract
<1>2. chain.moved /\ UNCHANGED <<chain, tally>>
  BY DEF CloseContract, At, IInv, PaidFirst
<1>3. CASE contract' = contract
  BY <1>2, <1>3 DEF Kept
<1>4. CASE MayBecome("settled") /\ contract' = [contract EXCEPT !.status = "settled"]
  <2>1. contract.status = "satisfied" /\ contract'.status = "settled"
    BY <1>4, TriggerAllows DEF IInv, TypeOK, Contract
  <2> QED
    BY <1>2, <2>1 DEF Promise!Close
<1> QED
  BY <1>1, <1>3, <1>4

\* The one reward follows the one "settled" update.
LEMMA RewardOnce ==
    ASSUME IInv, NEW r \in Request, RewardSettlement(r)
    PROVE  Kept \/ Promise!Reward
<1>1. contract.status = "settled" /\ tally.satisfied = 0 /\ UNCHANGED <<contract, chain>>
  BY DEF RewardSettlement, rows, At, IInv, RewardedOnce
<1>2. CASE tally' = tally
  BY <1>1, <1>2 DEF Kept
<1>3. CASE tally' = [tally EXCEPT !.satisfied = @ + 1]
  <2>1. tally'.satisfied = 1 /\ tally'.accepted = tally.accepted
    BY <1>1, <1>3 DEF IInv, TypeOK
  <2> QED
    BY <1>1, <2>1 DEF Promise!Reward
<1> QED
  BY <1>2, <1>3 DEF RewardSettlement

\* Otherwise a release is invisible until its transfer lands.
LEMMA ReleaseKeeps ==
    ASSUME IInv, NEW r \in Request, ReleaseStep(r)
    PROVE  Kept \/ Promise!Close \/ Promise!Reward
<1>1. Finalize(r) => Kept
  BY TriggerAllows DEF IInv, TypeOK, Contract, Finalize, UpdateContract, Kept
<1>2. LookUp(r) \/ VoidExpired(r) \/ Claim(r) \/ SettleAnswered(r) \/ SettleLost(r) \/ Record(r)
        \/ HandBack(r) \/ VoidLookUp(r) \/ VoidPayment(r) => Kept
  BY DEF LookUp, VoidExpired, Claim, SettleAnswered, SettleLost, Record, HandBack, VoidLookUp,
     VoidPayment, rows, Kept
<1> QED
  BY <1>1, <1>2, ClosePaid, RewardOnce DEF ReleaseStep

\* A transfer that lands is the payment, and follows the acceptance.
LEMMA ChainPays ==
    ASSUME IInv, NEW r \in Request, ChainStep(r)
    PROVE  Kept \/ Promise!Pay
<1>1. TransferRefused(r) => Kept
  BY DEF TransferRefused, rows, Kept
<1>2. CASE TransferLands(r)
  <2>1. tally.accepted /\ ~chain.moved /\ UNCHANGED <<contract, tally>>
    BY <1>2 DEF TransferLands, rows, IInv, AcceptedFirst
  <2>2. chain'.moved = TRUE
    BY <1>2 DEF TransferLands, IInv, TypeOK
  <2> QED
    BY <2>1, <2>2 DEF Promise!Pay
<1> QED
  BY <1>1, <1>2 DEF ChainStep

\* Every step is a step of the promise or a stutter.
LEMMA StepKeepsPromise ==
    ASSUME IInv, [Next]_vars
    PROVE  [Promise!Next]_(Promise!vars)
<1>1. SUFFICES Kept \/ Promise!Next
  BY KeptStutters
<1>2. ASSUME NEW r \in Request, EscrowStep(r) \/ DeliveryStep(r)
      PROVE  Kept
  BY <1>2, EscrowKeeps, DeliveryKeeps
<1>3. ASSUME NEW r \in Request, ArrivalStep(r)
      PROVE  Kept \/ Promise!Next
  <2>1. SweepContracts(r) \/ SweepSettlements(r) => Kept
    BY DEF SweepContracts, SweepSettlements, rows, Kept
  <2> QED
    BY <1>3, <2>1, SatisfyAccepts DEF ArrivalStep, Promise!Next
<1>4. ASSUME NEW r \in Request, ReleaseStep(r)
      PROVE  Kept \/ Promise!Next
  BY <1>4, ReleaseKeeps DEF Promise!Next
<1>5. ASSUME NEW r \in Request, ChainStep(r)
      PROVE  Kept \/ Promise!Next
  BY <1>5, ChainPays DEF Promise!Next
<1>6. ASSUME NEW r \in Request, Die(r)
      PROVE  Kept
  BY <1>6 DEF Die, rows, Kept
<1>7. CASE Cancel \/ Dispute \/ Resolve
  <2>1. UNCHANGED <<chain, tally>>
    BY <1>7 DEF Cancel, Dispute, Resolve
  <2>2. contract.status # "settled" /\ contract'.status # "settled"
    BY <1>7, TriggerAllows DEF Cancel, Dispute, Resolve, SetStatus, IInv, TypeOK, Contract
  <2> QED
    BY <2>1, <2>2 DEF Kept
<1>8. CASE WindowPasses
  BY <1>8 DEF WindowPasses, rows, IInv, TypeOK, Kept
<1>9. CASE UNCHANGED vars
  BY <1>9 DEF vars, rows, Kept
<1> QED
  BY <1>2, <1>3, <1>4, <1>5, <1>6, <1>7, <1>8, <1>9 DEF Next

(***************************************************************************)
(* Deferred settlement implements pay after delivery: the money moves once *)
(* and after acceptance, a contract closes on money that moved, and its    *)
(* RepID is applied once.                                                  *)
(***************************************************************************)
THEOREM PaysAfterDelivery == Spec => ImplementsPayAfterDelivery
<1>1. Init => Promise!Init
  BY DEF Init, Promise!Init
<1>2. IInv /\ [Next]_vars => [Promise!Next]_(Promise!vars)
  BY StepKeepsPromise
<1> QED
  BY <1>1, <1>2, PhasesAreJustified, PTL DEF Spec, ImplementsPayAfterDelivery, Promise!Spec
=============================================================================
