---------------------------- MODULE DisputePanel ----------------------------
(***************************************************************************)
(* The dispute panel beside the contract of DeferredSettlement:            *)
(*   src/src/workers/dispute-resolution-worker.ts   processOne             *)
(*   src/src/routes/v1/contracts.ts                 POST /:id/dispute      *)
(*   src/src/services/service-handler-base.ts       the routed dispute     *)
(* A dispute is two writes, of the contract and of dispute_validation_queue:*)
(* a party's request updates the contract first, a handler files the row   *)
(* first.  The actions of DeferredSettlement stand, but the atomic Dispute *)
(* gives way to those two writes.  What the validators and the judge find  *)
(* is external.                                                            *)
(***************************************************************************)
EXTENDS DeferredSettlement, Sequences

CONSTANTS
    Disputer,   \* POST /:id/dispute requests.
    Panel,      \* Replicas running the worker.
    MaxFaults   \* Failed statements and deaths of the panel and its requests.

ASSUME PanelAssumption ==
    /\ Disputer \cap Request = {}
    /\ MaxFaults \in Nat

VARIABLES
    queue,      \* The rows in order of created_at: who filed one, its status,
                \* and, as history, how often its RepID deltas were applied.
    disputer,   \* [Disputer -> where the request is]
    panel,      \* [Panel -> where the worker is, its row, its verdict]
    faults      \* How many faults have happened.

panelVars == <<queue, disputer, panel, faults>>
allVars   == <<vars, panelVars>>

Row == [by : Disputer \cup Deliverer, rulings : Nat,
        status : {"pending", "processing", "completed", "failed", "skipped"}]

\* "write" ends the hearing: the row becomes what `to` says.
Hearing ==
    [pc : {"idle", "claim", "hear", "write", "resolve", "rule", "fail"}, row : Nat,
     to : {"none", "pending", "completed", "skipped"},
     fault : {"none", "someone", "nobody"}]

Idle == [pc |-> "idle", row |-> 0, to |-> "none", fault |-> "none"]

PanelTypeOK ==
    /\ TypeOK
    /\ queue \in Seq(Row)
    /\ disputer \in [Disputer -> {"idle", "file", "done"}]
    /\ panel \in [Panel -> Hearing]
    /\ faults \in 0..MaxFaults

PanelInit ==
    /\ Init
    /\ queue = <<>>
    /\ disputer = [d \in Disputer |-> "idle"]
    /\ panel = [w \in Panel |-> Idle]
    /\ faults = 0

Fault == faults < MaxFaults /\ faults' = faults + 1

-----------------------------------------------------------------------------
(* Who files a dispute *)

File(f) == queue' = Append(queue, [by |-> f, rulings |-> 0, status |-> "pending"])

Filed(f) == \E i \in DOMAIN queue : queue[i].by = f

\* Mutated: the row is filed whatever became of the update.
DisputeUnchecked(d) ==
    /\ disputer[d] = "idle"
    /\ disputer' = [disputer EXCEPT ![d] = "file"]
    /\ contract' = IF MayBecome("disputed") THEN [contract EXCEPT !.status = "disputed"]
                   ELSE contract
    /\ UNCHANGED <<sett, chain, req, tally, queue, panel, faults>>

\* The update has no guard of its own: the trigger decides, and admits a second
\* dispute of a disputed contract.
DisputeContract(d) ==
    /\ disputer[d] = "idle"
    /\ MayBecome("disputed") /\ SetStatus("disputed")
    /\ disputer' = [disputer EXCEPT ![d] = "file"]
    /\ UNCHANGED <<sett, chain, req, tally, queue, panel, faults>>

\* A row that could not be filed is logged, and a request may die before it.
FileDispute(d) ==
    /\ disputer[d] = "file"
    /\ disputer' = [disputer EXCEPT ![d] = "done"]
    /\ \/ File(d) /\ UNCHANGED faults
       \/ Fault /\ UNCHANGED queue
    /\ UNCHANGED <<vars, panel>>

\* A handler's veto: the row is filed while the contract is still as it was.
FileVeto(r) ==
    /\ r \in Deliverer /\ At(r, "work") /\ ~Filed(r)
    /\ File(r)
    /\ UNCHANGED <<vars, disputer, panel, faults>>

-----------------------------------------------------------------------------
(* The worker *)

Hear(w, hearing) == panel' = [panel EXCEPT ![w] = hearing]

Stop(w) == Hear(w, Idle)

\* The oldest pending row.
PickDispute(w) ==
    /\ panel[w].pc = "idle"
    /\ \E i \in DOMAIN queue :
          /\ queue[i].status = "pending"
          /\ \A j \in 1..(i - 1) : queue[j].status # "pending"
          /\ Hear(w, [Idle EXCEPT !.pc = "claim", !.row = i])
    /\ UNCHANGED <<vars, queue, disputer, faults>>

SetRow(i, status) == queue' = [queue EXCEPT ![i].status = status]

\* Mutated: the update is not gated on "pending".
ClaimAny(w) ==
    /\ panel[w].pc = "claim"
    /\ SetRow(panel[w].row, "processing")
    /\ Hear(w, [panel[w] EXCEPT !.pc = "hear"])
    /\ UNCHANGED <<vars, disputer, faults>>

\* The update gated on "pending".  Its error is not looked at: an answer that
\* is lost reads as a lost race.
ClaimDispute(w) ==
    /\ panel[w].pc = "claim"
    /\ LET i    == panel[w].row
           free == queue[i].status = "pending"
       IN  \/ /\ free /\ SetRow(i, "processing")
              /\ Hear(w, [panel[w] EXCEPT !.pc = "hear"])
              /\ UNCHANGED faults
           \/ ~free /\ Stop(w) /\ UNCHANGED <<queue, faults>>
           \/ /\ free /\ Fault /\ Stop(w)
              /\ SetRow(i, "processing") \/ UNCHANGED queue
    /\ UNCHANGED <<vars, disputer>>

\* Validators and judge: a verdict (whichever side it faults, both get a delta),
\* too few independent validators, no answer at all, or an exception.
HearDispute(w) ==
    /\ panel[w].pc = "hear"
    /\ \/ \E fault \in {"someone", "nobody"} :
             Hear(w, [panel[w] EXCEPT !.pc = "write", !.to = "completed", !.fault = fault])
       \/ \E to \in {"skipped", "pending"} :
             Hear(w, [panel[w] EXCEPT !.pc = "write", !.to = to])
       \/ Hear(w, [panel[w] EXCEPT !.pc = "fail"])
    /\ UNCHANGED <<vars, queue, disputer, faults>>

\* Mutated: the verdict is written where the status belongs.
WriteVerdict(w) ==
    /\ panel[w].pc = "write"
    /\ SetRow(panel[w].row, panel[w].fault)
    /\ Hear(w, [panel[w] EXCEPT !.pc = "resolve"])
    /\ UNCHANGED <<vars, disputer, faults>>

\* Mutated: the row is left as it is when nobody answered.
WriteForgotten(w) ==
    /\ panel[w].pc = "write"
    /\ \/ /\ panel[w].to = "pending" /\ Stop(w) /\ UNCHANGED queue
       \/ /\ panel[w].to # "pending" /\ SetRow(panel[w].row, panel[w].to)
          /\ IF panel[w].to = "completed" THEN Hear(w, [panel[w] EXCEPT !.pc = "resolve"])
             ELSE Stop(w)
    /\ UNCHANGED <<vars, disputer, faults>>

\* Written by the row's id alone, its error not looked at.
WriteRow(w) ==
    /\ panel[w].pc = "write"
    /\ \/ SetRow(panel[w].row, panel[w].to) /\ UNCHANGED faults
       \/ Fault /\ UNCHANGED queue
    /\ \/ panel[w].to = "completed" /\ Hear(w, [panel[w] EXCEPT !.pc = "resolve"])
       \/ panel[w].to # "completed" /\ Stop(w)
    /\ UNCHANGED <<vars, disputer>>

\* The contract's update may be refused by the trigger or fail: the ruling goes
\* on all the same.
ResolveContract(w) ==
    /\ panel[w].pc = "resolve"
    /\ \/ /\ MayBecome("resolved") /\ SetStatus("resolved") /\ UNCHANGED faults
       \/ /\ ~MayBecome("resolved") /\ UNCHANGED <<contract, faults>>
       \/ /\ MayBecome("resolved") /\ Fault /\ UNCHANGED contract
    /\ Hear(w, [panel[w] EXCEPT !.pc = "rule"])
    /\ UNCHANGED <<sett, chain, req, tally, queue, disputer>>

\* applyServiceDisputeResolution: the provider's delta, then the buyer's; either
\* may throw, which marks the row failed.
ApplyRuling(w) ==
    /\ panel[w].pc = "rule"
    /\ \/ /\ panel[w].fault = "nobody"
          /\ Stop(w) /\ UNCHANGED <<queue, faults>>
       \/ /\ panel[w].fault = "someone"
          /\ queue' = [queue EXCEPT ![panel[w].row].rulings = @ + 1]
          /\ \/ Stop(w) /\ UNCHANGED faults
             \/ Fault /\ Hear(w, [panel[w] EXCEPT !.pc = "fail"])
       \/ /\ panel[w].fault = "someone" /\ Fault
          /\ Hear(w, [panel[w] EXCEPT !.pc = "fail"])
          /\ UNCHANGED queue
    /\ UNCHANGED <<vars, disputer>>

\* Mutated: a row whose hearing threw is put back for another try.
FailForRetry(w) ==
    /\ panel[w].pc = "fail"
    /\ SetRow(panel[w].row, "pending")
    /\ Stop(w)
    /\ UNCHANGED <<vars, disputer, faults>>

\* Whatever threw: the row is failed, and no code takes it up again.
FailRow(w) ==
    /\ panel[w].pc = "fail"
    /\ \/ SetRow(panel[w].row, "failed") /\ UNCHANGED faults
       \/ Fault /\ UNCHANGED queue
    /\ Stop(w)
    /\ UNCHANGED <<vars, disputer>>

WorkerDies(w) ==
    /\ panel[w].pc # "idle" /\ Fault
    /\ Stop(w)
    /\ UNCHANGED <<vars, queue, disputer>>

PanelStep(w) ==
    \/ PickDispute(w) \/ ClaimDispute(w) \/ HearDispute(w)
    \/ WriteRow(w) \/ ResolveContract(w) \/ ApplyRuling(w) \/ FailRow(w)

-----------------------------------------------------------------------------

\* A handler that has filed its row goes on to the contract, and one that has
\* not goes on to its result.
DeliveryWithPanel(r) ==
    \/ TakeWork(r) \/ FulfilDirectly(r) \/ RewardDelivery(r)
    \/ ~Filed(r) /\ (FileResult(r) \/ HandlerThrows(r))
    \/ Filed(r) /\ RouteToDispute(r)

SettlementNext ==
    /\ \/ \E r \in Request : EscrowStep(r) \/ DeliveryWithPanel(r) \/ ArrivalStep(r)
                               \/ ReleaseStep(r) \/ ChainStep(r) \/ Die(r)
       \/ Cancel \/ Resolve \/ WindowPasses
    /\ UNCHANGED panelVars

PanelNext ==
    \/ SettlementNext
    \/ \E d \in Disputer : DisputeContract(d) \/ FileDispute(d)
    \/ \E r \in Deliverer : FileVeto(r)
    \/ \E w \in Panel : PanelStep(w) \/ WorkerDies(w)

PanelSpec == PanelInit /\ [][PanelNext]_allVars

\* As in FairSpec, and a worker that runs goes on: the judge aborts a silent
\* provider and the HTTP client of the validators gives up on one.
PanelFairness ==
    /\ \A r \in Releaser : WF_allVars(ReleaseStep(r) /\ UNCHANGED panelVars)
    /\ \A w \in Panel : WF_allVars(PanelStep(w))

PanelFairSpec == PanelSpec /\ PanelFairness
=============================================================================
