------------------------- MODULE DeferredSettlement -------------------------
(***************************************************************************)
(* One service contract, its held payment and everything that acts on them *)
(* while X402_SETTLE_ON_DELIVERY and X402_ENFORCEMENT_ENABLED are on:      *)
(*   src/src/routes/v1/contracts.ts                 the requests           *)
(*   src/src/services/x402-deferred-settlement.ts   hold, release, void    *)
(*   src/src/services/x402-release-retry-worker.ts  the retry sweep        *)
(*   src/src/services/contract-settlement-finalize.ts                      *)
(*   src/src/services/service-handler-base.ts       delivery by a handler  *)
(* Contracts share nothing here, so one is enough.  Every await is a step: *)
(* a request holds what it read before it while the others run.  The       *)
(* facilitator and the chain are external: a broadcast may be refused, may *)
(* land, and may land although its answer never came back.                 *)
(***************************************************************************)
EXTENDS Naturals, FiniteSets

CONSTANTS
    Escrow,    \* POST /:id/escrow requests, each with a verified payment.
    Deliverer, \* Deliveries: processOne() runs and POST /:id/fulfill requests.
    Buyer,     \* POST /:id/satisfy requests bound to the buyer agent.
    Sweeper,   \* Replicas running the retry worker.
    Faults     \* What may go wrong: "db", "net", "crash".

Releaser == Buyer \cup Sweeper
Request  == Escrow \cup Deliverer \cup Releaser

ASSUME SettlementAssumption ==
    /\ Escrow \cap Deliverer = {}
    /\ Buyer \cap Sweeper = {}
    /\ (Escrow \cup Deliverer) \cap Releaser = {}
    /\ Faults \subseteq {"db", "net", "crash"}

VARIABLES
    contract,  \* The service_contracts row: status, result, buyer's score.
    sett,      \* The x402_settlements row: its status, or "none".
    chain,     \* Has the transfer landed, and is the signature still usable?
    req,       \* [Request -> record]: where each request is.
    tally      \* History: RepID events written, and whether the buyer accepted.

rows == <<contract, sett>>
vars == <<rows, chain, req, tally>>

Status == {"pending", "escrowed", "fulfilled", "satisfied", "settled",
           "disputed", "resolved", "cancelled"}
Result == {"none", "sound", "unsound"}

\* A release from the moment its claim is acknowledged to its last write on it.
Holding == {"settle", "record", "handback"}

Working == {"hold", "link", "work", "deltas", "sweep", "look", "expire", "claim",
            "finalize", "close", "reward", "voidlook", "void"} \cup Holding
Answer  == {"none", "ok", "failed", "refused", "voided", "kept"}

RequestState ==
    [pc : Working \cup {"idle", "done"}, answer : Answer,
     stranded : BOOLEAN, net : {"none", "sent", "landed", "refused"}]

Contract == [status : Status, result : Result, score : {"null", "positive"}]

TypeOK ==
    /\ contract \in Contract
    /\ sett \in {"none", "authorized", "settling", "settled", "voided"}
    /\ chain \in [moved : BOOLEAN, window : {"open", "past"}]
    /\ req \in [Request -> RequestState]
    /\ tally \in [accepted : BOOLEAN, fulfilled : Nat, satisfied : Nat]

Init ==
    /\ contract = [status |-> "pending", result |-> "none", score |-> "null"]
    /\ sett = "none"
    /\ chain = [moved |-> FALSE, window |-> "open"]
    /\ req = [r \in Request |->
                [pc |-> "idle", answer |-> "none", stranded |-> FALSE, net |-> "none"]]
    /\ tally = [accepted |-> FALSE, fulfilled |-> 0, satisfied |-> 0]

-----------------------------------------------------------------------------
(* The database and the requests *)

\* The trigger of the contract table: what an update may turn a status into.
\* Nothing in the code writes "expired".
Transitions ==
    [pending   |-> {"pending", "escrowed", "cancelled"},
     escrowed  |-> {"escrowed", "fulfilled", "disputed"},
     fulfilled |-> {"fulfilled", "satisfied", "disputed"},
     satisfied |-> {"satisfied", "settled"},
     disputed  |-> {"disputed", "resolved"},
     settled   |-> {}, resolved |-> {}, cancelled |-> {}]

MayBecome(status) == status \in Transitions[contract.status]

SetStatus(status) == contract' = [contract EXCEPT !.status = status]

DbFails == "db" \in Faults

Goto(r, pc) == req' = [req EXCEPT ![r].pc = pc]

\* A request is answered; a sweeper is ready for its next sweep.
End(r, answer) ==
    req' = [req EXCEPT ![r] =
              [pc       |-> IF r \in Sweeper THEN "idle" ELSE "done",
               answer   |-> IF r \in Sweeper THEN "none" ELSE answer,
               stranded |-> FALSE,
               net      |-> @.net]]

At(r, pc) == req[r].pc = pc

\* An update to the contract that the trigger checks: it is applied and the
\* request goes on, it is refused, or the answer is lost and it may have been
\* applied.
UpdateContract(r, new, Then) ==
    \/ /\ MayBecome(new.status)
       /\ contract' = new
       /\ Then
    \/ /\ ~MayBecome(new.status)
       /\ UNCHANGED contract
       /\ End(r, "failed")
    \/ /\ DbFails
       /\ contract' \in {contract} \cup {c \in {new} : MayBecome(c.status)}
       /\ End(r, "failed")

-----------------------------------------------------------------------------
(* Escrow: hold the payment, then link it to the contract *)

\* The idempotency check comes before the status check: a payment already held
\* is linked again whatever the status, and a failed read counts as none held.
\* A cap, the payee, the header or its verification may still refuse.
EscrowStarts(r) ==
    /\ r \in Escrow /\ At(r, "idle")
    /\ \/ /\ sett # "none"
          /\ Goto(r, "link")
       \/ /\ sett = "none" \/ DbFails
          /\ contract.status = "pending" /\ chain.window = "open"
          /\ Goto(r, "hold")
       \/ /\ sett = "none" \/ DbFails
          /\ End(r, "refused")
    /\ UNCHANGED <<rows, chain, tally>>

\* recordAuthorization: the row is unique on the contract.
HoldPayment(r) ==
    /\ At(r, "hold")
    /\ \/ /\ sett = "none" /\ sett' = "authorized"
          /\ Goto(r, "link")
       \/ /\ sett # "none" /\ UNCHANGED sett
          /\ End(r, "failed")
       \/ /\ DbFails
          /\ sett' \in {sett} \cup {s \in {"authorized"} : sett = "none"}
          /\ End(r, "failed")
    /\ UNCHANGED <<contract, chain, tally>>

LinkPayment(r) ==
    /\ At(r, "link")
    /\ UpdateContract(r, [contract EXCEPT !.status = "escrowed"], End(r, "ok"))
    /\ UNCHANGED <<sett, chain, tally>>

-----------------------------------------------------------------------------
(* Delivery, cancellation, dispute *)

\* claimNextContract: the update that claims is gated on "escrowed" and leaves
\* the contract "escrowed".
TakeWork(r) ==
    /\ r \in Deliverer /\ At(r, "idle")
    /\ contract.status = "escrowed"
    /\ Goto(r, "work")
    /\ UNCHANGED <<rows, chain, tally>>

\* POST /:id/fulfill: the update is gated on "escrowed" and leaves it.
FulfilDirectly(r) ==
    /\ r \in Deliverer /\ At(r, "idle")
    /\ contract.status = "escrowed"
    /\ \E result \in {"sound", "unsound"} :
          contract' = [contract EXCEPT !.status = "fulfilled", !.result = result]
    /\ Goto(r, "deltas")
    /\ UNCHANGED <<sett, chain, tally>>

FileResult(r) ==
    /\ At(r, "work")
    /\ \E result \in {"sound", "unsound"} :
          UpdateContract(r, [contract EXCEPT !.status = "fulfilled", !.result = result],
                         Goto(r, "deltas"))
    /\ UNCHANGED <<sett, chain, tally>>

\* A veto: the result goes to the dispute panel.
RouteToDispute(r) ==
    /\ At(r, "work")
    /\ UpdateContract(r, [contract EXCEPT !.status = "disputed", !.result = "unsound"],
                      End(r, "ok"))
    /\ UNCHANGED <<sett, chain, tally>>

HandlerThrows(r) ==
    /\ At(r, "work")
    /\ End(r, "failed")
    /\ UNCHANGED <<rows, chain, tally>>

\* SERVICE_FULFILLED for both sides.
RewardDelivery(r) ==
    /\ At(r, "deltas")
    /\ \/ tally' = [tally EXCEPT !.fulfilled = @ + 1]
       \/ DbFails /\ UNCHANGED tally
    /\ End(r, "ok")
    /\ UNCHANGED <<rows, chain>>

Cancel ==
    /\ MayBecome("cancelled") /\ SetStatus("cancelled")
    /\ UNCHANGED <<sett, chain, req, tally>>

Dispute ==
    /\ MayBecome("disputed") /\ SetStatus("disputed")
    /\ UNCHANGED <<sett, chain, req, tally>>

Resolve ==
    /\ MayBecome("resolved") /\ SetStatus("resolved")
    /\ UNCHANGED <<sett, chain, req, tally>>

-----------------------------------------------------------------------------
(* Satisfy and the retry sweep: who comes to release the payment *)

Sound == contract.result = "sound"

\* Mutated: the rating alone decides.
SatisfyUnchecked(r) ==
    /\ r \in Buyer /\ At(r, "idle")
    /\ contract.status = "fulfilled"
    /\ Goto(r, "look")
    /\ tally' = [tally EXCEPT !.accepted = @ \/ Sound]
    /\ UNCHANGED <<rows, chain>>

\* The buyer's rating decides, with the deliverable, between paying and voiding.
SatisfyStarts(r) ==
    /\ r \in Buyer /\ At(r, "idle")
    /\ \E positive \in BOOLEAN :
          \/ /\ contract.status # "fulfilled"
             /\ End(r, "refused")
             /\ UNCHANGED tally
          \/ /\ contract.status = "fulfilled" /\ Sound /\ positive
             /\ Goto(r, "look")
             /\ tally' = [tally EXCEPT !.accepted = TRUE]
          \/ /\ contract.status = "fulfilled" /\ ~(Sound /\ positive)
             /\ Goto(r, "voidlook")
             /\ UNCHANGED tally
    /\ UNCHANGED <<rows, chain>>

\* isStranded, of the contract's own columns.
IsStranded ==
    contract.status = "fulfilled" /\ Sound /\ contract.score = "positive"

\* findStranded reads the fulfilled contracts, then their settlements.
SweepContracts(r) ==
    /\ r \in Sweeper /\ At(r, "idle")
    /\ contract.status = "fulfilled"
    /\ req' = [req EXCEPT ![r].pc = "sweep", ![r].stranded = IsStranded]
    /\ UNCHANGED <<rows, chain, tally>>

\* A contract that is not due, given up or without a payout wallet is passed over.
SweepSettlements(r) ==
    /\ At(r, "sweep")
    /\ \/ req[r].stranded /\ sett = "authorized" /\ Goto(r, "look")
       \/ End(r, "none")
    /\ UNCHANGED <<rows, chain, tally>>

-----------------------------------------------------------------------------
(* releaseHeldPayment *)

\* Mutated: a release in flight counts as settled.
LookUpInFlight(r) ==
    /\ At(r, "look")
    /\ \/ sett \in {"settled", "settling"} /\ Goto(r, "finalize")
       \/ sett = "voided" /\ End(r, "refused")
       \/ sett = "authorized" /\ Goto(r, "claim")
       \/ (sett = "none" \/ DbFails) /\ End(r, "failed")
    /\ UNCHANGED <<rows, chain, tally>>

LookUp(r) ==
    /\ At(r, "look")
    /\ \/ sett = "settled" /\ Goto(r, "finalize")
       \/ sett \in {"voided", "settling"} /\ End(r, "refused")
       \/ sett = "authorized" /\ chain.window = "past" /\ Goto(r, "expire")
       \/ sett = "authorized" /\ chain.window = "open" /\ Goto(r, "claim")
       \/ (sett = "none" \/ DbFails) /\ End(r, "failed")
    /\ UNCHANGED <<rows, chain, tally>>

VoidExpired(r) ==
    /\ At(r, "expire")
    /\ \/ sett' = IF sett = "authorized" THEN "voided" ELSE sett
       \/ DbFails /\ UNCHANGED sett
    /\ End(r, "failed")
    /\ UNCHANGED <<contract, chain, tally>>

\* Mutated: a row left "settling" may be claimed again.
ClaimStuck(r) ==
    /\ At(r, "claim")
    /\ \/ /\ sett \in {"authorized", "settling"} /\ sett' = "settling"
          /\ req' = [req EXCEPT ![r].pc = "settle", ![r].net = "sent"]
       \/ /\ sett \notin {"authorized", "settling"} /\ UNCHANGED sett
          /\ End(r, "refused")
    /\ UNCHANGED <<contract, chain, tally>>

\* The update gated on "authorized": one of two concurrent releases gets it.
Claim(r) ==
    /\ At(r, "claim")
    /\ \/ /\ sett = "authorized" /\ sett' = "settling"
          /\ req' = [req EXCEPT ![r].pc = "settle", ![r].net = "sent"]
       \/ /\ sett # "authorized" /\ UNCHANGED sett
          /\ End(r, "refused")
       \/ /\ DbFails
          /\ sett' \in {sett} \cup {s \in {"settling"} : sett = "authorized"}
          /\ End(r, "failed")
    /\ UNCHANGED <<contract, chain, tally>>

\* The facilitator's answer.
SettleAnswered(r) ==
    /\ At(r, "settle")
    /\ \/ /\ req[r].net = "landed"
          /\ req' = [req EXCEPT ![r].pc = "record", ![r].net = "none"]
       \/ /\ req[r].net = "refused"
          /\ req' = [req EXCEPT ![r].pc = "handback", ![r].net = "none"]
    /\ UNCHANGED <<rows, chain, tally>>

\* settlePayment throws without an answer: what it sent may still be carried out.
SettleLost(r) ==
    /\ "net" \in Faults /\ At(r, "settle")
    /\ req' = [req EXCEPT ![r].pc = "handback",
                          ![r].net = IF @ = "sent" THEN "sent" ELSE "none"]
    /\ UNCHANGED <<rows, chain, tally>>

\* Written whatever the row says; not recording it does not stop the caller
\* (SETTLED_UNRECORDED counts as paid).
Record(r) ==
    /\ At(r, "record")
    /\ \/ sett' = "settled"
       \/ DbFails /\ UNCHANGED sett
    /\ Goto(r, "finalize")
    /\ UNCHANGED <<contract, chain, tally>>

\* Mutated: the row is marked failed instead.
HandBackFailed(r) ==
    /\ At(r, "handback")
    /\ sett' = "failed"
    /\ End(r, "failed")
    /\ UNCHANGED <<contract, chain, tally>>

\* Mutated: the update is not gated on "settling".
HandBackUngated(r) ==
    /\ At(r, "handback")
    /\ sett' = "authorized"
    /\ End(r, "failed")
    /\ UNCHANGED <<contract, chain, tally>>

\* Mutated: the row is not handed back.
HandBackForgotten(r) ==
    /\ At(r, "handback")
    /\ End(r, "failed")
    /\ UNCHANGED <<rows, chain, tally>>

\* The error of this update is not looked at.
HandBack(r) ==
    /\ At(r, "handback")
    /\ \/ sett' = IF sett = "settling" THEN "authorized" ELSE sett
       \/ DbFails /\ UNCHANGED sett
    /\ End(r, "failed")
    /\ UNCHANGED <<contract, chain, tally>>

-----------------------------------------------------------------------------
(* finalizeSettledContract *)

Finalize(r) ==
    /\ At(r, "finalize")
    /\ UpdateContract(r, [contract EXCEPT !.status = "satisfied", !.score = "positive"],
                      Goto(r, "close"))
    /\ UNCHANGED <<sett, chain, tally>>

CloseContract(r) ==
    /\ At(r, "close")
    /\ UpdateContract(r, [contract EXCEPT !.status = "settled"], Goto(r, "reward"))
    /\ UNCHANGED <<sett, chain, tally>>

\* SERVICE_SATISFIED for both sides; a failure is logged.
RewardSettlement(r) ==
    /\ At(r, "reward")
    /\ \/ tally' = [tally EXCEPT !.satisfied = @ + 1]
       \/ DbFails /\ UNCHANGED tally
    /\ End(r, "ok")
    /\ UNCHANGED <<rows, chain>>

-----------------------------------------------------------------------------
(* voidAuthorization *)

VoidLookUp(r) ==
    /\ At(r, "voidlook")
    /\ \/ sett \notin {"none", "settled"} /\ Goto(r, "void")
       \/ (sett \in {"none", "settled"} \/ DbFails) /\ End(r, "kept")
    /\ UNCHANGED <<rows, chain, tally>>

\* Gated on "not settled": a release in flight is voided under its holder.
VoidPayment(r) ==
    /\ At(r, "void")
    /\ \/ sett # "settled" /\ sett' = "voided" /\ End(r, "voided")
       \/ sett = "settled" /\ UNCHANGED sett /\ End(r, "kept")
       \/ /\ DbFails
          /\ sett' \in {sett} \cup {s \in {"voided"} : sett # "settled"}
          /\ End(r, "kept")
    /\ UNCHANGED <<contract, chain, tally>>

-----------------------------------------------------------------------------
(* The facilitator, the chain, the signature's window, the processes *)

\* transferWithAuthorization: the nonce is spent once, inside the window.
TransferLands(r) ==
    /\ req[r].net = "sent"
    /\ ~chain.moved /\ chain.window = "open"
    /\ chain' = [chain EXCEPT !.moved = TRUE]
    /\ req' = [req EXCEPT ![r].net = "landed"]
    /\ UNCHANGED <<rows, tally>>

\* The nonce is spent, the window is past, the buyer's balance is short or the
\* facilitator fails.
TransferRefused(r) ==
    /\ req[r].net = "sent"
    /\ req' = [req EXCEPT ![r].net = "refused"]
    /\ UNCHANGED <<rows, chain, tally>>

WindowPasses ==
    /\ chain.window = "open"
    /\ chain' = [chain EXCEPT !.window = "past"]
    /\ UNCHANGED <<rows, req, tally>>

\* The process serving the request dies.
Die(r) ==
    /\ "crash" \in Faults
    /\ req[r].pc \notin {"idle", "done"}
    /\ End(r, "none")
    /\ UNCHANGED <<rows, chain, tally>>

-----------------------------------------------------------------------------

EscrowStep(r) == EscrowStarts(r) \/ HoldPayment(r) \/ LinkPayment(r)

DeliveryStep(r) ==
    \/ TakeWork(r) \/ FulfilDirectly(r) \/ FileResult(r)
    \/ RouteToDispute(r) \/ HandlerThrows(r) \/ RewardDelivery(r)

ReleaseStep(r) ==
    \/ LookUp(r) \/ VoidExpired(r) \/ Claim(r)
    \/ SettleAnswered(r) \/ SettleLost(r) \/ Record(r) \/ HandBack(r)
    \/ Finalize(r) \/ CloseContract(r) \/ RewardSettlement(r)
    \/ VoidLookUp(r) \/ VoidPayment(r)

ArrivalStep(r) == SatisfyStarts(r) \/ SweepContracts(r) \/ SweepSettlements(r)

ChainStep(r) == TransferLands(r) \/ TransferRefused(r)

Next ==
    \/ \E r \in Request : EscrowStep(r) \/ DeliveryStep(r) \/ ArrivalStep(r)
                            \/ ReleaseStep(r) \/ ChainStep(r) \/ Die(r)
    \/ Cancel \/ Dispute \/ Resolve \/ WindowPasses

Spec == Init /\ [][Next]_vars

\* A request that has arrived goes on: promises settle, and fetch gives up when
\* the facilitator is silent.  Nothing makes a request arrive, a transfer land,
\* the window pass or a process die.
Fairness == \A r \in Releaser : WF_vars(ReleaseStep(r))

FairSpec == Spec /\ Fairness
=============================================================================
