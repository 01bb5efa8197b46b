------------------------ MODULE SettlementProperties ------------------------
(* What must hold of deferred settlement, and what its comments claim of it. *)
EXTENDS DeferredSettlement

Closed == contract.status \in {"satisfied", "settled"}

(***************************************************************************)
(* Two concurrent releases (a double submit, the retry sweep) race on the  *)
(* update gated on "authorized": at most one of them holds the claim, and  *)
(* while it does the row is "settling", or was voided under it.            *)
(***************************************************************************)
OneReleaser ==
    \A r \in Releaser : req[r].pc \in Holding =>
        /\ sett \in {"settling", "voided"}
        /\ \A q \in Releaser : req[q].pc \in Holding => q = r

(***************************************************************************)
(* A row that says settled and a contract that is closed mean the transfer *)
(* landed, whatever was lost, refused, retried or crashed on the way.      *)
(***************************************************************************)
RecordedMeansPaid == sett = "settled" \/ Closed => chain.moved

(***************************************************************************)
(* A voided authorization is never handed back for another release: the    *)
(* one write that may follow records a transfer that did land.             *)
(***************************************************************************)
VoidIsFinal ==
    [][sett = "voided" => sett' = "voided" \/ (sett' = "settled" /\ chain.moved)]_vars

(***************************************************************************)
(* Every step of escrow, delivery, satisfy, the sweep, the void and the    *)
(* chain is a step of the promise: paid once and only after acceptance,    *)
(* closed only when paid, rewarded once.                                   *)
(***************************************************************************)
Promise == INSTANCE PayAfterDelivery WITH
    accepted <- tally.accepted,
    paid     <- chain.moved,
    closed   <- contract.status = "settled",
    rewarded <- tally.satisfied

ImplementsPayAfterDelivery == Promise!Spec

(***************************************************************************)
(* Without database faults and crashes a claim is always given up: a       *)
(* release whose facilitator throws, refuses or never answers hands the    *)
(* row back or records it, so a retry is possible.                         *)
(***************************************************************************)
ClaimIsGivenUp == sett = "settling" ~> sett # "settling"

-----------------------------------------------------------------------------
(* Claims of the comments that the code does not keep *)

(***************************************************************************)
(* x402-release-retry-worker.ts:5-14: after a satisfy whose release failed *)
(* the delivered and accepted contract, its authorization handed back, is  *)
(* one the retry sweep finds.                                              *)
(***************************************************************************)
StrandedIsFound ==
    (/\ \E r \in Buyer : req[r].answer = "failed"
     /\ tally.accepted /\ sett = "authorized" /\ chain.window = "open"
     /\ contract.status = "fulfilled" /\ Sound)
        => IsStranded
=============================================================================
