------------------------ MODULE SettlementInvariant -------------------------
(***************************************************************************)
(* The inductive invariant of deferred settlement: what each phase of a    *)
(* request says of the rows and of the chain.                              *)
(***************************************************************************)
EXTENDS SettlementProperties

Releasing == {"look", "expire", "claim"} \cup Holding

\* Whoever came to release did so on the buyer's acceptance.
AcceptedFirst ==
    /\ \A r \in Request : req[r].pc \in Releasing \/ req[r].net # "none" => tally.accepted
    /\ chain.moved => tally.accepted

\* The phases that follow a transfer, and the answers that report one.
PaidFirst ==
    /\ \A r \in Request :
          /\ req[r].pc \in {"record", "finalize", "close", "reward"} => chain.moved
          /\ req[r].net = "landed" => chain.moved
    /\ RecordedMeansPaid

\* The buyer's score is written in the update that leaves "fulfilled" for good,
\* so the sweep finds nothing.
NeverStranded ==
    /\ contract.score = "positive" => Closed
    /\ \A r \in Request : ~req[r].stranded
    /\ \A r \in Sweeper : req[r].pc \in {"idle", "sweep"}

\* The trigger lets one request turn "satisfied" into "settled".
RewardedOnce ==
    /\ \A r \in Request : req[r].pc = "reward" =>
          /\ contract.status = "settled" /\ tally.satisfied = 0
          /\ \A q \in Request : req[q].pc = "reward" => q = r
    /\ contract.status # "settled" => tally.satisfied = 0
    /\ tally.satisfied <= 1

\* Each phase belongs to one kind of request.
ReleaserPhases ==
    Releasing \cup {"finalize", "close", "reward", "voidlook", "void"}

PhasesByKind ==
    \A r \in Request :
        req[r].pc \in ReleaserPhases \/ req[r].net # "none" => r \in Releaser

IInv ==
    /\ TypeOK
    /\ AcceptedFirst
    /\ PaidFirst
    /\ NeverStranded
    /\ RewardedOnce
    /\ PhasesByKind
    /\ OneReleaser
=============================================================================
