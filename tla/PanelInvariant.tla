--------------------------- MODULE PanelInvariant ---------------------------
(***************************************************************************)
(* What the theorems about the dispute panel rest on, beside the invariant *)
(* of deferred settlement.                                                 *)
(***************************************************************************)
EXTENDS PanelProperties, SettlementInvariant

\* From its claim to its last write a worker has the row.
Hearings == {"hear", "write", "resolve", "rule", "fail"}

\* A row in a worker's hands is not pending, and is in no other worker's.
RowsHaveOneWorker ==
    /\ \A w \in Panel : panel[w].pc # "idle" => panel[w].row \in DOMAIN queue
    /\ \A w \in Panel : panel[w].pc \in Hearings => queue[panel[w].row].status # "pending"
    /\ \A v, w \in Panel :
          v # w /\ panel[v].pc \in Hearings /\ panel[w].pc \in Hearings =>
             panel[v].row # panel[w].row

\* Until its ruling has been applied, or has thrown, a row has none.
RulingsAreOwed ==
    /\ OneRulingPerRow
    /\ \A w \in Panel : panel[w].pc \in Hearings \ {"fail"} => queue[panel[w].row].rulings = 0
    /\ \A w \in Panel : panel[w].pc = "write" => panel[w].to # "none"

\* A party's row, and a request about to file one, follow the contract's update.
Contested == contract.status \in {"disputed", "resolved"}

PartiesDisputeFirst ==
    /\ \A d \in Disputer : disputer[d] = "file" => Contested
    /\ \A i \in DOMAIN queue : queue[i].by \in Disputer => Contested

PanelInv == PanelTypeOK /\ RowsHaveOneWorker /\ RulingsAreOwed /\ PartiesDisputeFirst
=============================================================================
