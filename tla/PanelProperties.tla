--------------------------- MODULE PanelProperties ---------------------------
(* What must hold of the dispute panel beside deferred settlement. *)
EXTENDS DisputePanel, SettlementProperties

(***************************************************************************)
(* A row's RepID deltas are applied at most once, with workers racing for  *)
(* it, hearings put back because nobody answered, writes that fail and     *)
(* rulings that break off half-way; and a row once ruled is never pending. *)
(***************************************************************************)
OneRulingPerRow ==
    \A i \in DOMAIN queue :
        queue[i].rulings > 0 => queue[i].rulings = 1 /\ queue[i].status # "pending"

(***************************************************************************)
(* A party's dispute that was ruled on excludes the reward of a settlement *)
(* the buyer accepted, although the two race: the request updates the      *)
(* contract before it files the row, and the trigger lets nothing but a    *)
(* resolution follow.                                                      *)
(***************************************************************************)
RulingExcludesReward ==
    \A i \in DOMAIN queue :
        queue[i].by \in Disputer /\ queue[i].rulings > 0 =>
            contract.status \in {"disputed", "resolved"} /\ tally.satisfied = 0

Taken(i) == \E j \in DOMAIN queue : j = i /\ queue[j].status = "processing"

(***************************************************************************)
(* While no statement of the panel fails, a row that a worker has taken is *)
(* decided, escalated, failed or put back: a panel that never answers does *)
(* not keep it.                                                            *)
(***************************************************************************)
RowIsReleased ==
    \A i \in 1..Cardinality(Disputer \cup Deliverer) :
        Taken(i) ~> (~Taken(i) \/ faults > 0)
=============================================================================
