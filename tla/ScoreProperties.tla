-------------------------- MODULE ScoreProperties --------------------------
(* What must hold of score updates. *)
EXTENDS ScoreUpdate, FiniteSets, Functions

EventRow == [agent : Agent, receipt : Receipt \cup {None}, domain : Domain \cup {None},
         delta : Int, spent : BOOLEAN, day : Days, before : Floor .. Ceiling, after : Floor .. Ceiling]

\* The types: every score, in the table and on the rows, stays inside the clamp.
TypeOK ==
    /\ applier \in Appliers
    /\ score \in [Agent -> Floor .. Ceiling]
    /\ events \in Seq(EventRow)
    /\ receipts \in [Receipt -> {"absent", "fresh", "spent"}]
    /\ booked \in [Key -> Nat]
    /\ today \in Days
    /\ \A s \in Slot : run[s].pc \in Phase

Gains(i) == events[i].spent /\ events[i].delta > 0

SameWork(r, q) == About[r].subject = About[q].subject /\ About[r].content = About[q].content

(***************************************************************************)
(* One receipt is behind at most one row that moved a score, whoever       *)
(* presents it, how often and at the same moment, and one piece of work    *)
(* is behind at most one gain, under however many receipts.                *)
(***************************************************************************)
OneMovePerReceipt ==
    \A i, j \in 1 .. Len(events) : i # j /\ events[i].spent /\ events[j].spent =>
        /\ events[i].receipt # events[j].receipt
        /\ Gains(i) /\ Gains(j) => ~SameWork(events[i].receipt, events[j].receipt)

Rows == 1 .. Len(events)

\* The gains written under one key of the budget.
Paid(k) ==
    {i \in Rows : /\ Gains(i)
                  /\ events[i].agent = k[1] /\ events[i].day = k[2]
                  /\ k[3] \in {Whole, events[i].domain}}

PaidSum(k) == SumFunctionOnSet([i \in Rows |-> events[i].delta], Paid(k))

(***************************************************************************)
(* The gains granted to an agent on one day stay inside the day's budget,  *)
(* and those of one domain inside the domain's, however many runs read     *)
(* what is left at the same time; so a day of gains is less than a wrong.  *)
(***************************************************************************)
GainsWithinBudget ==
    \A a \in Agent, d \in Days :
        /\ PaidSum(<<a, d, Whole>>) <= DayCap
        /\ PaidSum(<<a, d, Whole>>) < Wrong
        /\ \A m \in Domain : PaidSum(<<a, d, m>>) <= DomainCap

(***************************************************************************)
(* With the trigger as the only applier, replaying the movements of the    *)
(* rows that declare a delta gives the score, whatever failed, was lost,   *)
(* overlapped or crashed.                                                  *)
(***************************************************************************)
Moving(a) == {i \in Rows : events[i].agent = a /\ events[i].delta # 0}

Movement(a) == SumFunctionOnSet([i \in Rows |-> events[i].after - events[i].before], Moving(a))

TriggerReplays == applier = "trigger" => \A a \in Agent : score[a] = Start + Movement(a)

Scored(r) == \E i \in 1 .. Len(events) : events[i].receipt = r /\ events[i].spent
=============================================================================
