---------------------------- MODULE ScoreInvariant ----------------------------
(* What the theorems about score updates rest on. *)
EXTENDS ScoreProperties

RunRecord ==
    [pc : Phase, input : Input \cup {None}, before : Int, decayed : Int, delta : Int,
     hold : BOOLEAN, spent : BOOLEAN, day : Days]

\* Each phase of a run: it has an input and read a score inside the clamp, it
\* asks the database only about a receipt, and spends one only on the way out.
RunsAreTyped ==
    /\ run \in [Slot -> RunRecord]
    /\ \A s \in Slot : run[s].pc # "idle" => run[s].input \in Input /\ run[s].before \in Floor .. Ceiling
    /\ \A s \in Slot : run[s].pc \in {"fetched", "reserving", "claiming"} =>
          run[s].input.receipt \in Receipt /\ ~run[s].spent
    /\ \A s \in Slot : run[s].pc = "reserving" =>
          run[s].input.domain \in Domain /\ About[run[s].input.receipt].status = "VERIFIED"
    /\ \A s \in Slot : run[s].pc = "idle" => ~run[s].spent

\* What a receipt was spent on: only a verified one pays.
PaysFor(r, delta) ==
    /\ r \in Receipt
    /\ receipts[r] = "spent"
    /\ delta > 0 => About[r].status = "VERIFIED"

\* A run that has spent its receipt and not yet written its row.
Holder(s) == run[s].pc = "priced" /\ run[s].spent

\* A spent receipt has one owner, a run or a row.
OwnersDiffer ==
    /\ \A s \in Slot : Holder(s) => PaysFor(run[s].input.receipt, run[s].delta)
    /\ \A i \in 1 .. Len(events) : events[i].spent => PaysFor(events[i].receipt, events[i].delta)
    /\ \A s, t \in Slot : Holder(s) /\ Holder(t) /\ s # t => run[s].input.receipt # run[t].input.receipt
    /\ \A s \in Slot, i \in 1 .. Len(events) :
          Holder(s) /\ events[i].spent => run[s].input.receipt # events[i].receipt
    /\ \A i, j \in 1 .. Len(events) :
          i # j /\ events[i].spent /\ events[j].spent => events[i].receipt # events[j].receipt

\* The unique index: one piece of work is paid under one receipt.
WorkPaidOnce ==
    \A r, q \in Receipt :
        /\ r # q /\ receipts[r] = "spent" /\ receipts[q] = "spent"
        /\ About[r].status = "VERIFIED" /\ About[q].status = "VERIFIED"
        => ~SameWork(r, q)

\* What the books and the replay rest on.
CoreInv == TypeOK /\ RunsAreTyped /\ OwnersDiffer /\ WorkPaidOnce

\* The gains under one key that are granted and not yet written.
Owed(k) ==
    {s \in Slot : /\ Holder(s) /\ run[s].delta > 0
                  /\ run[s].input.agent = k[1] /\ run[s].day = k[2]
                  /\ k[3] \in {Whole, run[s].input.domain}}

OwedSum(k) == SumFunctionOnSet([s \in Slot |-> run[s].delta], Owed(k))

Cap(k) == IF k[3] = Whole THEN DayCap ELSE DomainCap

\* What is written and what is granted was booked first, and no budget is
\* overdrawn; a grant whose answer was lost stays booked.
BooksCover ==
    \A k \in Key :
        /\ IsFiniteSet(Owed(k))
        /\ PaidSum(k) + OwedSum(k) <= booked[k]
        /\ booked[k] <= Cap(k)

\* With the trigger alone, no run has a write of its own to make.
OnlyTheTrigger == applier = "trigger" => \A s \in Slot : run[s].pc # "written"

IInv == CoreInv /\ BooksCover /\ OnlyTheTrigger /\ TriggerReplays
=============================================================================
