------------------------------- MODULE MCScore -------------------------------
(* Small instances of the score updates for TLC. *)
EXTENDS ScoreInvariant, TLC

CONSTANTS a1, u1, u2, law, tax

Verified(content) ==
    [subject |-> a1, content |-> content, status |-> "VERIFIED", genuine |-> TRUE, born |-> 0]
Failed ==
    [subject |-> a1, content |-> 0, status |-> "FAILED", genuine |-> TRUE, born |-> 0]

\* One piece of work under two receipts, another one, and a wrong.
FourReceipts == <<Verified(1), Verified(1), Verified(2), Failed>>

Presents(r, domain) == [agent |-> a1, receipt |-> r, domain |-> domain, price |-> 0]
Event(price) == [agent |-> a1, receipt |-> None, domain |-> None, price |-> price]

TwoActors ==
    (u1 :> {Presents(1, law), Presents(4, None)}) @@
    (u2 :> {Presents(2, law), Presents(3, law), Presents(3, tax), Presents(4, None), Event(1)})
=============================================================================
