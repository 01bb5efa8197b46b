------------------------------ MODULE MCSettler ------------------------------
(* Small instances of the settler for TLC. *)
EXTENDS FailedReceiptSettler, TLC

CONSTANTS a1, u1, w

Failed(genuine) ==
    [subject |-> a1, content |-> 0, status |-> "FAILED", genuine |-> genuine, born |-> 0]

\* A signed wrong that its subject may present, dated between two refused rows.
Decoyed == <<Failed(FALSE), Failed(TRUE), Failed(FALSE)>>

Culprit == u1 :> {[agent |-> a1, receipt |-> 2, domain |-> None, price |-> 0]}
=============================================================================
