--------------------------- MODULE MCKernelLedger ---------------------------
(* Small instances of KernelLedger for TLC.                                *)
EXTENDS KernelInvariant, TLC

CONSTANTS r1, r2, c1, c2, c3, m1, m2

Replicas == Permutations({r1, r2})

\* Two versions of one owner's policy.  The second narrows every limit.
Wide   == [subject |-> "agent", nonce |-> 1, perTx |-> 3, daily |-> 3, total |-> 4, expires |-> 3]
Narrow == [subject |-> "agent", nonce |-> 2, perTx |-> 2, daily |-> 2, total |-> 2, expires |-> 3]

\* A policy whose total lets either payment through, or the small one twice.
Tight  == [subject |-> "agent", nonce |-> 1, perTx |-> 2, daily |-> 3, total |-> 2, expires |-> 3]

Policies == {Wide, Narrow, Tight}
StartsTight == <<PolicyRecord(Tight)>>
StartsWide == <<PolicyRecord(Wide)>>
PostsNarrowThenWide == (m1 :> Narrow) @@ (m2 :> Wide)

NoPosts == <<>>

Spend(mode, effect, amount) ==
    [mode |-> mode, agent |-> "agent", class |-> "spend", tool |-> "pay", effect |-> effect, amount |-> amount]

\* One payment presented twice, through both doors, and a second payment.
Retried == (c1 :> Spend("run", "e1", 1)) @@ (c2 :> Spend("reserve", "e1", 1)) @@ (c3 :> Spend("run", "e2", 2))

\* The same payment presented twice, under two tool names, and another one.
Repeated == (c1 :> Spend("reserve", "e1", 1)) @@ (c2 :> Spend("reserve", "e2", 3))
            @@ (c3 :> [Spend("reserve", "e1", 1) EXCEPT !.tool = "pay_again"])

PostsNarrow == m1 :> Narrow

One == c1 :> Spend("run", "e1", 2)
=============================================================================
