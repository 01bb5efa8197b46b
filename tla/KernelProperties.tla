-------------------------- MODULE KernelProperties --------------------------
(* The properties of KernelLedger that the runs check.                     *)
EXTENDS KernelLedger

\* verifyReceiptChain holds of the table: the chain never forks, whatever the
\* replicas' interleaving, lost responses and late inserts (store.ts appendReceipt).
ChainUnforked == ChainOk(log)

\* A usable index is a prefix of the table and the sink's next seq is the one
\* after it: a replica may be stale, never wrong (store.ts write, indexReceipt).
IndexIsPrefix ==
    \A r \in Replica : loaded[r] =>
        /\ Len(index[r]) <= Len(log)
        /\ index[r] = SubSeq(log, 1, Len(index[r]))
        /\ next[r] = Len(index[r]) + 1

\* Do two calls present one authorization?  An effect is one payment or post of
\* an agent; a grant is one policy version (one tool of it under the registry).
SameAuthorization(r, s) ==
    LET q == Request[r.call]  o == Request[s.call]  effects == {"spend", "post"}
    IN  /\ q.agent = o.agent
        /\ q.class \in effects <=> o.class \in effects
        /\ IF q.class \in effects THEN q.effect = o.effect
           ELSE r.policy = s.policy /\ (Enforced => q.tool = o.tool)

\* One authorization lets one call through: the ALLOW rows of the table have
\* distinct authorizations, and a tool started or a client told ALLOW has its own row there
\* (gate.ts: N presentations yield one ALLOW; no row, no run).
OneAllowPerAuthorization ==
    /\ \A i, j \in DOMAIN log :
          /\ Consuming(log[i]) /\ Consuming(log[j])
          /\ SameAuthorization(log[i], log[j])
          => i = j
    /\ \A c \in granted : \E i \in DOMAIN log : Consuming(log[i]) /\ log[i].call = c

\* The policies the table holds for one agent have increasing nonces: a replayed
\* older policy is never recorded after its successor (store.ts appendPolicy, RT-3).
NoncesIncrease ==
    \A i, j \in DOMAIN log :
        /\ i < j
        /\ log[i].kind = "policy" /\ log[j].kind = "policy"
        /\ log[i].policy.subject = log[j].policy.subject
        => log[i].policy.nonce < log[j].policy.nonce

\* A row saying a call executed is there only for a call that was let through,
\* after its decision row, and only once (receipt.ts invariant 7).
OutcomesAreEarned ==
    \A j \in Receipts(log) : log[j].executed =>
        /\ log[j].call \in granted
        /\ \E i \in 1..(j - 1) : Consuming(log[i]) /\ log[i].call = log[j].call
        /\ \A i \in Receipts(log) : log[i].executed /\ log[i].call = log[j].call => i = j

-----------------------------------------------------------------------------
(* The promise, as a refinement.                                           *)

ReservationOf(r) ==
    LET q == Request[r.call]
    IN  [call |-> r.call, agent |-> q.agent, key |-> KeyOf(r), spends |-> q.class = "spend",
         amount |-> q.amount, policy |-> r.policy, ts |-> r.ts]

Reservations == {ReservationOf(log[i]) : i \in {j \in DOMAIN log : Consuming(log[j])}}

Budget == INSTANCE OneUseBudget WITH
    reserved    <- Reservations,
    Reservation <- {ReservationOf(Decision(c, "ALLOW", p, t, Nil)) :
                        c \in Call, p \in Policy, t \in 0..MaxClock}

\* Every step of the ledger is a reservation within the owner's limits, a grant
\* on a reservation, or invisible (store.ts header, gate.ts header).
ImplementsOneUseBudget == Budget!Spec

-----------------------------------------------------------------------------
\* A call or a post that reached a replica is answered, or dies with its process:
\* no failed load, collision or lost response leaves it, or the calls queued
\* behind it, waiting (store.ts locked, LEDGER_TIMEOUT_MS).
EveryCallAnswered ==
    \A o \in Op : pc[o] \in Waiting ~> pc[o] \in Answered \cup {"dead"}

\* A replica whose insert lost the race for its seq does not stay behind: it
\* drops its index, and what it next decides on holds the row that beat it
\* (store.ts write).
LoserRereads ==
    \A r \in Replica :
        wire[r] # Nil /\ ~wire[r].landed /\ wire[r].seq <= Len(log)
            ~> ~loaded[r] \/ Len(index[r]) = Len(log)
=============================================================================
