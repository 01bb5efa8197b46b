---------------------------- MODULE KernelRecords ----------------------------
(***************************************************************************)
(* The records of the policy kernel's append-only ledger, and everything   *)
(* that is computed from a list of them: the chain, the authorizations     *)
(* already used, the budget already reserved, the policy in force, and the *)
(* verdict decide() reaches (src/src/kernel/{store,receipt,decide}.ts).    *)
(*                                                                         *)
(* Every operator takes the list of records it reads.  A replica's index   *)
(* in memory and the store's table are both such lists, so the properties  *)
(* can ask the store the question a replica asked its own index.           *)
(*                                                                         *)
(* A hash is modelled by what it identifies: policy_hash is the policy,    *)
(* prev_hash is the identity of the row it names (call and phase).         *)
(***************************************************************************)
EXTENDS Integers, Sequences, FiniteSets, FiniteSetsExt, Functions

CONSTANTS
    Call,       \* Gate calls; a call's id is the receipt_id of its rows.
    Request,    \* [Call -> request]: what each call asks for.
    Policy,     \* The policies owners sign.
    Enforced,   \* Is the capability registry wired (KERNEL_CAPABILITY_REGISTRY_ENABLED)?
    Day,        \* The length of the rolling window of the daily limit.
    Nil         \* null.

ToolClass == {"spend", "post", "other"}   \* `read` and `other` share their keys

\* The policies are records [subject, nonce, perTx, daily, total, expires] and
\* the requests [mode, agent, class, tool, effect, amount].  mode "run" is
\* runUnderKernel, "reserve" is POST /decide under the durable ledger.
ASSUME RecordAssumption ==
    /\ Day \in Nat
    /\ Enforced \in BOOLEAN
    /\ Nil \notin Policy
    /\ \A p \in Policy : {p.nonce, p.perTx, p.daily, p.total, p.expires} \subseteq Nat
    /\ \A c \in Call : /\ Request[c].mode \in {"run", "reserve"}
                       /\ Request[c].class \in ToolClass
                       /\ Request[c].amount \in Nat
                       /\ Request[c].mode = "reserve" => Request[c].class = "spend"

-----------------------------------------------------------------------------
(* Records.                                                                *)

Decision(c, v, p, t, tip) ==
    [kind |-> "receipt", call |-> c, executed |-> FALSE, verdict |-> v,
     policy |-> p, ts |-> t, prev |-> tip]

Outcome(c, p, t, tip) ==
    [kind |-> "receipt", call |-> c, executed |-> TRUE, verdict |-> "ALLOW",
     policy |-> p, ts |-> t, prev |-> tip]

PolicyRecord(p) == [kind |-> "policy", policy |-> p]

Record ==
    [kind : {"receipt"}, call : Call, executed : BOOLEAN,
     verdict : {"ALLOW", "BLOCK"}, policy : Policy \cup {Nil}, ts : Nat,
     prev : (Call \X BOOLEAN) \cup {Nil}]
    \cup [kind : {"policy"}, policy : Policy]

-----------------------------------------------------------------------------
(* The chain.                                                              *)

Receipts(ix) == {i \in DOMAIN ix : ix[i].kind = "receipt"}

\* Mutated: the tip names the receipt id alone, not which of its two rows.
TipWithoutPhase(ix) ==
    IF Receipts(ix) = {} THEN Nil ELSE <<ix[Max(Receipts(ix))].call>>

Tip(ix) ==
    IF Receipts(ix) = {} THEN Nil
    ELSE LET last == ix[Max(Receipts(ix))] IN <<last.call, last.executed>>

\* verifyReceiptChain: each receipt names the receipt before it.
ChainOk(ix) ==
    \A i \in Receipts(ix) : ix[i].prev = Tip(SubSeq(ix, 1, i - 1))

-----------------------------------------------------------------------------
(* The policy in force.                                                    *)

PoliciesOf(ix, subject) ==
    {ix[i].policy : i \in {j \in DOMAIN ix : ix[j].kind = "policy"
                                             /\ ix[j].policy.subject = subject}}

LatestPolicy(ix, subject) ==
    IF PoliciesOf(ix, subject) = {} THEN Nil
    ELSE CHOOSE p \in PoliciesOf(ix, subject) :
            \A o \in PoliciesOf(ix, subject) : o.nonce <= p.nonce

-----------------------------------------------------------------------------
(* The one-use authorization and the budget.                               *)

\* Mutated: the policy hash is part of every key, so the owner's next policy
\* version makes a used effect unused.
KeyPerPolicy(q, p) ==
    IF q.class \in {"spend", "post"}
    THEN <<q.agent, p, q.effect>>
    ELSE <<q.agent, p, IF Enforced THEN q.tool ELSE "unclassified">>

\* An effect (spend, post) is one use per argument digest per agent, whatever
\* the policy; a grant (read, other) is one use per policy version.
AuthorizationKey(q, p) ==
    IF q.class \in {"spend", "post"}
    THEN <<q.agent, q.effect>>
    ELSE <<q.agent, p, IF Enforced THEN q.tool ELSE "unclassified">>

\* The rows that consume an authorization: ALLOW decision rows under a policy.
Consuming(r) ==
    /\ r.kind = "receipt"
    /\ r.verdict = "ALLOW" /\ ~r.executed /\ r.policy # Nil

KeyOf(r) == AuthorizationKey(Request[r.call], r.policy)

\* Mutated: an authorization counts as used only once its outcome is recorded.
ConsumedByOutcome(ix) ==
    {KeyOf(ix[i]) : i \in {j \in Receipts(ix) : ix[j].executed}}

Consumed(ix) == {KeyOf(ix[i]) : i \in {j \in DOMAIN ix : Consuming(ix[j])}}

DecisionIds(ix) ==
    {ix[i].call : i \in {j \in Receipts(ix) : ix[j].verdict = "ALLOW" /\ ~ix[j].executed}}

SpendRows(ix, agent) ==
    {i \in DOMAIN ix : /\ Consuming(ix[i])
                       /\ Request[ix[i].call].class = "spend"
                       /\ Request[ix[i].call].agent = agent}

Sum(ix, rows) == SumFunctionOnSet([i \in rows |-> Request[ix[i].call].amount], rows)

\* Mutated: a spend exactly one day old has left the window.
SpentDailyStrict(ix, agent, since) ==
    Sum(ix, {i \in SpendRows(ix, agent) : ix[i].ts > since})

\* Mutated: the daily limit is kept per policy version, like the total.
SpentDailyPerVersion(ix, agent, since) ==
    Sum(ix, {i \in SpendRows(ix, agent) :
                ix[i].ts >= since /\ ix[i].policy = LatestPolicy(ix, agent)})

SpentDaily(ix, agent, since) ==
    Sum(ix, {i \in SpendRows(ix, agent) : ix[i].ts >= since})

\* Mutated: the total is read off the calls that reported an outcome.
SpentTotalExecuted(ix, agent, p) ==
    Sum(ix, {i \in SpendRows(ix, agent) : ix[i].policy = p /\
                \E j \in Receipts(ix) : ix[j].executed /\ ix[j].call = ix[i].call})

SpentTotal(ix, agent, p) ==
    Sum(ix, {i \in SpendRows(ix, agent) : ix[i].policy = p})

\* Does a spend of call c, dated t, fit under the three limits of p?
Fits(ix, c, p, t) ==
    LET q == Request[c]
    IN  q.class = "spend" =>
            /\ q.amount <= p.perTx
            /\ q.amount + SpentDaily(ix, q.agent, t - Day) <= p.daily
            /\ q.amount + SpentTotal(ix, q.agent, p) <= p.total

\* decide()'s checks of the policy itself (who signed it is in clear, below).
InForce(p, t) == p # Nil /\ t < p.expires

-----------------------------------------------------------------------------
(* decide(), weighed on the records ix.  p is the policy the call read (Nil  *)
(* for absent or unreadable), t the time it read, clear whether every check  *)
(* that reads neither the ledger nor the clock passes: owner, signature,     *)
(* action, payee, HAL, capability, and the spend totals having been read.    *)
(* DENY and NOT_CHECKED both block and are one verdict here.                 *)

Verdict(ix, c, p, t, clear) ==
    IF /\ clear
       /\ InForce(p, t)
       /\ Request[c].class = "spend" => Request[c].amount > 0
       /\ Fits(ix, c, p, t)
       /\ AuthorizationKey(Request[c], p) \notin Consumed(ix)
    THEN "ALLOW" ELSE "BLOCK"

\* What the ledger itself refuses, whoever built the row: a broken link, an
\* outcome without its decision, a used authorization, a spend over its limits.
Admissible(ix, r) ==
    /\ r.prev = Tip(ix)
    /\ r.executed => r.call \in DecisionIds(ix)
    /\ Consuming(r) => /\ KeyOf(r) \notin Consumed(ix)
                       /\ Fits(ix, r.call, r.policy, r.ts)
=============================================================================
