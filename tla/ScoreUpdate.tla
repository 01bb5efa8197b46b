----------------------------- MODULE ScoreUpdate -----------------------------
(***************************************************************************)
(* updateRepId (src/src/engine/repid-update.ts) with confirmed-outcome     *)
(* scoring armed: several requests price an event, spend the kernel        *)
(* receipt that confirms it, insert the audit row and move the score, each *)
(* in a database call of its own.  Every await is a step.                  *)
(*                                                                         *)
(* The database is external: claim_confirmed_gain is one transaction       *)
(* (src/migrations/2026-10-14-confirmed-gain-atomic-reservation.sql), and  *)
(* the BEFORE INSERT trigger apply_repid_score_event applies a row's delta *)
(* unless repid_delta_applied is set, clamped, as described in             *)
(* src/src/scoring/score-event-writer.ts and                               *)
(* src/supabase/migrations/20260831180000_bind_contract_v1_atomic.sql:37.  *)
(***************************************************************************)
EXTENDS Integers, Sequences

CONSTANTS
    Agent, Domain,
    Receipt,    \* Receipt ids: numbers, in the order of created_at.
    About,      \* [Receipt -> what the sealed receipt says].
    Slot,       \* Runs of updateRepId.
    Request,    \* What an actor may post, for each slot that serves one.
    Appliers,   \* Who may move the score: see applier.
    Decays,     \* What decay may take off a score.
    Gain,       \* One confirmed right, boosted by need.
    Wrong,      \* One confirmed wrong.
    DayCap, DomainCap,
    Start, Floor, Ceiling,  \* Scores: at first, and the clamp.
    Ttl,        \* REPID_CONFIRMED_RECEIPT_TTL_HOURS, in days.
    LastDay,    \* Bounds the clock.
    MaxFaults,  \* Bounds the failed or lost database calls and the crashes.
    None

Days  == 0 .. LastDay
Whole == "whole day"    \* budget_domain '': the day's own row.

\* The primary key of confirmed_gain_budget.
Key == Agent \X Days \X (Domain \cup {Whole})

Statement ==
    [subject : Agent, content : Nat, status : {"VERIFIED", "FAILED"},
     genuine : BOOLEAN,  \* Sealed and signed by a gate run, settled, not simulated.
     born : Days]

\* receipt None: an event with a price of its own (FIXED_DELTAS).
Input ==
    [agent : Agent, receipt : Receipt \cup {None}, domain : Domain \cup {None}, price : Int]

\* smallGainCapParams refuses to load caps that break any of the last three.
ASSUME ScoreAssumption ==
    /\ Receipt \subseteq Nat \ {0}
    /\ About \in [Receipt -> Statement]
    /\ None \notin Receipt \cup Domain \cup Agent
    /\ Whole \notin Domain
    /\ DOMAIN Request \subseteq Slot
    /\ \A s \in DOMAIN Request : Request[s] \subseteq Input
    /\ Appliers \subseteq {"app", "both", "trigger"}
    /\ Decays \subseteq Nat
    /\ {Gain, Wrong, DayCap, DomainCap, Ttl, LastDay, MaxFaults, Floor, Ceiling, Start} \subseteq Nat
    /\ Start \in Floor .. Ceiling
    /\ Gain > 0 /\ DomainCap > 0
    /\ DomainCap <= DayCap
    /\ DayCap < Wrong

VARIABLES
    applier,  \* "both" is the default; "app" ENGINE_LEDGER_RECONCILE_MODE=enforce;
              \* "trigger" WRITER_DIRECT_APPLY=false.
    score,    \* repid_agents.current_repid
    events,   \* repid_score_events, in the order of the inserts.
    receipts, \* kernel_receipts: not mirrored yet, mirrored, consumed.
    booked,   \* confirmed_gain_budget: [agent, day, domain or Whole] -> spent
    run,      \* [Slot -> where its run is]
    today, faults

db   == <<score, events, receipts, booked>>
env  == <<applier, today>>
vars == <<applier, score, events, receipts, booked, run, today, faults>>

Phase == {"idle", "fetched", "reserving", "claiming", "priced", "written", "done", "threw", "dead"}

\* The run in a slot: its input, the score it read and that score decayed, the
\* delta it decided on, whether it holds inert, whether it spent its receipt
\* and the day it did.
Idle == [pc |-> "idle", input |-> None, before |-> 0, decayed |-> 0, delta |-> 0,
         hold |-> FALSE, spent |-> FALSE, day |-> 0]

\* Mutated: no floor.
ClampCeiling(n) == IF n > Ceiling THEN Ceiling ELSE n

Clamp(n) == IF n < Floor THEN Floor ELSE IF n > Ceiling THEN Ceiling ELSE n
Least(a, b) == IF a < b THEN a ELSE b

Init ==
    /\ applier \in Appliers
    /\ score = [a \in Agent |-> Start]
    /\ events = <<>>
    /\ receipts = [r \in Receipt |-> "absent"]
    /\ booked = [k \in Key |-> 0]
    /\ run = [s \in Slot |-> Idle]
    /\ today = 0
    /\ faults = 0

At(s, pc) == run[s].pc = pc
Goto(s, pc) == run' = [run EXCEPT ![s].pc = pc]

\* A database call that fails, is answered too late or never, and a crash.
Fault == /\ faults < MaxFaults
         /\ faults' = faults + 1

-----------------------------------------------------------------------------
(* Pricing the event *)

\* The agent's row is read once, here; an event without a receipt has a price.
Fetch(s, input) ==
    /\ At(s, "idle")
    /\ \E d \in Decays :
         LET before == score[input.agent] IN
         run' = [run EXCEPT ![s] =
                   [Idle EXCEPT !.pc      = IF input.receipt = None THEN "priced" ELSE "fetched",
                                !.input   = input,
                                !.before  = before,
                                !.decayed = IF before - d < Floor THEN Floor ELSE before - d,
                                !.delta   = input.price]]
    /\ UNCHANGED <<db, env, faults>>

\* Nothing confirms the outcome, or it is not paid: no delta, no decay.
Hold(s) == run' = [run EXCEPT ![s].pc = "priced", ![s].delta = 0, ![s].hold = TRUE]

Confirms(r, agent) ==
    /\ receipts[r] # "absent"
    /\ About[r].subject = agent
    /\ About[r].genuine
    /\ today - About[r].born <= Ttl

\* decideConfirmedOutcome: the server reads the receipt; a consumed one still
\* says right or wrong.  A gain without a domain is capped to nothing.
Confirm(s) ==
    /\ At(s, "fetched")
    /\ LET input == run[s].input
           status == About[input.receipt].status
           confirmed == Confirms(input.receipt, input.agent)
       IN  \/ /\ confirmed /\ status = "FAILED"
              /\ Goto(s, "claiming")
              /\ UNCHANGED faults
           \/ /\ confirmed /\ status = "VERIFIED" /\ input.domain # None
              /\ Goto(s, "reserving")
              /\ UNCHANGED faults
           \/ /\ ~confirmed \/ (status = "VERIFIED" /\ input.domain = None)
              /\ Hold(s)
              /\ UNCHANGED faults
           \/ /\ Fault
              /\ Hold(s)
    /\ UNCHANGED <<db, env>>

-----------------------------------------------------------------------------
(* Spending the receipt *)

\* The unique index over (subject, content) of the receipts spent as a gain.
PaidAlready(r) ==
    \E q \in Receipt \ {r} :
        /\ receipts[q] = "spent"
        /\ About[q].status = "VERIFIED"
        /\ About[q].subject = About[r].subject
        /\ About[q].content = About[r].content

\* Mutated: one receipt is spent once, one piece of work is not.
ClaimableByReceipt(r) == receipts[r] = "fresh"

\* Mutated: no look at consumed_at.
ClaimableUnread(r) == receipts[r] # "absent"

Claimable(r) ==
    /\ receipts[r] = "fresh"
    /\ About[r].status = "VERIFIED" => ~PaidAlready(r)

DayKey(s)    == <<run[s].input.agent, today, Whole>>
DomainKey(s) == <<run[s].input.agent, today, run[s].input.domain>>

\* Mutated: the day's own budget is not looked at.
GrantedByDomain(s) == Least(Gain, DomainCap - booked[DomainKey(s)])

\* What is left for a gain, read under the lock on the agent's day.
Granted(s) ==
    Least(Least(Gain, DomainCap),
          Least(DayCap - booked[DayKey(s)], DomainCap - booked[DomainKey(s)]))

Spend(r) == receipts' = [receipts EXCEPT ![r] = "spent"]
Book(s)  == booked' = [k \in DOMAIN booked |->
                         IF k \in {DayKey(s), DomainKey(s)} THEN booked[k] + Granted(s) ELSE booked[k]]

Spent(s, delta) ==
    run' = [run EXCEPT ![s].pc = "priced", ![s].delta = delta, ![s].spent = TRUE, ![s].day = today]

\* claim_confirmed_gain, one transaction: grant, claim, book, or nothing.  When
\* its answer is lost the run holds, although the receipt may be spent.
Reserve(s) ==
    LET r == run[s].input.receipt
        grants == Granted(s) > 0 /\ Claimable(r)
    IN  /\ At(s, "reserving")
        /\ \/ /\ grants
              /\ Spend(r) /\ Book(s)
              /\ \/ Spent(s, Granted(s)) /\ UNCHANGED faults
                 \/ Fault /\ Hold(s)
           \/ /\ \/ ~grants /\ UNCHANGED faults
                 \/ Fault
              /\ Hold(s)
              /\ UNCHANGED <<receipts, booked>>
        /\ UNCHANGED <<score, events, env>>

\* claimConfirmationReceipt: UPDATE ... WHERE consumed_at IS NULL.
ClaimWrong(s) ==
    LET r == run[s].input.receipt
    IN  /\ At(s, "claiming")
        /\ \/ /\ Claimable(r)
              /\ Spend(r)
              /\ \/ Spent(s, -Wrong) /\ UNCHANGED faults
                 \/ Fault /\ Hold(s)
           \/ /\ \/ ~Claimable(r) /\ UNCHANGED faults
                 \/ Fault
              /\ Hold(s)
              /\ UNCHANGED receipts
        /\ UNCHANGED <<score, events, booked, env>>

-----------------------------------------------------------------------------
(* The audit row, then the score *)

NewRepId(s) == IF run[s].hold THEN run[s].before ELSE Clamp(run[s].decayed + run[s].delta)

\* Mutated: the cutover leaves the application's own write in.
AppAlways(s) == ~run[s].hold

AppApplies(s) == applier # "trigger" /\ ~run[s].hold

\* repid_delta_applied is unset and the delta is not zero.
TriggerApplies(s) == run[s].delta # 0 /\ ~(applier = "app" /\ AppApplies(s))

\* The row as it lands: the trigger stamps what its own update returned.
Row(s) ==
    LET input == run[s].input
        now   == score[input.agent]
    IN  [agent |-> input.agent, receipt |-> input.receipt, domain |-> input.domain,
         delta |-> run[s].delta, spent |-> run[s].spent, day |-> run[s].day,
         before |-> IF TriggerApplies(s) THEN now ELSE run[s].before,
         after  |-> IF TriggerApplies(s) THEN Clamp(now + run[s].delta) ELSE NewRepId(s)]

InsertRow(s) ==
    /\ events' = Append(events, Row(s))
    /\ score' = IF TriggerApplies(s)
                THEN [score EXCEPT ![run[s].input.agent] = Row(s).after]
                ELSE score

\* An insert that fails, or whose answer is lost, throws out of the run.
WriteRow(s) ==
    /\ At(s, "priced")
    /\ \/ /\ InsertRow(s)
          /\ \/ Goto(s, IF AppApplies(s) THEN "written" ELSE "done") /\ UNCHANGED faults
             \/ Fault /\ Goto(s, "threw")
       \/ /\ Fault
          /\ Goto(s, "threw")
          /\ UNCHANGED <<events, score>>
    /\ UNCHANGED <<receipts, booked, env>>

\* An absolute write of what was computed from the score read at the start; its
\* error is not looked at.
Apply(s) ==
    /\ At(s, "written")
    /\ \/ /\ score' = [score EXCEPT ![run[s].input.agent] = NewRepId(s)]
          /\ UNCHANGED faults
       \/ Fault /\ UNCHANGED score
    /\ Goto(s, "done")
    /\ UNCHANGED <<events, receipts, booked, env>>

-----------------------------------------------------------------------------
(* Around the runs *)

\* The kernel mirrors a receipt into kernel_receipts, sooner or later.
Mirror(r) ==
    /\ receipts[r] = "absent"
    /\ About[r].born <= today
    /\ receipts' = [receipts EXCEPT ![r] = "fresh"]
    /\ UNCHANGED <<score, events, booked, run, env, faults>>

NextDay ==
    /\ today < LastDay
    /\ today' = today + 1
    /\ UNCHANGED <<db, applier, run, faults>>

InFlight(s) == run[s].pc \in {"fetched", "reserving", "claiming", "priced", "written"}

Die(s) ==
    /\ InFlight(s)
    /\ Fault
    /\ Goto(s, "dead")
    /\ UNCHANGED <<db, env>>

Advance(s) == Confirm(s) \/ Reserve(s) \/ ClaimWrong(s) \/ WriteRow(s) \/ Apply(s)

\* A slot that a worker drives is used again.
Free(s) ==
    /\ run[s].pc \in {"done", "threw", "dead"}
    /\ run' = [run EXCEPT ![s] = Idle]
    /\ UNCHANGED <<db, env, faults>>

Next ==
    \/ \E s \in Slot : Advance(s) \/ Die(s)
    \/ \E s \in DOMAIN Request : \E input \in Request[s] : Fetch(s, input)
    \/ \E r \in Receipt : Mirror(r)
    \/ NextDay

Spec == Init /\ [][Next]_vars
=============================================================================
