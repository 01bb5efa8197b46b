---------------------------- MODULE KernelLedger ----------------------------
(***************************************************************************)
(* StoreLedger over the durable table (kernel_ledger), with the gate that  *)
(* uses it, in several API replicas:                                       *)
(*   src/src/kernel/store.ts   the index, the lock, the sink               *)
(*   src/src/kernel/gate.ts    runUnderKernel and reserveDecision          *)
(*   src/src/routes/kernel.ts  POST /policy                                *)
(*                                                                         *)
(* A replica keeps an index in memory and appends under a lock of its own  *)
(* process.  Across replicas the only guard is the table's primary key:    *)
(* an insert carries the sequence number the replica believes is next, and *)
(* a number already taken is refused.  Inserts may be refused, may land    *)
(* with their response lost, and may land after the client gave up.        *)
(***************************************************************************)
EXTENDS KernelRecords

CONSTANTS
    Replica,     \* API processes sharing the table.
    Post,        \* Requests to POST /policy.
    PolicyOf,    \* [Post -> Policy]: the policy each one carries.
    InitialLog,  \* What the table holds at the start.
    MaxClock,    \* Bound on the clock.
    MaxCrashes   \* Bound on process crashes.

Op == Call \cup Post

ASSUME LedgerAssumption ==
    /\ Call \cap Post = {}
    /\ Nil \notin Replica
    /\ Nil \notin Op
    /\ Nil \notin [seq : Nat, rec : Record, landed : BOOLEAN]   \* null is no insert
    /\ PolicyOf \in [Post -> Policy]
    /\ InitialLog = <<>> \/ \E p \in Policy : InitialLog = <<PolicyRecord(p)>>
    /\ MaxClock \in Nat /\ MaxCrashes \in Nat

VARIABLES
    log,       \* The table: the record at position i has seq i.
    late,      \* Inserts whose client gave up but which may still execute.
    loaded,    \* [Replica -> BOOLEAN]: is the index usable (`loading` resolved)?
    index,     \* [Replica -> Seq(Record)]: the records the index was built from.
    next,      \* [Replica -> Nat]: the sink's next seq, 0 for null.
    queue,     \* [Replica -> Seq(Op)]: the lock's queue; its head holds the lock.
    wire,      \* [Replica -> insert or Nil]: the insert the lock holder awaits.
    pc,        \* [Op -> phase]: how far each call or post has come.
    home,      \* [Op -> Replica or Nil]: the replica that serves it.
    asmt,      \* [Call -> assessment or Nil]: what the gate read before the lock.
    granted,   \* History: calls whose tool was started or whose client got ALLOW.
    clock,     \* Seconds, in units of the model.
    crashes    \* Crashes so far.

store  == <<log, late>>
memory == <<loaded, index, next>>
locks  == <<queue, wire>>
gate   == <<pc, home, asmt, granted>>
env    == <<clock, crashes>>
vars   == <<store, memory, locks, gate, env>>

Waiting  == {"assessing", "assessed", "decision", "running", "outcome", "policy"}
Answered == {"blocked", "allowed", "recorded", "unrecorded", "conflict", "unavailable"}
Phase    == {"idle", "dead"} \cup Waiting \cup Answered

Insert == [seq : Nat, rec : Record]

TypeOK ==
    /\ log \in Seq(Record)
    /\ late \subseteq Insert
    /\ loaded \in [Replica -> BOOLEAN]
    /\ index \in [Replica -> Seq(Record)]
    /\ next \in [Replica -> Nat]
    /\ queue \in [Replica -> Seq(Op)]
    /\ wire \in [Replica -> [seq : Nat, rec : Record, landed : BOOLEAN] \cup {Nil}]
    /\ pc \in [Op -> Phase]
    /\ home \in [Op -> Replica \cup {Nil}]
    /\ asmt \in [Call -> [now : Nat, policy : Policy \cup {Nil}, clear : BOOLEAN] \cup {Nil}]
    /\ granted \subseteq Call
    /\ clock \in Nat
    /\ crashes \in Nat

Init ==
    /\ log = InitialLog
    /\ late = {}
    /\ loaded = [r \in Replica |-> FALSE]
    /\ index = [r \in Replica |-> <<>>]
    /\ next = [r \in Replica |-> 0]
    /\ queue = [r \in Replica |-> <<>>]
    /\ wire = [r \in Replica |-> Nil]
    /\ pc = [o \in Op |-> "idle"]
    /\ home = [o \in Op |-> Nil]
    /\ asmt = [c \in Call |-> Nil]
    /\ granted = {}
    /\ clock = 0
    /\ crashes = 0

-----------------------------------------------------------------------------
(* ensureLoaded: every use of the index first builds it if there is none.  *)
(* Appends and loads of one replica never overlap (a load starts only when *)
(* no index is usable, and an insert is issued only over a usable index),  *)
(* so reading the table and installing the index is one step.              *)

CanLoad(r) == loaded[r] \/ ChainOk(log)

View(r) == IF loaded[r] THEN index[r] ELSE log

EnsureLoaded(r) ==
    /\ CanLoad(r)
    /\ loaded' = [loaded EXCEPT ![r] = TRUE]
    /\ index'  = [index EXCEPT ![r] = View(r)]
    /\ next'   = [next EXCEPT ![r] = IF loaded[r] THEN @ ELSE Len(log) + 1]

\* The read failed, or the table does not verify: `loading` is null again and
\* the sink must be read before it is written.
LoadFails(r) ==
    /\ ~loaded[r]
    /\ next' = [next EXCEPT ![r] = 0]
    /\ UNCHANGED <<loaded, index>>

-----------------------------------------------------------------------------
(* The lock: fn runs after everything queued before it, failed or not.     *)

Enqueue(r, o) == queue' = [queue EXCEPT ![r] = Append(@, o)]

\* Mutated: a holder that is done leaves the lock to whoever came last.
ReleaseToLast(r) ==
    queue' = [queue EXCEPT ![r] = IF Len(@) <= 1 THEN <<>> ELSE <<@[Len(@)]>>]

Release(r) == queue' = [queue EXCEPT ![r] = Tail(@)]

Holds(r, o) == queue[r] # <<>> /\ Head(queue[r]) = o /\ wire[r] = Nil

\* The caller goes on; only a call whose tool runs still needs its assessment.
Finish(o, phase) ==
    /\ pc' = [pc EXCEPT ![o] = phase]
    /\ asmt' = [c \in Call |-> IF c = o /\ phase # "running" THEN Nil ELSE asmt[c]]

\* Mutated: a decision row that could not be written does not stop the tool.
FailureRuns(o) ==
    CASE pc[o] = "decision" -> "running"
      [] pc[o] = "outcome"  -> "unrecorded"
      [] pc[o] = "policy"   -> "unavailable"

\* What the caller is told when its append throws.
Failure(o) ==
    CASE pc[o] = "decision" -> "blocked"       \* receipt_write_failed
      [] pc[o] = "outcome"  -> "unrecorded"    \* outcome_unrecorded
      [] pc[o] = "policy"   -> "unavailable"   \* 503 ledger_unavailable

Issue(r, rec) ==
    wire' = [wire EXCEPT ![r] = [seq |-> next'[r], rec |-> rec, landed |-> FALSE]]

-----------------------------------------------------------------------------
(* The gate, before the lock.                                              *)

\* A call reaches replica r, which notes the time first.
Arrive(c, r) ==
    /\ pc[c] = "idle"
    /\ pc' = [pc EXCEPT ![c] = "assessing"]
    /\ home' = [home EXCEPT ![c] = r]
    /\ asmt' = [asmt EXCEPT ![c] = [now |-> clock, policy |-> Nil, clear |-> FALSE]]
    /\ UNCHANGED <<store, memory, locks, granted, env>>

\* assess(), outside the lock: the policy is read from the index, and everything
\* else it gathers either passes or does not.  HAL and the owner's lookup, which
\* it also awaits, touch none of this state.
Assess(c) ==
    LET r == home[c]
    IN  /\ pc[c] = "assessing"
        /\ EnsureLoaded(r)
        /\ \E clear \in BOOLEAN :
              asmt' = [asmt EXCEPT ![c].policy = LatestPolicy(View(r), Request[c].agent),
                                   ![c].clear  = clear]
        /\ pc' = [pc EXCEPT ![c] = "assessed"]
        /\ UNCHANGED <<store, locks, home, granted, env>>

\* The policy store could not be read: policy not_checked, and decide() blocks.
AssessUnread(c) ==
    /\ pc[c] = "assessing"
    /\ LoadFails(home[c])
    /\ pc' = [pc EXCEPT ![c] = "assessed"]
    /\ UNCHANGED <<store, locks, home, asmt, granted, env>>

\* gatherSpent, a second read of the index: a spend under a policy whose
\* signature verified.  The sums are read again under the lock, so only whether
\* they could be read is kept.
ReadsSpent(c) == Request[c].class = "spend" /\ asmt[c].policy # Nil

GatherSpent(c) ==
    \/ ReadsSpent(c) /\ EnsureLoaded(home[c]) /\ UNCHANGED asmt
    \/ ReadsSpent(c) /\ LoadFails(home[c]) /\ asmt' = [asmt EXCEPT ![c].clear = FALSE]
    \/ ~(ReadsSpent(c) /\ asmt[c].clear) /\ UNCHANGED <<memory, asmt>>

\* assess() ends, and appendReceipt of the decision row waits for the lock.
RequestDecision(c) ==
    /\ pc[c] = "assessed"
    /\ GatherSpent(c)
    /\ Enqueue(home[c], c)
    /\ pc' = [pc EXCEPT ![c] = "decision"]
    /\ UNCHANGED <<store, wire, home, granted, env>>

\* The tool returned or threw: append the outcome row.
ToolReturns(c) ==
    /\ pc[c] = "running"
    /\ Enqueue(home[c], c)
    /\ pc' = [pc EXCEPT ![c] = "outcome"]
    /\ UNCHANGED <<store, memory, wire, home, asmt, granted, env>>

\* POST /policy: an expired policy is refused before anything is read.
SubmitPolicy(m, r) ==
    /\ pc[m] = "idle"
    /\ PolicyOf[m].expires > clock
    /\ Enqueue(r, m)
    /\ pc' = [pc EXCEPT ![m] = "policy"]
    /\ home' = [home EXCEPT ![m] = r]
    /\ UNCHANGED <<store, memory, wire, asmt, granted, env>>

-----------------------------------------------------------------------------
(* Under the lock, up to the insert.                                       *)

DecisionRow(c, ix) ==
    LET a == asmt[c]
    IN  Decision(c, Verdict(ix, c, a.policy, a.now, a.clear), a.policy, a.now, Tip(ix))

\* reserveDecision writes nothing unless it allows (NotReserved); any row the
\* ledger's own checks refuse is not written either.
Written(c, ix) ==
    LET row == DecisionRow(c, ix)
    IN  /\ Request[c].mode = "reserve" => row.verdict = "ALLOW"
        /\ Admissible(ix, row)

\* Decide again on the view under the lock, and send the row.
WriteDecision(r, c) ==
    /\ Holds(r, c) /\ pc[c] = "decision"
    /\ EnsureLoaded(r)
    /\ Written(c, View(r))
    /\ Issue(r, DecisionRow(c, View(r)))
    /\ UNCHANGED <<store, queue, gate, env>>

WithholdDecision(r, c) ==
    /\ Holds(r, c) /\ pc[c] = "decision"
    /\ EnsureLoaded(r)
    /\ ~Written(c, View(r))
    /\ Finish(c, "blocked")
    /\ Release(r)
    /\ UNCHANGED <<store, wire, home, granted, env>>

\* The outcome row shares the call's id; it rests on the decision row.
WriteOutcome(r, c) ==
    LET row == Outcome(c, asmt[c].policy, clock, Tip(View(r)))
    IN  /\ Holds(r, c) /\ pc[c] = "outcome"
        /\ EnsureLoaded(r)
        /\ Admissible(View(r), row)
        /\ Issue(r, row)
        /\ UNCHANGED <<store, queue, gate, env>>

\* Mutated: an equal nonce is accepted.
NonceIsNotOld(ix, p) ==
    LET cur == LatestPolicy(ix, p.subject) IN cur = Nil \/ cur.nonce <= p.nonce

NonceIsNew(ix, p) ==
    LET cur == LatestPolicy(ix, p.subject) IN cur = Nil \/ cur.nonce < p.nonce

WritePolicy(r, m) ==
    /\ Holds(r, m) /\ pc[m] = "policy"
    /\ EnsureLoaded(r)
    /\ NonceIsNew(View(r), PolicyOf[m])
    /\ Issue(r, PolicyRecord(PolicyOf[m]))
    /\ UNCHANGED <<store, queue, gate, env>>

\* PolicyNonceError: 409 nonce_not_higher.
RefusePolicy(r, m) ==
    /\ Holds(r, m) /\ pc[m] = "policy"
    /\ EnsureLoaded(r)
    /\ ~NonceIsNew(View(r), PolicyOf[m])
    /\ Finish(m, "conflict")
    /\ Release(r)
    /\ UNCHANGED <<store, wire, home, granted, env>>

\* The lock holder cannot load an index.
LoadFailsUnderLock(r, o) ==
    /\ Holds(r, o)
    /\ LoadFails(r)
    /\ Finish(o, Failure(o))
    /\ Release(r)
    /\ UNCHANGED <<store, wire, home, granted, env>>

-----------------------------------------------------------------------------
(* The table.  An insert executes when its seq is free; since the table has *)
(* no gap and only grows, a free seq is the one after its last row.         *)

\* Mutated: no primary key; an insert always goes after the last row.
ExecutesAnyway(ins) == log' = Append(log, ins.rec)

Executes(ins) ==
    /\ ins.seq = Len(log) + 1
    /\ log' = Append(log, ins.rec)

\* An insert whose seq is taken can only be refused: forget it.
StillPending(inserts) == {i \in inserts : i.seq > Len(log')}

InsertLands(r) ==
    /\ wire[r] # Nil /\ ~wire[r].landed
    /\ Executes(wire[r])
    /\ wire' = [wire EXCEPT ![r].landed = TRUE]
    /\ late' = StillPending(late)
    /\ UNCHANGED <<memory, queue, gate, env>>

LateInsertLands(ins) ==
    /\ ins \in late
    /\ Executes(ins)
    /\ late' = StillPending(late)
    /\ UNCHANGED <<memory, locks, gate, env>>

-----------------------------------------------------------------------------
(* Under the lock, after the insert.                                       *)

\* What the acknowledged row lets its caller do next.
Acknowledged(o) ==
    IF pc[o] = "policy" THEN "recorded"
    ELSE IF pc[o] = "outcome" THEN "recorded"
    ELSE IF wire[home[o]].rec.verdict # "ALLOW" THEN "blocked"
    ELSE IF Request[o].mode = "run" THEN "running" ELSE "allowed"

\* The insert succeeded and said so: index it, and let the caller go on.  On an
\* ALLOW decision the tool starts, or the client is told, in the same step.
Acknowledge(r) ==
    /\ wire[r] # Nil /\ wire[r].landed
    /\ LET o == Head(queue[r])
       IN  /\ index' = [index EXCEPT ![r] = Append(@, wire[r].rec)]
           /\ next' = [next EXCEPT ![r] = @ + 1]
           /\ Finish(o, Acknowledged(o))
           /\ granted' = IF Acknowledged(o) \in {"running", "allowed"}
                         THEN granted \cup {o} ELSE granted
    /\ wire' = [wire EXCEPT ![r] = Nil]
    /\ Release(r)
    /\ UNCHANGED <<store, loaded, home, env>>

\* Mutated: the index is kept and patched up from memory.
WriteFailsPatched(r) ==
    /\ UNCHANGED loaded
    /\ index' = [index EXCEPT ![r] = Append(@, wire[r].rec)]
    /\ next' = [next EXCEPT ![r] = @ + 1]
    /\ Finish(Head(queue[r]), Failure(Head(queue[r])))
    /\ wire' = [wire EXCEPT ![r] = Nil]
    /\ Release(r)
    /\ UNCHANGED <<home, granted, env>>

\* Mutated: the index is kept as it was.
WriteFailsKept(r) ==
    /\ UNCHANGED memory
    /\ Finish(Head(queue[r]), Failure(Head(queue[r])))
    /\ wire' = [wire EXCEPT ![r] = Nil]
    /\ Release(r)
    /\ UNCHANGED <<home, granted, env>>

\* write() failed: drop the index, tell the caller, give up the lock.
WriteFails(r) ==
    /\ loaded' = [loaded EXCEPT ![r] = FALSE]
    /\ index' = [index EXCEPT ![r] = <<>>]
    /\ UNCHANGED next
    /\ Finish(Head(queue[r]), Failure(Head(queue[r])))
    /\ wire' = [wire EXCEPT ![r] = Nil]
    /\ Release(r)
    /\ UNCHANGED <<home, granted, env>>

\* The primary key refused the insert: another writer took the seq.
InsertCollides(r) ==
    /\ wire[r] # Nil /\ ~wire[r].landed
    /\ wire[r].seq <= Len(log)
    /\ WriteFails(r)
    /\ UNCHANGED store

Abandon(ins) ==
    late' = IF ins.landed \/ ins.seq <= Len(log) THEN late
            ELSE late \cup {[seq |-> ins.seq, rec |-> ins.rec]}

\* No response: the store is down, the response was lost, or the 10 s timeout
\* fired.  The insert may have landed, may never land, or may land later.
InsertTimesOut(r) ==
    /\ wire[r] # Nil
    /\ WriteFails(r)
    /\ Abandon(wire[r])
    /\ UNCHANGED log

-----------------------------------------------------------------------------
(* The environment.                                                        *)

\* A process dies and restarts: its memory, its queue and its calls are gone.
Crash(r) ==
    /\ crashes < MaxCrashes
    /\ crashes' = crashes + 1
    /\ loaded' = [loaded EXCEPT ![r] = FALSE]
    /\ index' = [index EXCEPT ![r] = <<>>]
    /\ next' = [next EXCEPT ![r] = 0]
    /\ queue' = [queue EXCEPT ![r] = <<>>]
    /\ wire' = [wire EXCEPT ![r] = Nil]
    /\ IF wire[r] = Nil THEN UNCHANGED late ELSE Abandon(wire[r])
    /\ LET lost == {o \in Op : home[o] = r /\ pc[o] \in Waiting}
       IN  /\ pc' = [o \in Op |-> IF o \in lost THEN "dead" ELSE pc[o]]
           /\ asmt' = [c \in Call |-> IF c \in lost THEN Nil ELSE asmt[c]]
    /\ UNCHANGED <<log, home, granted, clock>>

Tick ==
    /\ clock < MaxClock
    /\ clock' = clock + 1
    /\ UNCHANGED <<store, memory, locks, gate, crashes>>

-----------------------------------------------------------------------------
Gate ==
    \E c \in Call :
        \/ \E r \in Replica : Arrive(c, r)
        \/ Assess(c) \/ AssessUnread(c)
        \/ RequestDecision(c) \/ ToolReturns(c)

Submit == \E m \in Post, r \in Replica : SubmitPolicy(m, r)

Locked(r) ==
    \/ \E c \in Call : WriteDecision(r, c) \/ WithholdDecision(r, c) \/ WriteOutcome(r, c)
    \/ \E m \in Post : WritePolicy(r, m) \/ RefusePolicy(r, m)
    \/ \E o \in Op : LoadFailsUnderLock(r, o)

Answer(r) == Acknowledge(r) \/ InsertCollides(r) \/ InsertTimesOut(r)

Next ==
    \/ Gate
    \/ Submit
    \/ \E r \in Replica : Locked(r) \/ InsertLands(r) \/ Answer(r) \/ Crash(r)
    \/ \E ins \in late : LateInsertLands(ins)
    \/ Tick

Spec == Init /\ [][Next]_vars

-----------------------------------------------------------------------------
(* Fairness.  A process keeps running what it started: an await that is     *)
(* resolved is resumed, and an insert is answered or times out after 10 s.  *)
(* Nothing makes a client send a call, a process crash or a late insert     *)
(* land.  A tool is fair here only in that its promise settles.             *)

Fairness ==
    /\ \A c \in Call : WF_vars(Assess(c) \/ AssessUnread(c) \/ RequestDecision(c) \/ ToolReturns(c))
    /\ \A r \in Replica : WF_vars(Locked(r)) /\ WF_vars(Answer(r))

FairSpec == Spec /\ Fairness
=============================================================================
