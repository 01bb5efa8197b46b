------------------------- MODULE KernelGrantProofs -------------------------
(***************************************************************************)
(* A tool is started, or a client told ALLOW, only with the call's own     *)
(* ALLOW row on the table, and one authorization has one such row.         *)
(***************************************************************************)
EXTENDS KernelTableProofs

-----------------------------------------------------------------------------
(* The insert under way belongs to the head of its queue.                  *)

\* A replica's insert and its queue head are not disturbed by a step that
\* leaves both, and the head's phase, alone.
LEMMA HeadKeepsInsert ==
    ASSUME WireIsHeads, NEW q \in Replica, wire[q] # Nil, wire'[q].rec = wire[q].rec,
           Head(queue'[q]) = Head(queue[q]), pc'[Head(queue[q])] = pc[Head(queue[q])]
    PROVE  WireIsHead(q)'
  BY DEF WireIsHeads, WireIsHead

\* Heads of two replicas' queues are served by two replicas.
LEMMA HeadTypes ==
    ASSUME TypeInv, NEW q \in Replica, wire[q] # Nil
    PROVE  /\ queue[q] \in Seq(Op) /\ queue[q] # <<>>
           /\ Head(queue[q]) \in Op /\ home[Head(queue[q])] = q
           /\ pc[Head(queue[q])] \in Appending
<1>1. queue[q] \in Seq(Op) /\ queue[q] # <<>>
  BY DEF TypeInv, TypeOK, LockInv
<1>. QED BY <1>1, HeadAwaits

\* A call or post that is not appending changes phase, perhaps joining a queue.
LEMMA MoveKeepsInserts ==
    ASSUME TypeInv, WireIsHeads, NEW o \in Op, pc[o] \notin Appending, UNCHANGED wire,
           \A p \in Op : p # o => pc'[p] = pc[p],
           UNCHANGED queue \/ \E r \in Replica : Enqueue(r, o)
    PROVE  WireIsHeads'
<1>1. ASSUME NEW q \in Replica, wire'[q] # Nil
      PROVE  WireIsHead(q)'
  <2>0. wire'[q] = wire[q] /\ wire[q] # Nil
    BY <1>1
  <2>1. /\ queue[q] \in Seq(Op) /\ queue[q] # <<>> /\ Head(queue[q]) \in Op
        /\ pc[Head(queue[q])] \in Appending
    BY <2>0, HeadTypes
  <2>2. pc'[Head(queue[q])] = pc[Head(queue[q])]
    BY <2>1
  <2>3. Head(queue'[q]) = Head(queue[q])
    <3>1. CASE UNCHANGED queue
      BY <3>1
    <3>2. ASSUME NEW r \in Replica, Enqueue(r, o)
          PROVE  Head(queue'[q]) = Head(queue[q])
      <4>1. queue'[q] = queue[q] \/ queue'[q] = Append(queue[q], o)
        BY <3>2 DEF Enqueue, TypeInv, TypeOK
      <4>. QED BY <2>1, <4>1
    <3>. QED BY <3>1, <3>2
  <2>. QED BY <2>0, <2>2, <2>3, HeadKeepsInsert
<1>. QED BY <1>1 DEF WireIsHeads

\* One replica's step that ends with no insert of its own under way.
LEMMA NilKeepsInserts ==
    ASSUME TypeInv, WireIsHeads, NEW r \in Replica, wire'[r] = Nil,
           \A q \in Replica : q # r => wire'[q] = wire[q] /\ queue'[q] = queue[q],
           \A p \in Op : home[p] # r => pc'[p] = pc[p]
    PROVE  WireIsHeads'
<1>1. ASSUME NEW q \in Replica, wire'[q] # Nil
      PROVE  WireIsHead(q)'
  <2>1. q # r /\ wire'[q] = wire[q] /\ queue'[q] = queue[q] /\ wire[q] # Nil
    BY <1>1
  <2>2. Head(queue[q]) \in Op /\ home[Head(queue[q])] = q
    BY <2>1, HeadTypes
  <2>3. pc'[Head(queue[q])] = pc[Head(queue[q])]
    BY <2>1, <2>2
  <2>. QED BY <2>1, <2>3, HeadKeepsInsert
<1>. QED BY <1>1 DEF WireIsHeads

\* The lock holder sends its own row.
LEMMA IssueKeepsInserts ==
    ASSUME TypeInv, WireIsHeads, NEW r \in Replica, NEW rec, Issue(r, rec), UNCHANGED <<queue, pc>>,
           LET o == Head(queue[r])
           IN  IF pc[o] = "policy" THEN rec.kind = "policy"
               ELSE rec.kind = "receipt" /\ rec.call = o /\ (rec.executed <=> pc[o] = "outcome")
    PROVE  WireIsHeads'
<1>1. /\ wire'[r] = [seq |-> next'[r], rec |-> rec, landed |-> FALSE]
      /\ \A q \in Replica : q # r => wire'[q] = wire[q]
  BY TableTypes DEF Issue
<1>2. WireIsHead(r)'
  BY <1>1 DEF WireIsHead
<1>3. ASSUME NEW q \in Replica, q # r, wire'[q] # Nil
      PROVE  WireIsHead(q)'
  BY <1>1, <1>3, HeadKeepsInsert
<1>. QED BY <1>2, <1>3 DEF WireIsHeads

LEMMA LockedKeepsInserts ==
    ASSUME TypeInv, WireIsHeads, NEW r \in Replica, Locked(r)
    PROVE  WireIsHeads'
<1>1. ASSUME NEW c \in Call, WriteDecision(r, c)
      PROVE  WireIsHeads'
  BY <1>1, IssueKeepsInserts DEF WriteDecision, Holds, DecisionRow, Decision, gate
<1>2. ASSUME NEW c \in Call, WriteOutcome(r, c)
      PROVE  WireIsHeads'
  BY <1>2, IssueKeepsInserts DEF WriteOutcome, Holds, Outcome, gate
<1>3. ASSUME NEW m \in Post, WritePolicy(r, m)
      PROVE  WireIsHeads'
  BY <1>3, IssueKeepsInserts DEF WritePolicy, Holds, PolicyRecord, gate
<1>4. ASSUME NEW o \in Op, NEW phase, Holds(r, o), Finish(o, phase), Release(r), UNCHANGED wire
      PROVE  WireIsHeads'
  <2>1. wire'[r] = Nil /\ queue[r] # <<>> /\ Head(queue[r]) = o
    BY <1>4 DEF Holds
  <2>2. home[o] = r
    BY <2>1, HeadAwaits
  <2>3. \A q \in Replica : q # r => wire'[q] = wire[q] /\ queue'[q] = queue[q]
    BY <1>4 DEF Release, TypeInv, TypeOK
  <2>4. \A p \in Op : home[p] # r => pc'[p] = pc[p]
    BY <1>4, <2>2 DEF Finish, TypeInv, TypeOK
  <2>. QED BY <2>1, <2>3, <2>4, NilKeepsInserts
<1>. QED BY <1>1, <1>2, <1>3, <1>4 DEF Locked, WithholdDecision, RefusePolicy, LoadFailsUnderLock, Op

\* An answer, or a crash, ends the insert.
LEMMA EndKeepsInserts ==
    ASSUME TypeInv, WireIsHeads, NEW r \in Replica, Answer(r) \/ Crash(r)
    PROVE  WireIsHeads'
<1>1. CASE Answer(r)
  <2>1. wire[r] # Nil /\ wire' = [wire EXCEPT ![r] = Nil] /\ Release(r)
    BY <1>1 DEF Answer, Acknowledge, InsertCollides, InsertTimesOut, WriteFails
  <2>2. home[Head(queue[r])] = r
    BY <2>1, HeadTypes
  <2>3. wire'[r] = Nil /\ \A q \in Replica : q # r => wire'[q] = wire[q] /\ queue'[q] = queue[q]
    BY <2>1 DEF Release, TypeInv, TypeOK
  <2>4. \A p \in Op : home[p] # r => pc'[p] = pc[p]
    BY <1>1, <2>2 DEF Answer, Acknowledge, InsertCollides, InsertTimesOut, WriteFails, Finish, TypeInv, TypeOK
  <2>. QED BY <2>3, <2>4, NilKeepsInserts
<1>2. CASE Crash(r)
  <2>1. wire'[r] = Nil /\ \A q \in Replica : q # r => wire'[q] = wire[q] /\ queue'[q] = queue[q]
    BY <1>2 DEF Crash, TypeInv, TypeOK
  <2>2. \A p \in Op : home[p] # r => pc'[p] = pc[p]
    BY <1>2 DEF Crash
  <2>. QED BY <2>1, <2>2, NilKeepsInserts
<1>. QED BY <1>1, <1>2

LEMMA LandsKeepInserts ==
    ASSUME TypeInv, WireIsHeads, NEW r \in Replica, InsertLands(r)
    PROVE  WireIsHeads'
<1>1. ASSUME NEW q \in Replica, wire'[q] # Nil
      PROVE  wire[q] # Nil /\ wire'[q].rec = wire[q].rec
  <2>1. CASE q = r
    <3>1. wire[r] \in [seq : Nat, rec : Record, landed : BOOLEAN]
      BY TableTypes DEF InsertLands
    <3>2. wire'[r] = [wire[r] EXCEPT !.landed = TRUE]
      BY TableTypes DEF InsertLands
    <3>. QED BY <2>1, <3>1, <3>2 DEF InsertLands
  <2>2. CASE q # r
    <3>1. wire'[q] = wire[q]
      BY <2>2, TableTypes DEF InsertLands
    <3>. QED BY <1>1, <3>1
  <2>. QED BY <2>1, <2>2
<1>2. UNCHANGED <<queue, pc>>
  BY DEF InsertLands, gate
<1>3. ASSUME NEW q \in Replica, wire'[q] # Nil
      PROVE  WireIsHead(q)'
  BY <1>1, <1>2, <1>3, HeadKeepsInsert
<1>. QED BY <1>3 DEF WireIsHeads

THEOREM HeadStep == TypeInv /\ WireIsHeads /\ [Next]_vars => WireIsHeads'
<1>. SUFFICES ASSUME TypeInv, WireIsHeads, [Next]_vars PROVE WireIsHeads'
  OBVIOUS
<1>1. ASSUME NEW o \in Op, pc[o] \in {"idle", "assessing", "assessed", "running"},
             \A p \in Op : p # o => pc'[p] = pc[p], UNCHANGED wire,
             UNCHANGED queue \/ \E r \in Replica : Enqueue(r, o)
      PROVE  WireIsHeads'
  BY <1>1, MoveKeepsInserts DEF Appending
<1>2. CASE Gate
  <2>1. PICK c \in Call : \/ \E r \in Replica : Arrive(c, r)
                          \/ Assess(c) \/ AssessUnread(c)
                          \/ RequestDecision(c) \/ ToolReturns(c)
    BY <1>2 DEF Gate
  <2>2. c \in Op /\ pc[c] \in {"idle", "assessing", "assessed", "running"} /\ UNCHANGED wire
    BY <2>1 DEF Arrive, Assess, AssessUnread, RequestDecision, ToolReturns, locks, Op
  <2>3. \A p \in Op : p # c => pc'[p] = pc[p]
    BY <2>1 DEF Arrive, Assess, AssessUnread, RequestDecision, ToolReturns, TypeInv, TypeOK
  <2>4. UNCHANGED queue \/ \E r \in Replica : Enqueue(r, c)
    <3>1. pc[c] \in Waiting => home[c] \in Replica
      BY DEF TypeInv, PhaseInv
    <3>. QED BY <2>1, <3>1 DEF Arrive, Assess, AssessUnread, RequestDecision, ToolReturns, locks, Waiting
  <2>. QED BY <1>1, <2>2, <2>3, <2>4
<1>3. ASSUME NEW m \in Post, NEW r \in Replica, SubmitPolicy(m, r)
      PROVE  WireIsHeads'
  <2>1. m \in Op /\ pc[m] = "idle" /\ Enqueue(r, m) /\ UNCHANGED wire
    BY <1>3 DEF SubmitPolicy, Op
  <2>2. \A p \in Op : p # m => pc'[p] = pc[p]
    BY <1>3 DEF SubmitPolicy, TypeInv, TypeOK
  <2>. QED BY <1>1, <2>1, <2>2
<1>4. CASE UNCHANGED <<locks, pc>>
  BY <1>4 DEF WireIsHeads, WireIsHead, locks
<1>5. ASSUME NEW ins \in late, LateInsertLands(ins)
      PROVE  WireIsHeads'
  BY <1>4, <1>5 DEF LateInsertLands, gate
<1>6. CASE Tick \/ UNCHANGED vars
  BY <1>4, <1>6 DEF Tick, vars, gate
<1>. QED BY <1>2, <1>3, <1>5, <1>6, LockedKeepsInserts, EndKeepsInserts, LandsKeepInserts DEF Next, Submit

-----------------------------------------------------------------------------
(* What a grant rests on.                                                  *)

\* The call an acknowledged ALLOW decision lets through has that row.
LEMMA GrantHasRow ==
    ASSUME TypeInv, TableInv, WireIsHeads, NEW r \in Replica, Acknowledge(r),
           Acknowledged(Head(queue[r])) \in {"running", "allowed"}
    PROVE  \E i \in DOMAIN log : Consuming(log[i]) /\ log[i].call = Head(queue[r])
<1>. DEFINE o == Head(queue[r])
            rec == wire[r].rec
<1>1. /\ o \in Op /\ home[o] = r /\ pc[o] \in Appending
      /\ wire[r] \in [seq : Nat, rec : Record, landed : BOOLEAN] /\ wire[r] # Nil /\ wire[r].landed
  BY HeadTypes, TableTypes DEF Acknowledge
<1>2. pc[o] = "decision" /\ rec.verdict = "ALLOW"
  BY <1>1 DEF Acknowledged, Appending
<1>3. rec.kind = "receipt" /\ rec.call = o /\ ~rec.executed /\ rec \in Record
  BY <1>1, <1>2 DEF WireIsHeads, WireIsHead
<1>4. Sound(index[r], rec) /\ wire[r].seq = Len(index[r]) + 1 /\ wire[r].seq <= Len(log) /\ log[wire[r].seq] = rec
  BY <1>1 DEF TableInv, WireSound
<1>5. Consuming(rec)
  BY <1>2, <1>3, <1>4 DEF Sound, Consuming
<1>6. wire[r].seq \in DOMAIN log
  BY <1>1, <1>4, TableTypes
<1>. QED BY <1>3, <1>4, <1>5, <1>6

\* The table only grows.
LEMMA TableGrows ==
    ASSUME TypeInv, [Next]_vars
    PROVE  DOMAIN log \subseteq DOMAIN log' /\ \A i \in DOMAIN log : log'[i] = log[i]
<1>1. CASE log' = log
  BY <1>1
<1>2. ASSUME NEW ins, Executes(ins)
      PROVE  DOMAIN log \subseteq DOMAIN log' /\ \A i \in DOMAIN log : log'[i] = log[i]
  BY <1>2, TableTypes DEF Executes
<1>3. CASE Gate \/ Submit \/ Tick \/ UNCHANGED vars
  BY <1>1, <1>3 DEF Gate, Submit, Tick, Arrive, Assess, AssessUnread, RequestDecision, ToolReturns,
     SubmitPolicy, vars, store
<1>4. ASSUME NEW r \in Replica, Locked(r) \/ Answer(r) \/ Crash(r)
      PROVE  log' = log
  BY <1>4 DEF Locked, WriteDecision, WithholdDecision, WriteOutcome, WritePolicy, RefusePolicy,
     LoadFailsUnderLock, Answer, Acknowledge, InsertCollides, InsertTimesOut, Crash, store
<1>. QED BY <1>1, <1>2, <1>3, <1>4 DEF Next, InsertLands, LateInsertLands

\* A step lets a call through only in Acknowledge, and starts no tool otherwise.
LEMMA OnlyAcknowledgeGrants ==
    ASSUME TypeInv, [Next]_vars
    PROVE  \/ \E r \in Replica : Acknowledge(r)
           \/ /\ granted' = granted
              /\ \A c \in Call : pc'[c] \in {"running", "outcome"} => pc[c] \in {"running", "outcome"}
<1>. DEFINE Quiet == /\ granted' = granted
                     /\ \A c \in Call : pc'[c] \in {"running", "outcome"} => pc[c] \in {"running", "outcome"}
<1>0. pc \in [Op -> Phase] /\ Call \subseteq Op /\ Post \subseteq Op /\ \A m \in Post : m \notin Call
  BY LedgerAssumption DEF TypeInv, TypeOK, Op
<1>1. CASE Gate
  BY <1>0, <1>1 DEF Gate, Arrive, Assess, AssessUnread, RequestDecision, ToolReturns
<1>2. CASE Submit
  BY <1>0, <1>2 DEF Submit, SubmitPolicy
<1>3. ASSUME NEW r \in Replica, Locked(r)
      PROVE  Quiet
  <2>1. ASSUME NEW c \in Call, WriteDecision(r, c) \/ WriteOutcome(r, c) \/ WithholdDecision(r, c)
        PROVE  Quiet
    BY <1>0, <2>1 DEF WriteDecision, WriteOutcome, WithholdDecision, gate, Finish
  <2>2. ASSUME NEW m \in Post, WritePolicy(r, m) \/ RefusePolicy(r, m)
        PROVE  Quiet
    BY <1>0, <2>2 DEF WritePolicy, RefusePolicy, gate, Finish
  <2>3. ASSUME NEW o \in Op, LoadFailsUnderLock(r, o)
        PROVE  Quiet
    <3>1. pc[o] \in Appending /\ granted' = granted /\ pc' = [pc EXCEPT ![o] = Failure(o)]
      BY <2>3, HeadAwaits DEF LoadFailsUnderLock, Holds, Finish
    <3>2. Failure(o) \notin {"running", "outcome"}
      BY <3>1 DEF Failure, Appending
    <3>. QED BY <1>0, <3>1, <3>2
  <2>. QED BY <1>3, <2>1, <2>2, <2>3 DEF Locked
<1>4. ASSUME NEW r \in Replica, InsertCollides(r) \/ InsertTimesOut(r)
      PROVE  Quiet
  <2>1. wire[r] # Nil /\ granted' = granted /\ pc' = [pc EXCEPT ![Head(queue[r])] = Failure(Head(queue[r]))]
    BY <1>4 DEF InsertCollides, InsertTimesOut, WriteFails, Finish
  <2>2. Failure(Head(queue[r])) \notin {"running", "outcome"}
    BY <2>1, HeadTypes DEF Failure, Appending
  <2>. QED BY <1>0, <2>1, <2>2
<1>5. ASSUME NEW r \in Replica, Crash(r)
      PROVE  Quiet
  BY <1>0, <1>5 DEF Crash
<1>6. CASE Tick \/ UNCHANGED vars
  BY <1>6 DEF Tick, vars, gate
<1>7. CASE (\E r \in Replica : InsertLands(r)) \/ \E ins \in late : LateInsertLands(ins)
  BY <1>7 DEF InsertLands, LateInsertLands, gate
<1>. QED BY <1>1, <1>2, <1>3, <1>4, <1>5, <1>6, <1>7 DEF Next, Answer

THEOREM GrantStep ==
    TypeInv /\ TableInv /\ WireIsHeads /\ GrantsRecorded /\ RunsGranted /\ [Next]_vars
        => GrantsRecorded' /\ RunsGranted'
<1>. SUFFICES ASSUME TypeInv, TableInv, WireIsHeads, GrantsRecorded, RunsGranted, [Next]_vars
              PROVE  GrantsRecorded' /\ RunsGranted'
  OBVIOUS
<1>1. \A i \in DOMAIN log : i \in DOMAIN log' /\ log'[i] = log[i]
  BY TableGrows
<1>2. ASSUME NEW c, \E i \in DOMAIN log : Consuming(log[i]) /\ log[i].call = c
      PROVE  \E i \in DOMAIN log' : Consuming(log'[i]) /\ log'[i].call = c
  BY <1>1, <1>2
<1>3. ASSUME NEW r \in Replica, Acknowledge(r)
      PROVE  GrantsRecorded' /\ RunsGranted'
  <2>. DEFINE o == Head(queue[r])
  <2>1. /\ granted' = IF Acknowledged(o) \in {"running", "allowed"} THEN granted \cup {o} ELSE granted
        /\ pc' = [pc EXCEPT ![o] = Acknowledged(o)]
    BY <1>3 DEF Acknowledge, Finish
  <2>2. Acknowledged(o) # "outcome"
    BY DEF Acknowledged
  <2>3. GrantsRecorded'
    BY <1>2, <1>3, <2>1, GrantHasRow DEF GrantsRecorded
  <2>4. RunsGranted'
    BY <2>1, <2>2 DEF RunsGranted, TypeInv, TypeOK, Op
  <2>. QED BY <2>3, <2>4
<1>4. ASSUME granted' = granted,
             \A c \in Call : pc'[c] \in {"running", "outcome"} => pc[c] \in {"running", "outcome"}
      PROVE  GrantsRecorded' /\ RunsGranted'
  BY <1>2, <1>4 DEF GrantsRecorded, RunsGranted
<1>. QED BY <1>3, <1>4, OnlyAcknowledgeGrants

-----------------------------------------------------------------------------
(* The rows of a call.                                                     *)

\* A call's phase and its place at the head of a replica's insert stand.
LEMMA StandsSettled ==
    ASSUME NEW c \in Call, NEW phase \in RowPhase,
           pc[c] \in After(phase) => pc'[c] \in After(phase),
           pc[c] = phase =>
               /\ pc'[c] = phase
               /\ \A r \in Replica : wire[r] # Nil /\ wire[r].landed /\ Head(queue[r]) = c =>
                     wire'[r] # Nil /\ wire'[r].landed /\ Head(queue'[r]) = c
    PROVE  (Settled(c, phase) => Settled(c, phase)') /\ (Pending(c, phase) => Pending(c, phase)')
  BY DEF Settled, Pending

\* A call or post that has nothing to append moves.
LEMMA MoveSettles ==
    ASSUME TypeInv, NEW c \in Call, NEW phase \in RowPhase,
           NEW o \in Op, pc[o] \in {"idle", "assessing", "assessed", "running"}, UNCHANGED wire,
           pc[o] = "running" => pc'[o] \in {"running", "outcome"},
           \A p \in Op : p # o => pc'[p] = pc[p],
           UNCHANGED queue \/ \E r \in Replica : Enqueue(r, o)
    PROVE  (Settled(c, phase) => Settled(c, phase)') /\ (Pending(c, phase) => Pending(c, phase)')
<1>1. /\ pc[c] \in After(phase) => pc'[c] \in After(phase)
      /\ pc[c] = phase => pc'[c] = phase
  BY DEF After, RowPhase, Op
<1>2. ASSUME NEW r \in Replica, wire[r] # Nil
      PROVE  Head(queue'[r]) = Head(queue[r])
  <2>1. queue[r] \in Seq(Op) /\ queue[r] # <<>>
    BY <1>2, HeadTypes
  <2>2. queue'[r] = queue[r] \/ queue'[r] = Append(queue[r], o)
    BY DEF Enqueue, TypeInv, TypeOK
  <2>. QED BY <2>1, <2>2
<1>. QED BY <1>1, <1>2, StandsSettled

\* A lock holder sends a row, or is done without one: none of its rows has landed.
LEMMA LockedSettles ==
    ASSUME TypeInv, NEW c \in Call, NEW phase \in RowPhase, NEW r \in Replica, Locked(r)
    PROVE  (Settled(c, phase) => Settled(c, phase)') /\ (Pending(c, phase) => Pending(c, phase)')
<1>1. wire[r] = Nil /\ \A q \in Replica : q # r => wire'[q] = wire[q]
  BY DEF Locked, WriteDecision, WithholdDecision, WriteOutcome, WritePolicy, RefusePolicy,
     LoadFailsUnderLock, Holds, Issue, gate, TypeInv, TypeOK
<1>2. CASE UNCHANGED <<queue, pc>>
  BY <1>1, <1>2, StandsSettled
<1>3. ASSUME NEW o \in Op, NEW end, Holds(r, o), Finish(o, end), Release(r),
             o \in Call => end \in After(pc[o])
      PROVE  (Settled(c, phase) => Settled(c, phase)') /\ (Pending(c, phase) => Pending(c, phase)')
  <2>1. queue[r] # <<>> /\ Head(queue[r]) = o
    BY <1>3 DEF Holds
  <2>2. home[o] = r /\ pc[o] \in Appending
    BY <2>1, HeadAwaits
  <2>3. \A q \in Replica : q # r => queue'[q] = queue[q]
    BY <1>3 DEF Release, TypeInv, TypeOK
  <2>4. pc'[o] = end /\ \A p \in Op : p # o => pc'[p] = pc[p]
    BY <1>3 DEF Finish, TypeInv, TypeOK
  <2>5. CASE c = o
    <3>1. pc[c] \in After(phase) => pc'[c] \in After(phase)
      BY <1>3, <2>2, <2>4, <2>5 DEF After, Appending, RowPhase
    <3>2. ~ \E q \in Replica : wire[q] # Nil /\ wire[q].landed /\ Head(queue[q]) = c
      BY <1>1, <2>2, <2>5, HeadTypes
    <3>. QED BY <3>1, <3>2 DEF Settled, Pending
  <2>6. CASE c # o
    BY <1>1, <2>3, <2>4, <2>6, StandsSettled DEF Op
  <2>. QED BY <2>5, <2>6
<1>4. ASSUME NEW d \in Call, WithholdDecision(r, d)
      PROVE  (Settled(c, phase) => Settled(c, phase)') /\ (Pending(c, phase) => Pending(c, phase)')
  BY <1>3, <1>4 DEF WithholdDecision, After, Op
<1>5. ASSUME NEW m \in Post, RefusePolicy(r, m)
      PROVE  (Settled(c, phase) => Settled(c, phase)') /\ (Pending(c, phase) => Pending(c, phase)')
  BY <1>3, <1>5, LedgerAssumption DEF RefusePolicy, Op
<1>6. ASSUME NEW o \in Op, LoadFailsUnderLock(r, o)
      PROVE  (Settled(c, phase) => Settled(c, phase)') /\ (Pending(c, phase) => Pending(c, phase)')
  <2>1. Holds(r, o) /\ Finish(o, Failure(o)) /\ Release(r)
    BY <1>6 DEF LoadFailsUnderLock
  <2>2. pc[o] \in Appending /\ (o \in Call => pc[o] # "policy")
    BY <2>1, HeadAwaits DEF Holds, TypeInv, PhaseInv, Appending, Waiting
  <2>3. o \in Call => Failure(o) \in After(pc[o])
    BY <2>2 DEF Failure, After, Appending
  <2>. QED BY <1>3, <2>1, <2>3
<1>. QED BY <1>2, <1>4, <1>5, <1>6 DEF Locked, WriteDecision, WriteOutcome, WritePolicy, gate

\* An answer settles the row it is about.
LEMMA AnswerSettles ==
    ASSUME TypeInv, NEW c \in Call, NEW phase \in RowPhase, NEW r \in Replica, Answer(r)
    PROVE  /\ Settled(c, phase) => Settled(c, phase)'
           /\ Pending(c, phase) => Settled(c, phase)' \/ Pending(c, phase)'
           /\ c = Head(queue[r]) /\ pc[c] = phase => pc'[c] \in After(phase)
<1>. DEFINE o == Head(queue[r])
<1>1. wire[r] # Nil /\ wire' = [wire EXCEPT ![r] = Nil] /\ Release(r)
  BY DEF Answer, Acknowledge, InsertCollides, InsertTimesOut, WriteFails
<1>2. o \in Op /\ home[o] = r /\ pc[o] \in Appending
  BY <1>1, HeadTypes
<1>3. \A q \in Replica : q # r => wire'[q] = wire[q] /\ queue'[q] = queue[q]
  BY <1>1 DEF Release, TypeInv, TypeOK
<1>4. PICK end \in {Acknowledged(o), Failure(o)} : pc' = [pc EXCEPT ![o] = end]
  BY DEF Answer, Acknowledge, InsertCollides, InsertTimesOut, WriteFails, Finish
<1>5. CASE c = o
  <2>1. pc[c] \in RowPhase
    BY <1>2, <1>5 DEF RowPhase, Appending, TypeInv, PhaseInv, Waiting
  <2>2. end \in After(pc[c])
    BY <1>4, <1>5, <2>1 DEF Acknowledged, Failure, After, RowPhase
  <2>3. pc'[c] = end
    BY <1>2, <1>4, <1>5 DEF TypeInv, TypeOK
  <2>. QED BY <1>5, <2>1, <2>2, <2>3 DEF Settled, Pending, After, RowPhase
<1>6. CASE c # o
  <2>1. pc'[c] = pc[c]
    BY <1>4, <1>6 DEF TypeInv, TypeOK, Op
  <2>2. \A q \in Replica : wire[q] # Nil /\ Head(queue[q]) = c => q # r
    BY <1>6
  <2>. QED BY <1>3, <1>6, <2>1, <2>2, StandsSettled
<1>. QED BY <1>5, <1>6

\* A crash settles the rows of its process.
LEMMA CrashSettles ==
    ASSUME TypeInv, NEW c \in Call, NEW phase \in RowPhase, NEW r \in Replica, Crash(r)
    PROVE  /\ Settled(c, phase) => Settled(c, phase)'
           /\ Pending(c, phase) => Settled(c, phase)' \/ Pending(c, phase)'
           /\ home[c] = r /\ pc[c] = phase => pc'[c] \in After(phase)
<1>1. /\ pc'[c] = IF home[c] = r /\ pc[c] \in Waiting THEN "dead" ELSE pc[c]
      /\ \A q \in Replica : q # r => wire'[q] = wire[q] /\ queue'[q] = queue[q]
  BY DEF Crash, TypeInv, TypeOK, Op
<1>2. pc[c] \in After(phase) => pc'[c] \in After(phase)
  BY <1>1 DEF After, RowPhase
<1>3. home[c] = r /\ pc[c] = phase => pc'[c] \in After(phase)
  BY <1>1 DEF Waiting, After, RowPhase
<1>4. CASE home[c] = r
  BY <1>2, <1>3, <1>4 DEF Settled, Pending
<1>5. CASE home[c] # r
  <2>1. pc'[c] = pc[c]
    BY <1>1, <1>5
  <2>2. \A q \in Replica : wire[q] # Nil /\ Head(queue[q]) = c => q # r
    BY <1>5, HeadTypes
  <2>3. (Settled(c, phase) => Settled(c, phase)') /\ (Pending(c, phase) => Pending(c, phase)')
    BY <1>1, <2>1, <2>2, StandsSettled
  <2>. QED BY <1>3, <2>3
<1>. QED BY <1>4, <1>5

\* An insert that lands stays at the head of its queue.
LEMMA LandsSettles ==
    ASSUME TypeInv, NEW c \in Call, NEW phase \in RowPhase, NEW r \in Replica, InsertLands(r)
    PROVE  /\ (Settled(c, phase) => Settled(c, phase)') /\ (Pending(c, phase) => Pending(c, phase)')
           /\ wire'[r] # Nil /\ wire'[r].landed
<1>1. wire[r] \in [seq : Nat, rec : Record, landed : BOOLEAN]
  BY TableTypes DEF InsertLands
<1>2. wire' = [wire EXCEPT ![r] = [wire[r] EXCEPT !.landed = TRUE]]
  BY TableTypes DEF InsertLands
<1>3. [wire[r] EXCEPT !.landed = TRUE] \in [seq : Nat, rec : Record, landed : BOOLEAN]
      /\ [wire[r] EXCEPT !.landed = TRUE].landed
  BY <1>1
<1>4. /\ wire'[r] \in [seq : Nat, rec : Record, landed : BOOLEAN] /\ wire'[r].landed
      /\ \A q \in Replica : q # r => wire'[q] = wire[q]
  BY <1>2, <1>3, TableTypes
<1>5. wire'[r] # Nil
  BY <1>4, LedgerAssumption
<1>6. UNCHANGED <<queue, pc>>
  BY DEF InsertLands, gate
<1>. QED BY <1>4, <1>5, <1>6, StandsSettled

\* Every step keeps or settles what a call's row is.
LEMMA SettledStep ==
    ASSUME TypeInv, [Next]_vars, NEW c \in Call, NEW phase \in RowPhase
    PROVE  /\ Settled(c, phase) => Settled(c, phase)'
           /\ Pending(c, phase) => Settled(c, phase)' \/ Pending(c, phase)'
<1>1. CASE Gate
  <2>1. PICK d \in Call : \/ \E r \in Replica : Arrive(d, r)
                          \/ Assess(d) \/ AssessUnread(d)
                          \/ RequestDecision(d) \/ ToolReturns(d)
    BY <1>1 DEF Gate
  <2>2. d \in Op /\ pc[d] \in {"idle", "assessing", "assessed", "running"} /\ UNCHANGED wire
    BY <2>1 DEF Arrive, Assess, AssessUnread, RequestDecision, ToolReturns, locks, Op
  <2>3. /\ \A p \in Op : p # d => pc'[p] = pc[p]
        /\ pc[d] = "running" => pc'[d] \in {"running", "outcome"}
    BY <2>1, <2>2 DEF Arrive, Assess, AssessUnread, RequestDecision, ToolReturns, TypeInv, TypeOK
  <2>4. UNCHANGED queue \/ \E r \in Replica : Enqueue(r, d)
    <3>1. pc[d] \in Waiting => home[d] \in Replica
      BY DEF TypeInv, PhaseInv
    <3>. QED BY <2>1, <3>1 DEF Arrive, Assess, AssessUnread, RequestDecision, ToolReturns, locks, Waiting
  <2>. QED BY <2>2, <2>3, <2>4, MoveSettles
<1>2. ASSUME NEW m \in Post, NEW r \in Replica, SubmitPolicy(m, r)
      PROVE  (Settled(c, phase) => Settled(c, phase)') /\ (Pending(c, phase) => Pending(c, phase)')
  <2>1. m \in Op /\ pc[m] = "idle" /\ Enqueue(r, m) /\ UNCHANGED wire
    BY <1>2 DEF SubmitPolicy, Op
  <2>2. \A p \in Op : p # m => pc'[p] = pc[p]
    BY <1>2 DEF SubmitPolicy, TypeInv, TypeOK
  <2>. QED BY <2>1, <2>2, MoveSettles
<1>3. CASE UNCHANGED <<locks, pc>>
  BY <1>3, StandsSettled DEF locks
<1>4. ASSUME NEW ins \in late, LateInsertLands(ins)
      PROVE  UNCHANGED <<locks, pc>>
  BY <1>4 DEF LateInsertLands, gate
<1>5. ASSUME Tick \/ UNCHANGED vars
      PROVE  UNCHANGED <<locks, pc>>
  BY <1>5 DEF Tick, vars, gate
<1>. QED BY <1>1, <1>2, <1>3, <1>4, <1>5, LockedSettles, AnswerSettles, CrashSettles, LandsSettles
     DEF Next, Submit

\* A row on the wire that has not landed is not in the table, and not late.
LEMMA UnlandedIsNew ==
    ASSUME IInv, NEW r \in Replica, wire[r] # Nil, ~wire[r].landed,
           NEW c \in Call, NEW phase \in RowPhase, IsRow(wire[r].rec, c, phase)
    PROVE  /\ pc[c] = phase /\ Head(queue[r]) = c /\ home[c] = r
           /\ \A j \in DOMAIN log : ~IsRow(log[j], c, phase)
           /\ \A ins \in late : ~IsRow(ins.rec, c, phase)
<1>1. /\ Head(queue[r]) \in Op /\ home[Head(queue[r])] = r /\ pc[Head(queue[r])] \in Appending
      /\ WireIsHead(r)
  BY HeadTypes DEF IInv, WireIsHeads
<1>2. wire[r].rec.kind = "receipt" /\ wire[r].rec.call = c /\ (wire[r].rec.executed <=> phase = "outcome")
  BY DEF IsRow
<1>3. Head(queue[r]) = c /\ home[c] = r
  BY <1>1, <1>2 DEF WireIsHead
<1>4. pc[c] = phase
  BY <1>1, <1>2, <1>3 DEF WireIsHead, Appending, RowPhase, IInv, TypeInv, PhaseInv, Waiting
<1>5. ~Settled(c, phase)
  BY <1>4 DEF Settled, After, RowPhase
<1>6. ~Pending(c, phase)
  BY <1>3, HeadTypes DEF Pending, IInv
<1>. QED BY <1>3, <1>4, <1>5, <1>6 DEF IInv, RowsOnce

\* Steps that leave the table as it is, and may leave one more insert late.
LEMMA LateKeepsRows ==
    ASSUME IInv, [Next]_vars, log' = log,
           \/ late' = late
           \/ \E r \in Replica :
                 /\ wire[r] # Nil /\ Abandon(wire[r])
                 /\ \A c \in Call, phase \in RowPhase :
                       Head(queue[r]) = c /\ home[c] = r /\ pc[c] = phase => pc'[c] \in After(phase)
    PROVE  RowsOnce'
<1>1. \A c \in Call, phase \in RowPhase :
         /\ Settled(c, phase) => Settled(c, phase)'
         /\ Pending(c, phase) => Settled(c, phase)' \/ Pending(c, phase)'
  BY SettledStep DEF IInv
<1>2. ASSUME NEW ins \in late', NEW c \in Call, NEW phase \in RowPhase, IsRow(ins.rec, c, phase)
      PROVE  Settled(c, phase)' /\ \A j \in DOMAIN log : ~IsRow(log[j], c, phase)
  <2>1. CASE ins \in late
    BY <1>1, <1>2, <2>1 DEF IInv, RowsOnce
  <2>2. CASE ins \notin late
    <3>1. PICK r \in Replica :
             /\ wire[r] # Nil /\ Abandon(wire[r])
             /\ \A d \in Call, p \in RowPhase :
                   Head(queue[r]) = d /\ home[d] = r /\ pc[d] = p => pc'[d] \in After(p)
      BY <2>2
    <3>2. ~wire[r].landed /\ ins.rec = wire[r].rec
      BY <2>2, <3>1 DEF Abandon
    <3>3. pc[c] = phase /\ Head(queue[r]) = c /\ home[c] = r
          /\ \A j \in DOMAIN log : ~IsRow(log[j], c, phase)
      BY <1>2, <3>1, <3>2, UnlandedIsNew
    <3>. QED BY <3>1, <3>3 DEF Settled
  <2>. QED BY <2>1, <2>2
<1>. QED BY <1>1, <1>2 DEF IInv, RowsOnce

\* A row lands that has none like it.
LEMMA RowKeepsRows ==
    ASSUME IInv, [Next]_vars, NEW rec, log' = Append(log, rec), late' = {},
           \A c \in Call, phase \in RowPhase : IsRow(rec, c, phase) =>
               /\ Settled(c, phase)' \/ Pending(c, phase)'
               /\ \A j \in DOMAIN log : ~IsRow(log[j], c, phase)
    PROVE  RowsOnce'
<1>1. \A c \in Call, phase \in RowPhase :
         /\ Settled(c, phase) => Settled(c, phase)'
         /\ Pending(c, phase) => Settled(c, phase)' \/ Pending(c, phase)'
  BY SettledStep DEF IInv
<1>2. /\ DOMAIN log' = 1 .. (Len(log) + 1) /\ DOMAIN log = 1 .. Len(log) /\ Len(log) \in Nat
      /\ \A j \in DOMAIN log : log'[j] = log[j]
      /\ log'[Len(log) + 1] = rec
  BY TableTypes DEF IInv
<1>3. \A j \in DOMAIN log' : j \in DOMAIN log \/ j = Len(log) + 1
  BY <1>2
<1>4. \A c \in Call, phase \in RowPhase : \A j \in DOMAIN log' :
         IsRow(log'[j], c, phase) => Settled(c, phase)' \/ Pending(c, phase)'
  BY <1>1, <1>2, <1>3 DEF IInv, RowsOnce
<1>5. \A c \in Call, phase \in RowPhase : \A i, j \in DOMAIN log' :
         IsRow(log'[i], c, phase) /\ IsRow(log'[j], c, phase) => i = j
  BY <1>2, <1>3 DEF IInv, RowsOnce
<1>. QED BY <1>4, <1>5 DEF RowsOnce

THEOREM RowStep == IInv /\ [Next]_vars => RowsOnce'
<1>. SUFFICES ASSUME IInv, [Next]_vars PROVE RowsOnce'
  OBVIOUS
<1>1. CASE UNCHANGED store
  BY <1>1, LateKeepsRows DEF store
<1>2. ASSUME NEW r \in Replica, InsertTimesOut(r)
      PROVE  RowsOnce'
  <2>1. wire[r] # Nil /\ Abandon(wire[r]) /\ log' = log
    BY <1>2 DEF InsertTimesOut
  <2>2. \A c \in Call, phase \in RowPhase : Head(queue[r]) = c /\ pc[c] = phase => pc'[c] \in After(phase)
    BY <1>2, AnswerSettles DEF Answer, IInv
  <2>. QED BY <2>1, <2>2, LateKeepsRows
<1>3. ASSUME NEW r \in Replica, Crash(r)
      PROVE  RowsOnce'
  <2>1. log' = log /\ (late' = late \/ (wire[r] # Nil /\ Abandon(wire[r])))
    BY <1>3 DEF Crash
  <2>2. \A c \in Call, phase \in RowPhase : home[c] = r /\ pc[c] = phase => pc'[c] \in After(phase)
    BY <1>3, CrashSettles DEF IInv
  <2>. QED BY <2>1, <2>2, LateKeepsRows
<1>4. ASSUME NEW r \in Replica, InsertLands(r)
      PROVE  RowsOnce'
  <2>1. wire[r] # Nil /\ ~wire[r].landed /\ log' = Append(log, wire[r].rec) /\ late' = StillPending(late)
        /\ UNCHANGED <<queue, pc>>
    BY <1>4 DEF InsertLands, Executes, gate
  <2>2. late' = {}
    BY <2>1, TableTypes DEF StillPending, IInv, TableInv, LateSound
  <2>3. ASSUME NEW c \in Call, NEW phase \in RowPhase, IsRow(wire[r].rec, c, phase)
        PROVE  Pending(c, phase)' /\ \A j \in DOMAIN log : ~IsRow(log[j], c, phase)
    <3>1. pc[c] = phase /\ Head(queue[r]) = c
          /\ \A j \in DOMAIN log : ~IsRow(log[j], c, phase)
      BY <2>1, <2>3, UnlandedIsNew
    <3>2. wire'[r] # Nil /\ wire'[r].landed
      BY <1>4, <2>3, LandsSettles DEF IInv
    <3>. QED BY <2>1, <3>1, <3>2 DEF Pending
  <2>. QED BY <2>1, <2>2, <2>3, RowKeepsRows
<1>5. ASSUME NEW ins \in late, LateInsertLands(ins)
      PROVE  RowsOnce'
  <2>1. log' = Append(log, ins.rec) /\ late' = StillPending(late)
    BY <1>5 DEF LateInsertLands, Executes
  <2>2. late' = {}
    BY <2>1, TableTypes DEF StillPending, IInv, TableInv, LateSound
  <2>3. \A c \in Call, phase \in RowPhase : IsRow(ins.rec, c, phase) =>
            Settled(c, phase)' /\ \A j \in DOMAIN log : ~IsRow(log[j], c, phase)
    BY SettledStep DEF IInv, RowsOnce
  <2>. QED BY <2>1, <2>2, <2>3, RowKeepsRows
<1>6. ASSUME NEW r \in Replica, Locked(r) \/ Acknowledge(r) \/ InsertCollides(r)
      PROVE  UNCHANGED store
  BY <1>6 DEF Locked, WriteDecision, WithholdDecision, WriteOutcome, WritePolicy, RefusePolicy,
     LoadFailsUnderLock, Acknowledge, InsertCollides
<1>7. ASSUME Gate \/ Submit \/ Tick \/ UNCHANGED vars
      PROVE  UNCHANGED store
  BY <1>7 DEF Gate, Submit, Tick, Arrive, Assess, AssessUnread, RequestDecision, ToolReturns,
     SubmitPolicy, vars, store
<1>. QED BY <1>1, <1>2, <1>3, <1>4, <1>5, <1>6, <1>7 DEF Next, Answer

-----------------------------------------------------------------------------
(* What the records say of the clock, of their policies and of the grants.  *)

\* The policy a call reads is one of its agent's.
LEMMA LatestIsTheAgents ==
    ASSUME NEW ix \in Seq(Record), NEW agent, LatestPolicy(ix, agent) # Nil
    PROVE  LatestPolicy(ix, agent).subject = agent
<1>1. PoliciesOf(ix, agent) # {}
  BY DEF LatestPolicy
<1>. QED BY <1>1, LatestPolicyIsLatest DEF PoliciesOf

LEMMA TimeAndGrantsGrow ==
    ASSUME TypeInv, AssessmentsGrounded, [Next]_vars
    PROVE  clock' \in Nat /\ clock <= clock' /\ clock' <= MaxClock /\ granted \subseteq granted'
<1>1. granted \subseteq granted'
  BY OnlyAcknowledgeGrants DEF Acknowledge
<1>2. clock' = clock \/ (clock < MaxClock /\ clock' = clock + 1)
  <2>1. ASSUME NEW r \in Replica, Locked(r) \/ Answer(r) \/ Crash(r) \/ InsertLands(r)
        PROVE  clock' = clock
    <3>1. Locked(r) => clock' = clock
      BY DEF Locked, WriteDecision, WithholdDecision, WriteOutcome, WritePolicy, RefusePolicy,
         LoadFailsUnderLock, env
    <3>2. Answer(r) => clock' = clock
      BY DEF Answer, Acknowledge, InsertCollides, InsertTimesOut, WriteFails, env
    <3>3. Crash(r) \/ InsertLands(r) => clock' = clock
      BY DEF Crash, InsertLands, env
    <3>. QED BY <2>1, <3>1, <3>2, <3>3
  <2>2. CASE Gate \/ Submit \/ Tick \/ UNCHANGED vars \/ \E ins \in late : LateInsertLands(ins)
    BY <2>2 DEF Gate, Submit, Tick, Arrive, Assess, AssessUnread, RequestDecision, ToolReturns,
       SubmitPolicy, LateInsertLands, vars, env
  <2>. QED BY <2>1, <2>2 DEF Next
<1>. QED BY <1>1, <1>2, LedgerAssumption DEF AssessmentsGrounded, TypeInv, TypeOK

\* What a record says stays true.
LEMMA GroundedStays ==
    ASSUME TypeInv, AssessmentsGrounded, [Next]_vars, NEW rec \in Record, Grounded(rec)
    PROVE  GroundedIn(rec, clock', granted')
<1>1. rec.kind = "receipt" => rec.ts \in Nat
  BY DEF Record
<1>. QED BY <1>1, TimeAndGrantsGrow DEF Grounded, GroundedIn, TypeInv, TypeOK

\* The rows a lock holder sends.
LEMMA RowsAreGrounded ==
    ASSUME TypeInv, AssessmentsGrounded, RunsGranted, NEW c \in Call, NEW ix
    PROVE  /\ pc[c] = "decision" => Grounded(DecisionRow(c, ix))
           /\ pc[c] = "outcome" => Grounded(Outcome(c, asmt[c].policy, clock, Tip(ix)))
<1>1. pc[c] \in {"decision", "outcome"} =>
         asmt[c].now <= clock /\ (asmt[c].policy # Nil => asmt[c].policy.subject = Request[c].agent)
  BY DEF AssessmentsGrounded, Waiting
<1>2. CASE pc[c] = "decision"
  BY <1>1, <1>2 DEF Grounded, GroundedIn, DecisionRow, Decision
<1>3. CASE pc[c] = "outcome"
  BY <1>1, <1>3 DEF Grounded, GroundedIn, Outcome, RunsGranted, TypeInv, TypeOK
<1>. QED BY <1>2, <1>3

\* An insert under way is one that was, or a row just sent.
LEMMA WireGrounded ==
    ASSUME IInv, [Next]_vars, NEW q \in Replica, wire'[q] # Nil
    PROVE  GroundedIn(wire'[q].rec, clock', granted')
<1>1. \A rec \in Record : Grounded(rec) => GroundedIn(rec, clock', granted')
  BY GroundedStays DEF IInv
<1>2. ASSUME wire[q] # Nil, wire'[q].rec = wire[q].rec
      PROVE  GroundedIn(wire'[q].rec, clock', granted')
  <2>1. wire[q].rec \in Record /\ Grounded(wire[q].rec)
    BY <1>2, TableTypes DEF IInv, RecordsGrounded
  <2>. QED BY <1>1, <1>2, <2>1
<1>3. ASSUME wire'[q] = wire[q]
      PROVE  GroundedIn(wire'[q].rec, clock', granted')
  BY <1>2, <1>3
<1>4. ASSUME NEW r \in Replica, NEW rec \in Record, Grounded(rec), Issue(r, rec)
      PROVE  GroundedIn(wire'[q].rec, clock', granted')
  <2>1. /\ wire'[r] = [seq |-> next'[r], rec |-> rec, landed |-> FALSE]
        /\ q # r => wire'[q] = wire[q]
    BY <1>4, TableTypes DEF Issue, IInv
  <2>2. CASE q = r
    <3>1. wire'[q].rec = rec
      BY <2>1, <2>2
    <3>. QED BY <1>1, <1>4, <3>1
  <2>3. CASE q # r
    BY <1>3, <2>1, <2>3
  <2>. QED BY <2>2, <2>3
<1>5. ASSUME NEW r \in Replica, Locked(r)
      PROVE  GroundedIn(wire'[q].rec, clock', granted')
  <2>1. ASSUME NEW c \in Call, WriteDecision(r, c)
        PROVE  GroundedIn(wire'[q].rec, clock', granted')
    <3>1. View(r) \in Seq(Record) /\ asmt[c] \in Assessment
      BY <2>1, EnsureLoadedType DEF WriteDecision, IInv, TypeInv, PhaseInv, Waiting
    <3>2. DecisionRow(c, View(r)) \in Record
      BY <3>1, DecisionRowType
    <3>3. Grounded(DecisionRow(c, View(r)))
      BY <2>1, RowsAreGrounded DEF WriteDecision, IInv
    <3>. QED BY <1>4, <2>1, <3>2, <3>3 DEF WriteDecision
  <2>2. ASSUME NEW c \in Call, WriteOutcome(r, c)
        PROVE  GroundedIn(wire'[q].rec, clock', granted')
    <3>1. View(r) \in Seq(Record) /\ asmt[c].policy \in Policy \cup {Nil} /\ clock \in Nat
      <4>1. asmt[c] \in Assessment
        BY <2>2 DEF WriteOutcome, IInv, TypeInv, PhaseInv, Waiting
      <4>. QED BY <2>2, <4>1, EnsureLoadedType DEF WriteOutcome, IInv, TypeInv, TypeOK, Assessment
    <3>2. Outcome(c, asmt[c].policy, clock, Tip(View(r))) \in Record
      BY <3>1, OutcomeType
    <3>3. Grounded(Outcome(c, asmt[c].policy, clock, Tip(View(r))))
      BY <2>2, RowsAreGrounded DEF WriteOutcome, IInv
    <3>. QED BY <1>4, <2>2, <3>2, <3>3 DEF WriteOutcome
  <2>3. ASSUME NEW m \in Post, WritePolicy(r, m)
        PROVE  GroundedIn(wire'[q].rec, clock', granted')
    <3>1. PolicyRecord(PolicyOf[m]) \in Record /\ Grounded(PolicyRecord(PolicyOf[m]))
      BY LedgerAssumption DEF PolicyRecord, Record, Grounded, GroundedIn
    <3>. QED BY <1>4, <2>3, <3>1 DEF WritePolicy
  <2>4. CASE UNCHANGED wire
    BY <1>3, <2>4
  <2>. QED BY <1>5, <2>1, <2>2, <2>3, <2>4 DEF Locked, WithholdDecision, RefusePolicy, LoadFailsUnderLock
<1>6. ASSUME NEW r \in Replica, Answer(r) \/ Crash(r)
      PROVE  GroundedIn(wire'[q].rec, clock', granted')
  <2>1. wire' = [wire EXCEPT ![r] = Nil]
    BY <1>6 DEF Answer, Acknowledge, InsertCollides, InsertTimesOut, WriteFails, Crash
  <2>2. wire'[q] = wire[q]
    BY <2>1, TableTypes DEF IInv
  <2>. QED BY <1>3, <2>2
<1>7. ASSUME NEW r \in Replica, InsertLands(r)
      PROVE  GroundedIn(wire'[q].rec, clock', granted')
  <2>1. CASE q = r
    <3>1. wire[r] \in [seq : Nat, rec : Record, landed : BOOLEAN] /\ wire[r] # Nil
      BY <1>7, TableTypes DEF InsertLands, IInv
    <3>2. wire'[r] = [wire[r] EXCEPT !.landed = TRUE]
      BY <1>7, TableTypes DEF InsertLands, IInv
    <3>. QED BY <1>2, <2>1, <3>1, <3>2
  <2>2. CASE q # r
    <3>1. wire'[q] = wire[q]
      BY <1>7, <2>2, TableTypes DEF InsertLands, IInv
    <3>. QED BY <1>3, <3>1
  <2>. QED BY <2>1, <2>2
<1>8. CASE UNCHANGED wire
  BY <1>3, <1>8
<1>9. CASE Gate \/ Submit \/ Tick \/ UNCHANGED vars \/ \E ins \in late : LateInsertLands(ins)
  <2>1. UNCHANGED wire
    BY <1>9 DEF Gate, Submit, Tick, Arrive, Assess, AssessUnread, RequestDecision, ToolReturns,
       SubmitPolicy, LateInsertLands, vars, locks
  <2>. QED BY <1>8, <2>1
<1>. QED BY <1>5, <1>6, <1>7, <1>9 DEF Next

\* Where the rows of the table and the late inserts come from.
LEMMA StoreComesFrom ==
    ASSUME TypeInv, [Next]_vars
    PROVE  /\ \/ log' = log
              \/ \E ins \in late : log' = Append(log, ins.rec)
              \/ \E r \in Replica : wire[r] # Nil /\ log' = Append(log, wire[r].rec)
           /\ \A ins \in late' : \/ ins \in late
                                 \/ \E r \in Replica : wire[r] # Nil /\ ins.rec = wire[r].rec
<1>1. CASE UNCHANGED store
  BY <1>1 DEF store
<1>2. ASSUME NEW r \in Replica, InsertTimesOut(r) \/ Crash(r)
      PROVE  /\ log' = log
             /\ \A ins \in late' : ins \in late \/ (wire[r] # Nil /\ ins.rec = wire[r].rec)
  BY <1>2 DEF InsertTimesOut, Crash, Abandon
<1>3. ASSUME NEW r \in Replica, InsertLands(r)
      PROVE  wire[r] # Nil /\ log' = Append(log, wire[r].rec) /\ late' \subseteq late
  BY <1>3 DEF InsertLands, Executes, StillPending
<1>4. ASSUME NEW ins \in late, LateInsertLands(ins)
      PROVE  log' = Append(log, ins.rec) /\ late' \subseteq late
  BY <1>4 DEF LateInsertLands, Executes, StillPending
<1>5. ASSUME NEW r \in Replica, Locked(r) \/ Acknowledge(r) \/ InsertCollides(r)
      PROVE  UNCHANGED store
  BY <1>5 DEF Locked, WriteDecision, WithholdDecision, WriteOutcome, WritePolicy, RefusePolicy,
     LoadFailsUnderLock, Acknowledge, InsertCollides
<1>6. ASSUME Gate \/ Submit \/ Tick \/ UNCHANGED vars
      PROVE  UNCHANGED store
  BY <1>6 DEF Gate, Submit, Tick, Arrive, Assess, AssessUnread, RequestDecision, ToolReturns,
     SubmitPolicy, vars, store
<1>. QED BY <1>1, <1>2, <1>3, <1>4, <1>5, <1>6 DEF Next, Answer

LEMMA RecordsStayGrounded ==
    ASSUME IInv, [Next]_vars
    PROVE  RecordsGrounded'
<1>1. ASSUME NEW rec \in Record, Grounded(rec)
      PROVE  GroundedIn(rec, clock', granted')
  BY <1>1, GroundedStays DEF IInv
<1>2. /\ \A j \in DOMAIN log : log[j] \in Record /\ Grounded(log[j])
      /\ \A ins \in late : ins.rec \in Record /\ Grounded(ins.rec)
      /\ \A r \in Replica : wire[r] # Nil => wire[r].rec \in Record /\ Grounded(wire[r].rec)
  <2>1. \A j \in DOMAIN log : log[j] \in Record
    BY TableTypes DEF IInv
  <2>2. \A ins \in late : ins.rec \in Record
    BY TableTypes DEF IInv, Insert
  <2>3. \A r \in Replica : wire[r] # Nil => wire[r].rec \in Record
    BY TableTypes DEF IInv
  <2>. QED BY <2>1, <2>2, <2>3 DEF IInv, RecordsGrounded
<1>3. ASSUME NEW j \in DOMAIN log'
      PROVE  GroundedIn(log'[j], clock', granted')
  <2>1. log'[j] \in Record /\ Grounded(log'[j])
    <3>1. CASE log' = log
      BY <1>2, <3>1
    <3>2. ASSUME NEW rec \in Record, Grounded(rec), log' = Append(log, rec)
          PROVE  log'[j] \in Record /\ Grounded(log'[j])
      <4>1. log \in Seq(Record)
        BY TableTypes DEF IInv
      <4>2. log'[j] = rec \/ (j \in DOMAIN log /\ log'[j] = log[j])
        BY <3>2, <4>1
      <4>. QED BY <1>2, <3>2, <4>2
    <3>. QED BY <1>2, <3>1, <3>2, StoreComesFrom DEF IInv
  <2>. QED BY <1>1, <2>1
<1>4. ASSUME NEW ins \in late'
      PROVE  GroundedIn(ins.rec, clock', granted')
  BY <1>1, <1>2, StoreComesFrom DEF IInv
<1>. QED BY <1>3, <1>4, WireGrounded DEF RecordsGrounded, Grounded

\* A caller that is answered keeps its assessment only if its tool runs.
LEMMA FinishKeepsAssessments ==
    ASSUME TypeInv, AssessmentsGrounded, NEW o \in Op, NEW end, Finish(o, end), clock' = clock,
           pc[o] \in Waiting, end \in Waiting => end = "running"
    PROVE  AssessmentsGrounded'
<1>1. ASSUME NEW d \in Call, pc'[d] \in Waiting
      PROVE  pc[d] \in Waiting /\ asmt'[d] = asmt[d]
  BY <1>1 DEF Finish, TypeInv, TypeOK, Op
<1>. QED BY <1>1 DEF AssessmentsGrounded

LEMMA AssessmentsStayGrounded ==
    ASSUME IInv, [Next]_vars
    PROVE  AssessmentsGrounded'
<1>0. TypeInv /\ AssessmentsGrounded /\ clock \in Nat /\ MaxClock \in Nat
  BY LedgerAssumption DEF IInv, TypeInv, TypeOK
<1>1. ASSUME clock' = clock,
             \A d \in Call : pc'[d] \in Waiting => pc[d] \in Waiting /\ asmt'[d] = asmt[d]
      PROVE  AssessmentsGrounded'
  BY <1>0, <1>1 DEF AssessmentsGrounded
<1>2. ASSUME NEW c \in Call, clock' = clock,
             \A d \in Call : d # c => pc'[d] = pc[d] /\ asmt'[d] = asmt[d],
             asmt'[c].now <= clock,
             asmt'[c].policy # Nil => asmt'[c].policy.subject = Request[c].agent
      PROVE  AssessmentsGrounded'
  BY <1>0, <1>2 DEF AssessmentsGrounded
<1>3. ASSUME NEW c \in Call, NEW r \in Replica, Arrive(c, r)
      PROVE  AssessmentsGrounded'
  <2>1. asmt'[c] = [now |-> clock, policy |-> Nil, clear |-> FALSE] /\ clock' = clock
        /\ \A d \in Call : d # c => pc'[d] = pc[d] /\ asmt'[d] = asmt[d]
    BY <1>0, <1>3 DEF Arrive, env, TypeInv, TypeOK, Op
  <2>. QED BY <1>0, <1>2, <2>1
<1>4. ASSUME NEW c \in Call, Assess(c) \/ AssessUnread(c) \/ RequestDecision(c) \/ ToolReturns(c)
      PROVE  AssessmentsGrounded'
  <2>1. /\ pc[c] \in Waiting /\ home[c] \in Replica /\ asmt[c] \in Assessment /\ c \in Op
        /\ asmt[c].now <= clock
        /\ asmt[c].policy # Nil => asmt[c].policy.subject = Request[c].agent
    BY <1>0, <1>4 DEF Assess, AssessUnread, RequestDecision, ToolReturns, Waiting, TypeInv, PhaseInv,
       AssessmentsGrounded, Op
  <2>2. clock' = clock /\ \A d \in Call : d # c => pc'[d] = pc[d] /\ asmt'[d] = asmt[d]
    BY <1>0, <1>4 DEF Assess, AssessUnread, RequestDecision, GatherSpent, ToolReturns, env, TypeInv, TypeOK, Op
  <2>3. asmt'[c] = asmt[c] \/ (Assess(c) \/ RequestDecision(c))
    BY <1>4 DEF AssessUnread, ToolReturns
  <2>4. CASE Assess(c)
    <3>1. View(home[c]) \in Seq(Record)
      BY <1>0, <2>1, <2>4, EnsureLoadedType DEF Assess, TypeInv
    <3>2. PICK clear \in BOOLEAN :
             asmt' = [asmt EXCEPT ![c].policy = LatestPolicy(View(home[c]), Request[c].agent), ![c].clear = clear]
      BY <2>4 DEF Assess
    <3>3. asmt'[c] = [asmt[c] EXCEPT !.policy = LatestPolicy(View(home[c]), Request[c].agent), !.clear = clear]
      BY <1>0, <3>2 DEF TypeInv, TypeOK
    <3>4. asmt'[c].now = asmt[c].now /\ asmt'[c].policy = LatestPolicy(View(home[c]), Request[c].agent)
      BY <2>1, <3>3 DEF Assessment
    <3>. QED BY <1>2, <2>1, <2>2, <3>1, <3>4, LatestIsTheAgents
  <2>5. CASE RequestDecision(c)
    <3>1. asmt'[c] = asmt[c] \/ asmt'[c] = [asmt[c] EXCEPT !.clear = FALSE]
      BY <1>0, <2>5 DEF RequestDecision, GatherSpent, TypeInv, TypeOK
    <3>2. asmt'[c].now = asmt[c].now /\ asmt'[c].policy = asmt[c].policy
      BY <2>1, <3>1 DEF Assessment
    <3>. QED BY <1>2, <2>1, <2>2, <3>2
  <2>6. CASE asmt'[c] = asmt[c]
    BY <1>2, <2>1, <2>2, <2>6
  <2>. QED BY <2>3, <2>4, <2>5, <2>6
<1>5. CASE Gate
  BY <1>3, <1>4, <1>5 DEF Gate
<1>6. CASE Submit
  <2>1. PICK m \in Post : \E r \in Replica : SubmitPolicy(m, r)
    BY <1>6 DEF Submit
  <2>2. clock' = clock /\ asmt' = asmt /\ \A d \in Call : pc'[d] = pc[d]
    BY <1>0, <2>1, LedgerAssumption DEF SubmitPolicy, env, TypeInv, TypeOK, Op
  <2>. QED BY <1>1, <2>2
<1>7. ASSUME NEW r \in Replica, Locked(r)
      PROVE  AssessmentsGrounded'
  <2>1. CASE UNCHANGED <<gate, env>>
    BY <1>1, <2>1 DEF gate, env
  <2>2. ASSUME NEW o \in Op, NEW end, Holds(r, o), Finish(o, end), UNCHANGED env,
               end \notin Waiting
        PROVE  AssessmentsGrounded'
    <3>1. pc[o] \in Waiting
      BY <1>0, <2>2, HeadAwaits DEF Holds, Waiting, Appending
    <3>. QED BY <1>0, <2>2, <3>1, FinishKeepsAssessments DEF env
  <2>3. ASSUME NEW o \in Op, LoadFailsUnderLock(r, o)
        PROVE  AssessmentsGrounded'
    <3>1. pc[o] \in Appending
      BY <1>0, <2>3, HeadAwaits DEF LoadFailsUnderLock, Holds
    <3>2. Failure(o) \notin Waiting
      BY <3>1 DEF Failure, Waiting, Appending
    <3>. QED BY <2>2, <2>3, <3>2 DEF LoadFailsUnderLock
  <2>4. ASSUME NEW c \in Call, WithholdDecision(r, c)
        PROVE  AssessmentsGrounded'
    BY <2>2, <2>4 DEF WithholdDecision, Waiting, Op
  <2>5. ASSUME NEW m \in Post, RefusePolicy(r, m)
        PROVE  AssessmentsGrounded'
    BY <2>2, <2>5 DEF RefusePolicy, Waiting, Op
  <2>. QED BY <1>7, <2>1, <2>3, <2>4, <2>5 DEF Locked, WriteDecision, WriteOutcome, WritePolicy
<1>8. ASSUME NEW r \in Replica, Answer(r)
      PROVE  AssessmentsGrounded'
  <2>. DEFINE o == Head(queue[r])
  <2>1. wire[r] # Nil /\ clock' = clock
    BY <1>8 DEF Answer, Acknowledge, InsertCollides, InsertTimesOut, WriteFails, env
  <2>2. o \in Op /\ pc[o] \in Appending
    BY <1>0, <2>1, HeadTypes
  <2>3. PICK end \in {Acknowledged(o), Failure(o)} : Finish(o, end)
    BY <1>8 DEF Answer, Acknowledge, InsertCollides, InsertTimesOut, WriteFails
  <2>4. end \in Waiting => end = "running"
    BY <2>2, <2>3 DEF Acknowledged, Failure, Appending, Waiting
  <2>. QED BY <1>0, <2>1, <2>2, <2>3, <2>4, FinishKeepsAssessments DEF Appending, Waiting
<1>9. ASSUME NEW r \in Replica, Crash(r)
      PROVE  AssessmentsGrounded'
  <2>1. clock' = clock /\ \A d \in Call : pc'[d] \in Waiting => pc[d] \in Waiting /\ asmt'[d] = asmt[d]
    BY <1>0, <1>9 DEF Crash, Waiting, Op
  <2>. QED BY <1>1, <2>1
<1>10. CASE Tick
  <2>1. clock < MaxClock /\ clock' = clock + 1 /\ pc' = pc /\ asmt' = asmt
    BY <1>10 DEF Tick, gate
  <2>2. ASSUME NEW c \in Call, pc[c] \in Waiting
        PROVE  asmt[c].now <= clock + 1
    <3>1. asmt[c].now \in Nat /\ asmt[c].now <= clock
      BY <1>0, <2>2 DEF TypeInv, PhaseInv, Assessment, AssessmentsGrounded
    <3>. QED BY <1>0, <3>1
  <2>. QED BY <1>0, <2>1, <2>2 DEF AssessmentsGrounded
<1>11. CASE UNCHANGED vars \/ (\E r \in Replica : InsertLands(r)) \/ \E ins \in late : LateInsertLands(ins)
  <2>1. UNCHANGED <<gate, env>>
    BY <1>11 DEF vars, InsertLands, LateInsertLands
  <2>. QED BY <1>1, <2>1 DEF gate, env
<1>. QED BY <1>5, <1>6, <1>7, <1>8, <1>9, <1>10, <1>11 DEF Next

-----------------------------------------------------------------------------
THEOREM InductiveInvariant == Spec => []IInv
<1>1. Init => WireIsHeads /\ GrantsRecorded /\ RunsGranted /\ RowsOnce
  BY LedgerAssumption DEF Init, WireIsHeads, GrantsRecorded, RunsGranted, RowsOnce, IsRow,
     PolicyRecord, Op
<1>2. Init => RecordsGrounded /\ AssessmentsGrounded
  BY LedgerAssumption DEF Init, RecordsGrounded, Grounded, GroundedIn, AssessmentsGrounded, PolicyRecord, Waiting, Op
<1>3. Init => IInv
  BY <1>1, <1>2, InitTyped, InitTable DEF IInv
<1>4. IInv /\ [Next]_vars => IInv'
  <2>1. IInv /\ [Next]_vars => RecordsGrounded' /\ AssessmentsGrounded'
    BY RecordsStayGrounded, AssessmentsStayGrounded
  <2>. QED BY <2>1, TypedStep, TableStep, HeadStep, GrantStep, RowStep DEF IInv
<1>. QED BY <1>3, <1>4, PTL DEF Spec

\* One authorization lets one call through, whatever the interleaving of the
\* replicas, the lost responses, the late inserts and the crashes: no row, no
\* run, and N presentations yield one ALLOW (gate.ts runUnderKernel).
THEOREM AuthorizationsAreOneUse == Spec => []OneAllowPerAuthorization
<1>1. IInv => OneAllowPerAuthorization
  BY AuthorizationsDiffer DEF IInv, GrantsRecorded, OneAllowPerAuthorization
<1>. QED BY <1>1, InductiveInvariant, PTL

\* An outcome row is there only for a call that was let through, after its own
\* ALLOW row, and once - also when its insert lands after the caller has gone
\* (receipt.ts invariant 7, gate.ts runUnderKernel).
THEOREM OutcomesFollowDecisions == Spec => []OutcomesAreEarned
<1>1. ASSUME IInv
      PROVE  OutcomesAreEarned
  <2>. SUFFICES ASSUME NEW j \in Receipts(log), log[j].executed
                PROVE  /\ log[j].call \in granted
                       /\ \E i \in 1..(j - 1) : Consuming(log[i]) /\ log[i].call = log[j].call
                       /\ \A i \in Receipts(log) : log[i].executed /\ log[i].call = log[j].call => i = j
    BY DEF OutcomesAreEarned
  <2>. DEFINE c == log[j].call
              ix == SubSeq(log, 1, j - 1)
  <2>1. j \in DOMAIN log /\ log[j].kind = "receipt"
    BY DEF Receipts
  <2>2. /\ log[j] \in Record /\ j \in 1..Len(log)
        /\ ix \in Seq(Record) /\ Len(ix) = j - 1
        /\ Sound(ix, log[j])
        /\ \A i \in 1..(j - 1) : ix[i] = log[i]
    BY <1>1, <2>1, SoundRow, PrefixProperties, TableTypes DEF IInv
  <2>3. c \in Call /\ IsRow(log[j], c, "outcome")
    BY <2>1, <2>2 DEF Record, IsRow
  <2>4. c \in granted
    BY <1>1, <2>1 DEF IInv, RecordsGrounded, Grounded, GroundedIn
  <2>5. \A i \in Receipts(log) : log[i].executed /\ log[i].call = c => i = j
    BY <1>1, <2>1, <2>3 DEF IInv, RowsOnce, RowPhase, IsRow, Receipts
  <2>6. PICK i \in Receipts(ix) : ix[i].verdict = "ALLOW" /\ ~ix[i].executed /\ ix[i].call = c
    BY <2>1, <2>2 DEF Sound, Admissible, DecisionIds
  <2>7. i \in 1..(j - 1) /\ i \in DOMAIN log /\ log[i] = ix[i] /\ log[i].kind = "receipt"
    BY <2>2, <2>6, TableTypes DEF Receipts
  <2>8. log[i].policy # Nil
    BY <1>1, <2>6, <2>7, SoundRow DEF IInv, Sound
  <2>9. Consuming(log[i]) /\ log[i].call = c
    BY <2>6, <2>7, <2>8 DEF Consuming
  <2>. QED BY <2>4, <2>5, <2>7, <2>9
<1>. QED BY <1>1, InductiveInvariant, PTL

-----------------------------------------------------------------------------
(* The promise.  The limits are read off a table L whose every row was sound *)
(* on the rows before it: the last spend of a set of them was weighed        *)
(* against all the others.                                                   *)

Uses(L)   == {i \in DOMAIN L : Consuming(L[i])}
Spends(L) == {i \in Uses(L) : Request[L[i].call].class = "spend"}

Before(L, j) == SubSeq(L, 1, j - 1)
Reserved(L, rows) == {ReservationOf(L[i]) : i \in rows}

SoundTable(L) ==
    /\ L \in Seq(Record)
    /\ \A j \in DOMAIN L : Sound(Before(L, j), L[j])
    /\ \A j \in Uses(L) : L[j].policy.subject = Request[L[j].call].agent
    /\ \A i, j \in Uses(L) : L[i].call = L[j].call => i = j

LEMMA UseTypes ==
    ASSUME NEW L, SoundTable(L), NEW j \in Uses(L)
    PROVE  /\ j \in 1 .. Len(L) /\ L[j] \in Record /\ L[j].kind = "receipt"
           /\ L[j].call \in Call /\ L[j].policy \in Policy /\ L[j].ts \in Nat
           /\ Request[L[j].call].amount \in Nat
           /\ {L[j].policy.daily, L[j].policy.total} \subseteq Nat
           /\ Before(L, j) \in Seq(Record) /\ DOMAIN Before(L, j) = 1 .. (j - 1)
           /\ \A i \in 1 .. (j - 1) : i \in DOMAIN L /\ Before(L, j)[i] = L[i]
<1>1. /\ L \in Seq(Record) /\ j \in 1 .. Len(L) /\ L[j] \in Record /\ Len(L) \in Nat
      /\ L[j].kind = "receipt" /\ L[j].policy # Nil
  BY DEF SoundTable, Uses, Consuming
<1>2. L[j].call \in Call /\ L[j].policy \in Policy /\ L[j].ts \in Nat
  BY <1>1 DEF Record
<1>3. Request[L[j].call].amount \in Nat /\ {L[j].policy.daily, L[j].policy.total} \subseteq Nat
  BY <1>2, RecordAssumption
<1>4. j - 1 \in 0 .. Len(L)
  BY <1>1
<1>5. /\ Before(L, j) \in Seq(Record) /\ Len(Before(L, j)) = j - 1
      /\ \A i \in 1 .. (j - 1) : Before(L, j)[i] = L[i]
  BY <1>1, <1>4, PrefixProperties DEF Before
<1>6. DOMAIN Before(L, j) = 1 .. (j - 1)
  BY <1>5
<1>. QED BY <1>1, <1>2, <1>3, <1>5, <1>6

LEMMA RowsAreFinite ==
    ASSUME NEW L, SoundTable(L), NEW rows \in SUBSET Uses(L)
    PROVE  /\ IsFiniteSet(rows)
           /\ rows # {} => Max(rows) \in rows /\ \A i \in rows : i <= Max(rows)
<1>1. Len(L) \in Nat /\ rows \in SUBSET (1 .. Len(L))
  BY DEF SoundTable, Uses
<1>2. IsFiniteSet(rows)
  <2>1. IsFiniteSet(1 .. Len(L))
    BY <1>1, FS_Interval
  <2>. QED BY <1>1, <2>1, FS_Subset
<1>3. ASSUME rows # {}
      PROVE  Max(rows) \in rows /\ \A i \in rows : i <= Max(rows)
  BY <1>1, <1>3, MaxOfIndices
<1>. QED BY <1>2, <1>3

\* The amounts of a set of rows are those of their reservations.
LEMMA AmountIsSum ==
    ASSUME NEW L, SoundTable(L), NEW rows \in SUBSET Uses(L)
    PROVE  /\ Budget!Amount(Reserved(L, rows)) = Sum(L, rows)
           /\ Sum(L, rows) \in Nat
<1>. DEFINE f == [i \in rows |-> Request[L[i].call].amount]
            g == [i \in rows |-> ReservationOf(L[i])]
            h == [x \in Reserved(L, rows) |-> x.amount]
<1>1. IsFiniteSet(rows)
  BY RowsAreFinite
<1>2. \A i \in rows : f[i] \in Nat
  BY UseTypes
<1>3. ASSUME NEW i \in rows
      PROVE  g[i].call = L[i].call /\ h[g[i]] = f[i] /\ g[i] \in Reserved(L, rows)
  BY DEF ReservationOf, Reserved
<1>4. ASSUME NEW i \in rows, NEW j \in rows, g[i] = g[j]
      PROVE  i = j
  <2>1. L[i].call = L[j].call
    BY <1>3, <1>4
  <2>. QED BY <2>1 DEF SoundTable
<1>5. {g[i] : i \in rows} = Reserved(L, rows)
  BY DEF Reserved
<1>6. Budget!Amount(Reserved(L, rows)) = SumFunctionOnSet(h, Reserved(L, rows))
  BY DEF Budget!Amount, Budget!SumFunctionOnSet, SumFunctionOnSet, Budget!FoldFunctionOnSet,
     FoldFunctionOnSet, Budget!MapThenFoldSet, MapThenFoldSet
<1>7. Sum(L, rows) = SumFunctionOnSet(f, rows)
  BY DEF Sum
<1>. HIDE DEF f, g, h
<1>8. SumFunctionOnSet(h, {g[i] : i \in rows}) = SumFunctionOnSet(f, rows)
  BY <1>1, <1>2, <1>3, <1>4, SumOfImage
<1>9. SumFunctionOnSet(h, Reserved(L, rows)) = SumFunctionOnSet(f, rows)
  BY <1>5, <1>8, Zenon
<1>10. SumFunctionOnSet(f, rows) \in Nat
  BY <1>1, <1>2, SumOfPart
<1>. QED BY <1>6, <1>7, <1>9, <1>10

\* A set of rows spends no more than its row j and what the table before j held
\* of the others.
LEMMA SpentByLast ==
    ASSUME NEW L, SoundTable(L), NEW rows \in SUBSET Uses(L), NEW j \in rows,
           NEW T \in SUBSET Uses(Before(L, j)), rows \ {j} \subseteq T
    PROVE  /\ Sum(Before(L, j), T) \in Nat
           /\ Sum(L, rows) <= Request[L[j].call].amount + Sum(Before(L, j), T)
<1>. DEFINE ix == Before(L, j)
            f == [i \in rows |-> Request[L[i].call].amount]
            b == [i \in T |-> Request[ix[i].call].amount]
<1>1. j \in Uses(L) /\ DOMAIN ix = 1 .. (j - 1) /\ \A i \in 1 .. (j - 1) : ix[i] = L[i] /\ i \in DOMAIN L
  BY UseTypes
<1>2. T \in SUBSET Uses(L) /\ T \subseteq 1 .. (j - 1)
  BY <1>1 DEF Uses
<1>3. IsFiniteSet(rows) /\ IsFiniteSet(T)
  BY <1>2, RowsAreFinite
<1>4. \A i \in T : ix[i] = L[i] /\ b[i] = Request[L[i].call].amount /\ b[i] \in Nat
  BY <1>1, <1>2, UseTypes
<1>5. \A i \in rows : f[i] \in Nat
  BY UseTypes
<1>6. \A i \in rows \ {j} : f[i] = b[i]
  BY <1>4
<1>7. Sum(L, rows) = SumFunctionOnSet(f, rows) /\ Sum(ix, T) = SumFunctionOnSet(b, T)
  BY DEF Sum
<1>8. f[j] = Request[L[j].call].amount /\ f[j] \in Nat
  BY <1>5
<1>. HIDE DEF f, b, ix
<1>9. SumFunctionOnSet(f, rows) = f[j] + SumFunctionOnSet(f, rows \ {j})
  BY <1>3, <1>5, SumRemove
<1>10. SumFunctionOnSet(f, rows \ {j}) = SumFunctionOnSet(b, rows \ {j})
  BY <1>3, <1>6, FS_Subset, SumSame
<1>11. /\ SumFunctionOnSet(b, rows \ {j}) \in Nat /\ SumFunctionOnSet(b, T) \in Nat
       /\ SumFunctionOnSet(b, rows \ {j}) <= SumFunctionOnSet(b, T)
  BY <1>3, <1>4, SumOfPart
<1>12. Sum(ix, T) \in Nat /\ Sum(L, rows) <= Request[L[j].call].amount + Sum(ix, T)
  BY <1>7, <1>8, <1>9, <1>10, <1>11
<1>. QED BY <1>12 DEF ix

\* Row j was weighed against the limits, on the table before it.
LEMMA LastFits ==
    ASSUME NEW L, SoundTable(L), NEW j \in Spends(L)
    PROVE  /\ KeyOf(L[j]) \notin Consumed(Before(L, j))
           /\ LET q == Request[L[j].call]  p == L[j].policy
              IN  /\ q.amount + SpentDaily(Before(L, j), q.agent, L[j].ts - Day) <= p.daily
                  /\ q.amount + SpentTotal(Before(L, j), q.agent, p) <= p.total
<1>1. j \in DOMAIN L /\ Consuming(L[j]) /\ Request[L[j].call].class = "spend"
  BY DEF Spends, Uses
<1>2. Sound(Before(L, j), L[j]) /\ L[j].kind # "policy"
  BY <1>1 DEF SoundTable, Consuming
<1>3. KeyOf(L[j]) \notin Consumed(Before(L, j)) /\ Fits(Before(L, j), L[j].call, L[j].policy, L[j].ts)
  BY <1>1, <1>2 DEF Sound, Admissible
<1>. QED BY <1>1, <1>3 DEF Fits

LEMMA KeysAreOneUse ==
    ASSUME NEW L, SoundTable(L)
    PROVE  Budget!OneUse(Reserved(L, Uses(L)))
<1>1. ASSUME NEW i \in Uses(L), NEW j \in Uses(L), KeyOf(L[i]) = KeyOf(L[j]), i < j
      PROVE  FALSE
  <2>1. /\ Consuming(L[i]) /\ Consuming(L[j]) /\ L[j].kind # "policy"
        /\ j \in DOMAIN L /\ DOMAIN Before(L, j) = 1 .. (j - 1) /\ i \in 1 .. (j - 1)
        /\ Before(L, j)[i] = L[i]
    BY <1>1, UseTypes DEF Uses, Consuming
  <2>2. KeyOf(L[j]) \notin Consumed(Before(L, j))
    BY <2>1 DEF SoundTable, Sound, Admissible
  <2>. QED BY <1>1, <2>1, <2>2 DEF Consumed
<1>2. ASSUME NEW i \in Uses(L), NEW j \in Uses(L), KeyOf(L[i]) = KeyOf(L[j])
      PROVE  i = j
  <2>1. i \in Nat /\ j \in Nat
    BY UseTypes
  <2>. QED BY <1>1, <1>2, <2>1
<1>3. \A i \in Uses(L) : ReservationOf(L[i]).key = KeyOf(L[i])
  BY DEF ReservationOf
<1>. QED BY <1>2, <1>3 DEF Budget!OneUse, Reserved

LEMMA ReservationFields ==
    ASSUME NEW L, NEW i
    PROVE  LET x == ReservationOf(L[i])  q == Request[L[i].call]
           IN  /\ x.call = L[i].call /\ x.agent = q.agent /\ x.key = KeyOf(L[i])
               /\ x.policy = L[i].policy /\ x.ts = L[i].ts
               /\ x.spends <=> q.class = "spend"
  BY DEF ReservationOf

LEMMA SpendsAreRows ==
    ASSUME NEW L, NEW x \in Reserved(L, Uses(L)), x.spends
    PROVE  \E i \in Spends(L) : x = ReservationOf(L[i])
<1>1. PICK i \in Uses(L) : x = ReservationOf(L[i])
  BY DEF Reserved
<1>. QED BY <1>1, ReservationFields DEF Spends

\* An earlier spend of the same agent is among the spends row j was weighed with.
LEMMA EarlierSpend ==
    ASSUME NEW L, SoundTable(L), NEW i \in Spends(L), NEW j \in Spends(L), i <= j, i # j,
           Request[L[i].call].agent = Request[L[j].call].agent
    PROVE  /\ i \in SpendRows(Before(L, j), Request[L[j].call].agent)
           /\ Before(L, j)[i] = L[i]
<1>1. i \in Uses(L) /\ j \in Uses(L) /\ Consuming(L[i]) /\ Request[L[i].call].class = "spend"
  BY DEF Spends, Uses
<1>2. i \in 1 .. Len(L)
  BY <1>1, UseTypes
<1>3. /\ j \in 1 .. Len(L) /\ DOMAIN Before(L, j) = 1 .. (j - 1)
      /\ \A n \in 1 .. (j - 1) : Before(L, j)[n] = L[n]
  BY <1>1, UseTypes
<1>4. Len(L) \in Nat
  BY DEF SoundTable
<1>5. i \in 1 .. (j - 1)
  BY <1>2, <1>3, <1>4
<1>. QED BY <1>1, <1>3, <1>5 DEF SpendRows

LEMMA TotalsAreWithin ==
    ASSUME NEW L, SoundTable(L)
    PROVE  Budget!WithinTotals(Reserved(L, Uses(L)))
<1>. DEFINE R == Reserved(L, Uses(L))
<1>1. ASSUME NEW k \in Uses(L)
      PROVE  Budget!Amount({x \in R : x.spends /\ x.policy = L[k].policy}) <= L[k].policy.total
  <2>. DEFINE p == L[k].policy
              rows == {i \in Spends(L) : L[i].policy = p}
  <2>1. {x \in R : x.spends /\ x.policy = p} = Reserved(L, rows)
    <3>1. ASSUME NEW x \in R, x.spends, x.policy = p
          PROVE  x \in Reserved(L, rows)
      <4>1. PICK i \in Spends(L) : x = ReservationOf(L[i])
        BY <3>1, SpendsAreRows
      <4>2. i \in rows
        BY <3>1, <4>1, ReservationFields
      <4>. QED BY <4>1, <4>2 DEF Reserved
    <3>2. ASSUME NEW i \in rows
          PROVE  ReservationOf(L[i]) \in {x \in R : x.spends /\ x.policy = p}
      BY ReservationFields DEF Reserved, Spends
    <3>. QED BY <3>1, <3>2 DEF Reserved
  <2>2. rows \in SUBSET Uses(L) /\ rows \in SUBSET Spends(L) /\ \A i \in rows : L[i].policy = p
    BY DEF Spends
  <2>3. p.total \in Nat
    BY UseTypes
  <2>. HIDE DEF p, rows
  <2>4. Budget!Amount(Reserved(L, rows)) = Sum(L, rows) /\ Sum(L, rows) \in Nat
    BY <2>2, AmountIsSum
  <2>5. Sum(L, rows) <= p.total
    <3>1. CASE rows = {}
      <4>1. Sum(L, {}) = 0
        BY SumEmpty DEF Sum
      <4>2. Sum(L, rows) = 0
        BY <3>1, <4>1, Zenon
      <4>. QED BY <2>3, <4>2
    <3>2. CASE rows # {}
      <4>1. PICK j : j = Max(rows)
        OBVIOUS
      <4>2. j \in rows /\ \A i \in rows : i <= j
        BY <2>2, <3>2, <4>1, RowsAreFinite
      <4>3. j \in Spends(L) /\ j \in Uses(L) /\ L[j].policy = p
        BY <2>2, <4>2
      <4>. DEFINE a == Request[L[j].call].agent
                  T == {i \in SpendRows(Before(L, j), a) : Before(L, j)[i].policy = p}
      <4>4. T \in SUBSET Uses(Before(L, j))
        BY DEF SpendRows, Uses
      <4>5. ASSUME NEW i \in rows, i # j
            PROVE  i \in T
        <5>1. i \in Spends(L) /\ i \in Uses(L) /\ L[i].policy = p /\ i <= j
          BY <2>2, <4>2
        <5>2. p.subject = Request[L[i].call].agent /\ p.subject = a
          BY <4>3, <5>1 DEF SoundTable
        <5>3. i \in SpendRows(Before(L, j), a) /\ Before(L, j)[i] = L[i]
          BY <4>3, <4>5, <5>1, <5>2, EarlierSpend
        <5>. QED BY <5>1, <5>3
      <4>6. Request[L[j].call].amount + Sum(Before(L, j), T) <= p.total
        <5>1. Request[L[j].call].amount + SpentTotal(Before(L, j), a, p) <= p.total
          BY <4>3, LastFits
        <5>. QED BY <5>1 DEF SpentTotal
      <4>7. Request[L[j].call].amount \in Nat
        BY <4>3, UseTypes
      <4>8. rows \ {j} \subseteq T
        BY <4>5
      <4>. HIDE DEF T
      <4>9. /\ Sum(Before(L, j), T) \in Nat
            /\ Sum(L, rows) <= Request[L[j].call].amount + Sum(Before(L, j), T)
        BY <2>2, <4>2, <4>4, <4>8, SpentByLast
      <4>. QED BY <2>3, <2>4, <4>6, <4>7, <4>9
    <3>. QED BY <3>1, <3>2
  <2>6. Budget!Amount({x \in R : x.spends /\ x.policy = p}) = Sum(L, rows)
    BY <2>1, <2>4, Zenon
  <2>7. Budget!Amount({x \in R : x.spends /\ x.policy = p}) <= p.total
    BY <2>5, <2>6
  <2>. QED BY <2>7 DEF p
<1>2. ASSUME NEW x \in R
      PROVE  \E k \in Uses(L) : x.policy = L[k].policy
  BY ReservationFields DEF Reserved
<1>. HIDE DEF R
<1>3. ASSUME NEW p \in {x.policy : x \in R}
      PROVE  Budget!Amount({x \in R : x.spends /\ x.policy = p}) <= p.total
  <2>1. PICK k \in Uses(L) : p = L[k].policy
    BY <1>2
  <2>. QED BY <1>1, <2>1
<1>4. Budget!WithinTotals(R)
  BY <1>3 DEF Budget!WithinTotals
<1>. QED BY <1>4 DEF R

\* The spends of one agent in the day from row k on.
Window(L, k) == {i \in Spends(L) : /\ Request[L[i].call].agent = Request[L[k].call].agent
                                   /\ L[k].ts <= L[i].ts /\ L[i].ts <= L[k].ts + Day}

LEMMA WindowFits ==
    ASSUME NEW L, SoundTable(L), NEW k \in Spends(L)
    PROVE  /\ Budget!Amount(Reserved(L, Window(L, k))) = Sum(L, Window(L, k))
           /\ Sum(L, Window(L, k)) <= Budget!Max({y.policy.daily : y \in Reserved(L, Window(L, k))})
<1>. DEFINE rows == Window(L, k)
            w == [i \in rows |-> L[i].policy.daily]
<1>1. Day \in Nat /\ L[k].ts \in Nat /\ k \in rows
  <2>1. L[k].ts \in Nat /\ Day \in Nat
    BY UseTypes, RecordAssumption DEF Spends
  <2>. QED BY <2>1 DEF Window
<1>2. /\ rows \in SUBSET Uses(L) /\ rows \in SUBSET Spends(L)
      /\ \A i \in rows : /\ Request[L[i].call].agent = Request[L[k].call].agent
                         /\ L[k].ts <= L[i].ts /\ L[i].ts <= L[k].ts + Day
  BY DEF Spends, Window
<1>3. \A i \in rows : w[i] \in Nat /\ w[i] = L[i].policy.daily
  BY <1>2, UseTypes
<1>4. w \in [rows -> Nat]
  BY <1>3
<1>. HIDE DEF rows
<1>5. {y.policy.daily : y \in Reserved(L, rows)} = {w[i] : i \in rows}
  <2>1. ASSUME NEW y \in Reserved(L, rows)
        PROVE  y.policy.daily \in {w[i] : i \in rows}
    <3>1. PICK i \in rows : y = ReservationOf(L[i])
      BY DEF Reserved
    <3>2. y.policy.daily = w[i]
      BY <1>3, <3>1, ReservationFields
    <3>. QED BY <3>2
  <2>2. ASSUME NEW i \in rows
        PROVE  \E y \in Reserved(L, rows) : w[i] = y.policy.daily
    <3>1. ReservationOf(L[i]) \in Reserved(L, rows) /\ w[i] = ReservationOf(L[i]).policy.daily
      BY <1>3, ReservationFields DEF Reserved
    <3>. QED BY <3>1
  <2>. HIDE DEF w
  <2>. QED BY <2>1, <2>2
<1>. HIDE DEF w
<1>6. IsFiniteSet(rows) /\ Budget!Amount(Reserved(L, rows)) = Sum(L, rows) /\ Sum(L, rows) \in Nat
  BY <1>2, RowsAreFinite, AmountIsSum
<1>7. PICK j : j = Max(rows)
  OBVIOUS
<1>8. j \in rows /\ \A i \in rows : i <= j
  BY <1>1, <1>2, <1>7, RowsAreFinite
<1>9. j \in Spends(L) /\ j \in Uses(L) /\ L[j].ts \in Nat /\ Request[L[j].call].amount \in Nat
  BY <1>2, <1>8, UseTypes
<1>. DEFINE a == Request[L[j].call].agent
            T == {i \in SpendRows(Before(L, j), a) : Before(L, j)[i].ts >= L[j].ts - Day}
<1>10. T \in SUBSET Uses(Before(L, j))
  BY DEF SpendRows, Uses
<1>11. ASSUME NEW i \in rows, i # j
       PROVE  i \in T
  <2>1. i \in Spends(L) /\ i \in Uses(L) /\ i <= j /\ Request[L[i].call].agent = a
    BY <1>2, <1>8
  <2>2. i \in SpendRows(Before(L, j), a) /\ Before(L, j)[i] = L[i]
    BY <1>9, <1>11, <2>1, EarlierSpend
  <2>3. L[i].ts \in Nat
    BY <2>1, UseTypes
  <2>4. L[k].ts <= L[i].ts /\ L[j].ts <= L[k].ts + Day
    BY <1>2, <1>8
  <2>5. L[i].ts >= L[j].ts - Day
    BY <1>1, <1>9, <2>3, <2>4
  <2>. QED BY <2>2, <2>5
<1>12. Request[L[j].call].amount + Sum(Before(L, j), T) <= L[j].policy.daily
  <2>1. Request[L[j].call].amount + SpentDaily(Before(L, j), a, L[j].ts - Day) <= L[j].policy.daily
    BY <1>9, LastFits
  <2>. QED BY <2>1 DEF SpentDaily
<1>13. rows \ {j} \subseteq T
  BY <1>11
<1>. HIDE DEF T
<1>14. /\ Sum(Before(L, j), T) \in Nat
       /\ Sum(L, rows) <= Request[L[j].call].amount + Sum(Before(L, j), T)
  BY <1>2, <1>8, <1>10, <1>13, SpentByLast
<1>15. Max({w[i] : i \in rows}) \in Nat /\ w[j] <= Max({w[i] : i \in rows})
  BY <1>4, <1>6, <1>8, MaxOfWeights
<1>16. w[j] = L[j].policy.daily /\ w[j] \in Nat
  BY <1>3, <1>8
<1>17. Sum(L, rows) <= Max({w[i] : i \in rows})
  BY <1>6, <1>9, <1>12, <1>14, <1>15, <1>16
<1>18. Budget!Max({y.policy.daily : y \in Reserved(L, rows)}) = Max({w[i] : i \in rows})
  BY <1>5, Zenon DEF Budget!Max, Max
<1>. QED BY <1>6, <1>17, <1>18 DEF rows

LEMMA DaysAreWithin ==
    ASSUME NEW L, SoundTable(L)
    PROVE  Budget!WithinDays(Reserved(L, Uses(L)))
<1>. DEFINE R == Reserved(L, Uses(L))
            Around(x) == {y \in R : /\ y.spends /\ y.agent = x.agent
                                    /\ x.ts <= y.ts /\ y.ts <= x.ts + Day}
<1>1. ASSUME NEW x \in R, x.spends
      PROVE  Budget!Amount(Around(x)) <= Budget!Max({y.policy.daily : y \in Around(x)})
  <2>1. PICK k \in Spends(L) : x = ReservationOf(L[k])
    BY <1>1, SpendsAreRows
  <2>2. x.agent = Request[L[k].call].agent /\ x.ts = L[k].ts
    BY <2>1, ReservationFields
  <2>3. Around(x) = Reserved(L, Window(L, k))
    <3>1. ASSUME NEW y \in Around(x)
          PROVE  y \in Reserved(L, Window(L, k))
      <4>1. PICK i \in Spends(L) : y = ReservationOf(L[i])
        BY SpendsAreRows
      <4>2. i \in Window(L, k)
        BY <2>2, <4>1, ReservationFields DEF Window
      <4>. QED BY <4>1, <4>2 DEF Reserved
    <3>2. ASSUME NEW i \in Window(L, k)
          PROVE  ReservationOf(L[i]) \in Around(x)
      BY <2>2, ReservationFields DEF Window, Reserved, Spends
    <3>. HIDE DEF Around
    <3>. QED BY <3>1, <3>2 DEF Reserved
  <2>. HIDE DEF Around
  <2>. QED BY <2>3, WindowFits
<1>. QED BY <1>1 DEF Budget!WithinDays

LEMMA LimitsHold ==
    ASSUME NEW L, SoundTable(L)
    PROVE  Budget!Promise(Reserved(L, Uses(L)))
  BY KeysAreOneUse, TotalsAreWithin, DaysAreWithin DEF Budget!Promise

\* The table is such a table.
LedgerIsSound == SoundTable(log)

LEMMA TableIsSound == IInv => LedgerIsSound
<1>. SUFFICES ASSUME IInv PROVE SoundTable(log)
  BY DEF LedgerIsSound
<1>1. log \in Seq(Record) /\ \A j \in DOMAIN log : log[j] \in Record
  BY TableTypes DEF IInv
<1>2. \A j \in DOMAIN log : Sound(Before(log, j), log[j])
  BY DEF IInv, TableInv, TableSound, Before
<1>3. \A j \in Uses(log) : log[j].policy.subject = Request[log[j].call].agent
  BY DEF IInv, RecordsGrounded, Grounded, GroundedIn, Uses, Consuming
<1>4. \A j \in Uses(log) : log[j].call \in Call /\ IsRow(log[j], log[j].call, "decision")
  BY <1>1 DEF Uses, Consuming, Record, IsRow
<1>5. \A i, j \in Uses(log) : log[i].call = log[j].call => i = j
  BY <1>4 DEF IInv, RowsOnce, RowPhase, Uses
<1>. QED BY <1>1, <1>2, <1>3, <1>5 DEF SoundTable

LEMMA ReservationsAre ==
    /\ Reservations = Reserved(log, Uses(log))
    /\ Reservations' = Reserved(log', Uses(log'))
  BY DEF Reservations, Reserved, Uses

\* A row that lands reserves, if it consumes an authorization.
LEMMA LandingReserves ==
    ASSUME IInv, SoundTable(log'), NEW rec \in Record, Grounded(rec), log' = Append(log, rec), granted' = granted
    PROVE  [Budget!Next]_(Budget!bvars)
<1>1. log \in Seq(Record) /\ Len(log) \in Nat
  BY TableTypes DEF IInv
<1>2. /\ DOMAIN log' = 1 .. (Len(log) + 1) /\ DOMAIN log = 1 .. Len(log)
      /\ \A j \in DOMAIN log : log'[j] = log[j]
      /\ log'[Len(log) + 1] = rec
  BY <1>1
<1>3. CASE ~Consuming(rec)
  <2>1. Uses(log') = Uses(log) /\ \A i \in Uses(log) : log'[i] = log[i]
    BY <1>2, <1>3 DEF Uses
  <2>2. Reservations' = Reservations
    BY <2>1, ReservationsAre DEF Reserved
  <2>. QED BY <2>2 DEF Budget!bvars
<1>4. CASE Consuming(rec)
  <2>. DEFINE x == ReservationOf(rec)
              n == Len(log) + 1
  <2>1. Uses(log') = Uses(log) \cup {n} /\ n \notin Uses(log) /\ \A i \in Uses(log) : log'[i] = log[i]
    BY <1>1, <1>2, <1>4 DEF Uses
  <2>2. Reservations' = Reservations \cup {x}
    BY <1>2, <2>1, ReservationsAre DEF Reserved
  <2>3. SoundTable(log')
    OBVIOUS
  <2>4. \A y \in Reservations : y.call # x.call
    <3>1. \A i \in Uses(log) : log'[i].call # log'[n].call
      BY <2>1, <2>3 DEF SoundTable
    <3>2. \A i \in Uses(log) : ReservationOf(log[i]).call = log'[i].call
      BY <2>1 DEF ReservationOf
    <3>3. x.call = log'[n].call
      BY <1>2 DEF ReservationOf
    <3>. HIDE DEF x, n
    <3>. SUFFICES ASSUME NEW y \in Reservations PROVE y.call # x.call
      OBVIOUS
    <3>4. PICK i \in Uses(log) : y = ReservationOf(log[i])
      BY ReservationsAre DEF Reserved
    <3>. QED BY <3>1, <3>2, <3>3, <3>4
  <2>5. Budget!Promise(Reservations')
    <3>1. PICK L : L = log'
      OBVIOUS
    <3>2. Budget!Promise(Reserved(L, Uses(L)))
      BY <2>3, <3>1, LimitsHold
    <3>. QED BY <3>1, <3>2, ReservationsAre
  <2>6. \E c \in Call, p \in Policy, t \in 0 .. MaxClock :
            x = ReservationOf(Decision(c, "ALLOW", p, t, Nil))
    <3>1. rec.kind = "receipt" /\ rec.policy # Nil
      BY <1>4 DEF Consuming
    <3>2. rec.call \in Call /\ rec.policy \in Policy /\ rec.ts \in Nat
      BY <3>1 DEF Record
    <3>3. rec.ts <= clock /\ clock <= MaxClock /\ clock \in Nat /\ MaxClock \in Nat
      BY <3>1, LedgerAssumption DEF Grounded, GroundedIn, IInv, AssessmentsGrounded, TypeInv, TypeOK
    <3>4. rec.ts \in 0 .. MaxClock
      BY <3>2, <3>3
    <3>5. x = ReservationOf(Decision(rec.call, "ALLOW", rec.policy, rec.ts, Nil))
      BY DEF ReservationOf, Decision, KeyOf
    <3>. QED BY <3>2, <3>4, <3>5
  <2>7. Budget!Reserve
    BY <2>2, <2>4, <2>5, <2>6 DEF Budget!Reserve
  <2>. QED BY <2>7 DEF Budget!Next
<1>. QED BY <1>3, <1>4

\* A call that is let through has its reservation.
LEMMA AcknowledgeGrants ==
    ASSUME IInv, NEW r \in Replica, Acknowledge(r)
    PROVE  [Budget!Next]_(Budget!bvars)
<1>. DEFINE o == Head(queue[r])
<1>1. log' = log /\ Reservations' = Reservations
  BY ReservationsAre DEF Acknowledge, store
<1>2. CASE granted' = granted
  BY <1>1, <1>2 DEF Budget!bvars
<1>3. CASE granted' # granted
  <2>1. Acknowledged(o) \in {"running", "allowed"} /\ granted' = granted \cup {o} /\ o \notin granted
    BY <1>3 DEF Acknowledge
  <2>2. PICK i \in DOMAIN log : Consuming(log[i]) /\ log[i].call = o
    BY <2>1, GrantHasRow DEF IInv
  <2>3. log[i] \in Record /\ i \in Uses(log)
    BY <2>2, TableTypes DEF IInv, Uses
  <2>4. o \in Call
    BY <2>2, <2>3 DEF Consuming, Record
  <2>5. ReservationOf(log[i]) \in Reservations /\ ReservationOf(log[i]).call = o
    BY <2>2, <2>3, ReservationsAre DEF Reserved, ReservationOf
  <2>6. Budget!Grant(o)
    BY <1>1, <2>1, <2>5 DEF Budget!Grant
  <2>. QED BY <2>4, <2>6 DEF Budget!Next
<1>. QED BY <1>2, <1>3

LEMMA StepKeepsPromise ==
    ASSUME IInv, SoundTable(log'), [Next]_vars
    PROVE  [Budget!Next]_(Budget!bvars)
<1>1. CASE log' = log /\ granted' = granted
  <2>1. Reservations' = Reservations
    BY <1>1, ReservationsAre
  <2>. QED BY <1>1, <2>1 DEF Budget!bvars
<1>2. CASE log' = log
  BY <1>1, <1>2, AcknowledgeGrants, OnlyAcknowledgeGrants DEF IInv
<1>3. CASE log' # log
  <2>1. granted' = granted
    <3>1. ASSUME NEW r \in Replica, Acknowledge(r)
          PROVE  log' = log
      BY <3>1 DEF Acknowledge, store
    <3>. QED BY <1>3, <3>1, OnlyAcknowledgeGrants DEF IInv
  <2>2. PICK rec : rec \in Record /\ Grounded(rec) /\ log' = Append(log, rec)
    <3>1. \A ins \in late : ins.rec \in Record /\ Grounded(ins.rec)
      BY TableTypes DEF IInv, RecordsGrounded, Insert
    <3>2. \A r \in Replica : wire[r] # Nil => wire[r].rec \in Record /\ Grounded(wire[r].rec)
      BY TableTypes DEF IInv, RecordsGrounded
    <3>. QED BY <1>3, <3>1, <3>2, StoreComesFrom DEF IInv
  <2>. QED BY <2>1, <2>2, LandingReserves
<1>. QED BY <1>2, <1>3

\* The replicas, their locks and the table implement the promise of one-use
\* authorizations within a budget: every step is a reservation of an unused
\* authorization within the owner's limits, a grant on a call's reservation, or
\* changes neither (store.ts header, gate.ts header).
THEOREM LedgerImplementsBudget == Spec => ImplementsOneUseBudget
<1>1. Init => Budget!Init
  <2>. SUFFICES ASSUME Init PROVE Budget!Init
    OBVIOUS
  <2>1. \A i \in DOMAIN log : log[i].kind = "policy"
    BY LedgerAssumption DEF Init, PolicyRecord
  <2>2. Reservations = {}
    BY <2>1 DEF Reservations, Consuming
  <2>. QED BY <2>2 DEF Budget!Init, Init
<1>2. IInv /\ SoundTable(log') /\ [Next]_vars => [Budget!Next]_(Budget!bvars)
  BY StepKeepsPromise
<1>3. LedgerIsSound' => SoundTable(log')
  BY DEF LedgerIsSound
<1>. QED BY <1>1, <1>2, <1>3, TableIsSound, InductiveInvariant, PTL DEF Spec, ImplementsOneUseBudget, Budget!Spec
=============================================================================
