------------------------- MODULE KernelTableProofs --------------------------
(***************************************************************************)
(* KernelLedger never leaves its types, and every step keeps TableInv: the *)
(* table, the indexes and the inserts under way, and with them the chain,  *)
(* the nonces and the authorizations of the records on the table.          *)
(***************************************************************************)
EXTENDS KernelInvariant, DataLemmas

-----------------------------------------------------------------------------
(* The operators of KernelRecords *)

LEMMA TipType ==
    ASSUME NEW ix \in Seq(Record)
    PROVE  Tip(ix) \in (Call \X BOOLEAN) \cup {Nil}
<1>1. Receipts(ix) \in SUBSET (1..Len(ix)) /\ Len(ix) \in Nat
  BY DEF Receipts
<1>2. CASE Receipts(ix) = {}
  BY <1>2 DEF Tip
<1>3. CASE Receipts(ix) # {}
  <2>1. Max(Receipts(ix)) \in Receipts(ix)
    BY <1>1, <1>3, MaxOfIndices
  <2>2. \A i \in Receipts(ix) : ix[i].call \in Call /\ ix[i].executed \in BOOLEAN
    BY DEF Receipts, Record
  <2>. QED BY <1>3, <2>1, <2>2 DEF Tip
<1>. QED BY <1>2, <1>3

\* The policy in force is one of the subject's, and no other has a higher nonce.
LEMMA LatestPolicyIsLatest ==
    ASSUME NEW ix \in Seq(Record), NEW subject, PoliciesOf(ix, subject) # {}
    PROVE  /\ LatestPolicy(ix, subject) \in PoliciesOf(ix, subject)
           /\ \A o \in PoliciesOf(ix, subject) : o.nonce <= LatestPolicy(ix, subject).nonce
<1>. DEFINE Rows == {j \in DOMAIN ix : ix[j].kind = "policy" /\ ix[j].policy.subject = subject}
            w == [j \in Rows |-> ix[j].policy.nonce]
<1>1. Rows # {} /\ IsFiniteSet(Rows)
  <2>1. Rows \in SUBSET (1..Len(ix)) /\ Rows # {} /\ Len(ix) \in Nat
    BY DEF PoliciesOf
  <2>2. IsFiniteSet(1..Len(ix))
    BY <2>1, FS_Interval
  <2>. QED BY <2>1, <2>2, FS_Subset
<1>2. \A j \in Rows : ix[j].policy \in Policy /\ ix[j].policy.nonce \in Nat
  BY RecordAssumption DEF Record
<1>3. PICK i \in Rows : \A j \in Rows : w[j] <= w[i]
  BY <1>1, <1>2, GreatestWeight, w \in [Rows -> Nat]
<1>4. ix[i].policy \in PoliciesOf(ix, subject)
      /\ \A o \in PoliciesOf(ix, subject) : o.nonce <= ix[i].policy.nonce
  BY <1>3 DEF PoliciesOf
<1>. QED BY <1>4 DEF LatestPolicy

LEMMA LatestPolicyType ==
    ASSUME NEW ix \in Seq(Record), NEW subject
    PROVE  LatestPolicy(ix, subject) \in Policy \cup {Nil}
<1>1. PoliciesOf(ix, subject) \subseteq Policy
  BY DEF PoliciesOf, Record
<1>. QED BY <1>1, LatestPolicyIsLatest DEF LatestPolicy

-----------------------------------------------------------------------------
(* Rows and helpers are well typed.                                        *)

LEMMA DecisionRowType ==
    ASSUME NEW c \in Call, NEW ix \in Seq(Record), asmt[c] \in Assessment
    PROVE  DecisionRow(c, ix) \in Record
<1>1. Tip(ix) \in (Call \X BOOLEAN) \cup {Nil}
  BY TipType
<1>2. Verdict(ix, c, asmt[c].policy, asmt[c].now, asmt[c].clear) \in {"ALLOW", "BLOCK"}
  BY DEF Verdict
<1>3. asmt[c].policy \in Policy \cup {Nil} /\ asmt[c].now \in Nat
  BY DEF Assessment
<1>. QED BY <1>1, <1>2, <1>3 DEF DecisionRow, Decision, Record

LEMMA OutcomeType ==
    ASSUME NEW c \in Call, NEW p \in Policy \cup {Nil}, NEW t \in Nat, NEW ix \in Seq(Record)
    PROVE  Outcome(c, p, t, Tip(ix)) \in Record
  BY TipType DEF Outcome, Record

LEMMA EnsureLoadedType ==
    ASSUME TypeOK, NEW r \in Replica, EnsureLoaded(r)
    PROVE  /\ loaded' \in [Replica -> BOOLEAN]
           /\ index' \in [Replica -> Seq(Record)]
           /\ next' \in [Replica -> Nat]
           /\ View(r) \in Seq(Record)
  BY DEF TypeOK, EnsureLoaded, View

LEMMA IssueType ==
    ASSUME TypeOK, NEW r \in Replica, next' \in [Replica -> Nat], NEW rec \in Record, Issue(r, rec)
    PROVE  wire' \in [Replica -> [seq : Nat, rec : Record, landed : BOOLEAN] \cup {Nil}]
  BY DEF TypeOK, Issue

LEMMA QueueTypes ==
    ASSUME TypeOK, NEW r \in Replica
    PROVE  /\ \A o \in Op : Enqueue(r, o) => queue' \in [Replica -> Seq(Op)]
           /\ Release(r) /\ queue[r] # <<>> => queue' \in [Replica -> Seq(Op)]
           /\ queue[r] # <<>> => Head(queue[r]) \in Op
<1>1. queue \in [Replica -> Seq(Op)] /\ queue[r] \in Seq(Op)
  BY DEF TypeOK
<1>2. ASSUME NEW o \in Op, Enqueue(r, o)
      PROVE  queue' \in [Replica -> Seq(Op)]
  BY <1>1, <1>2 DEF Enqueue
<1>3. ASSUME queue[r] # <<>>
      PROVE  Head(queue[r]) \in Op /\ Tail(queue[r]) \in Seq(Op)
  BY <1>1, <1>3, HeadTailProperties
<1>. QED BY <1>1, <1>2, <1>3 DEF Release

LEMMA FinishType ==
    ASSUME TypeOK, NEW o \in Op, NEW phase \in Phase, Finish(o, phase)
    PROVE  /\ pc' \in [Op -> Phase]
           /\ asmt' \in [Call -> Assessment \cup {Nil}]
  BY DEF TypeOK, Finish, Assessment

THEOREM InitTyped == Init => TypeInv
<1>. SUFFICES ASSUME Init PROVE TypeInv
  OBVIOUS
<1>1. InitialLog \in Seq(Record)
  <2>1. \A p \in Policy : PolicyRecord(p) \in Record
    BY DEF PolicyRecord, Record
  <2>2. \A p \in Policy : <<PolicyRecord(p)>> \in Seq(Record)
    BY <2>1
  <2>3. <<>> \in Seq(Record)
    OBVIOUS
  <2>. QED BY <2>2, <2>3, LedgerAssumption
<1>2. TypeOK
  BY <1>1 DEF Init, TypeOK, Phase
<1>3. LockInv
  BY DEF Init, LockInv
<1>4. PhaseInv
  BY DEF Init, PhaseInv, Waiting, Op
<1>. QED BY <1>2, <1>3, <1>4 DEF TypeInv

-----------------------------------------------------------------------------
(* The lock's queue.                                                       *)

Appending == {"decision", "outcome", "policy"}

\* A call or post that awaits no append joins the queue of its replica.
LEMMA EnqueueKeepsLocks ==
    ASSUME TypeInv, NEW r \in Replica, NEW o \in Op, NEW phase \in Appending,
           pc[o] \notin Appending, Enqueue(r, o), pc' = [pc EXCEPT ![o] = phase],
           home'[o] = r, \A p \in Op : p # o => home'[p] = home[p], UNCHANGED wire
    PROVE  LockInv'
<1>1. queue \in [Replica -> Seq(Op)] /\ pc \in [Op -> Phase]
  BY DEF TypeInv, TypeOK
<1>2. /\ queue'[r] = Append(queue[r], o)
      /\ \A q \in Replica : q # r => queue'[q] = queue[q]
  BY <1>1 DEF Enqueue
<1>3. \A q \in Replica : \A i \in DOMAIN queue[q] :
         /\ queue[q][i] \in Op /\ queue[q][i] # o
         /\ home'[queue[q][i]] = q /\ pc'[queue[q][i]] \in Appending
  BY <1>1 DEF TypeInv, LockInv, Appending
<1>4. ASSUME NEW q \in Replica
      PROVE  /\ \A i \in DOMAIN queue'[q] : home'[queue'[q][i]] = q /\ pc'[queue'[q][i]] \in Appending
             /\ \A i, j \in DOMAIN queue'[q] : queue'[q][i] = queue'[q][j] => i = j
             /\ wire'[q] # Nil => queue'[q] # <<>>
  <2>1. CASE q # r
    BY <1>2, <1>3, <2>1 DEF TypeInv, LockInv
  <2>2. CASE q = r
    <3>1. queue[r] \in Seq(Op) /\ Len(queue[r]) \in Nat /\ DOMAIN queue[r] = 1..Len(queue[r])
      BY <1>1
    <3>2. /\ Append(queue[r], o) # <<>>
          /\ DOMAIN Append(queue[r], o) = 1..(Len(queue[r]) + 1)
          /\ \A i \in 1..Len(queue[r]) : Append(queue[r], o)[i] = queue[r][i]
          /\ Append(queue[r], o)[Len(queue[r]) + 1] = o
      BY <3>1, AppendProperties
    <3>3. home'[o] = r /\ pc'[o] \in Appending
      BY <1>1
    <3>4. \A i, j \in 1..Len(queue[r]) : queue[r][i] = queue[r][j] => i = j
      BY <3>1 DEF TypeInv, LockInv
    <3>5. \A i \in 1..Len(queue[r]) : home'[queue[r][i]] = r /\ pc'[queue[r][i]] \in Appending /\ queue[r][i] # o
      BY <1>3, <3>1
    <3>6. \A i \in 1..(Len(queue[r]) + 1) : i \in 1..Len(queue[r]) \/ i = Len(queue[r]) + 1
      BY <3>1
    <3>7. \A i \in DOMAIN queue'[r] : home'[queue'[r][i]] = r /\ pc'[queue'[r][i]] \in Appending
      BY <1>2, <3>2, <3>3, <3>5, <3>6
    <3>8. \A i, j \in DOMAIN queue'[r] : queue'[r][i] = queue'[r][j] => i = j
      BY <1>2, <3>2, <3>4, <3>5, <3>6
    <3>. QED BY <1>2, <2>2, <3>2, <3>7, <3>8
  <2>. QED BY <2>1, <2>2
<1>. QED BY <1>4 DEF LockInv, Appending

\* The queue's head leaves, and nobody else moves.
LEMMA ReleaseKeepsLocks ==
    ASSUME TypeInv, NEW r \in Replica, queue[r] # <<>>, Release(r), wire'[r] = Nil,
           \A q \in Replica : q # r => wire'[q] = wire[q],
           \A p \in Op : p # Head(queue[r]) => pc'[p] = pc[p], UNCHANGED home
    PROVE  LockInv'
<1>1. queue \in [Replica -> Seq(Op)] /\ queue[r] \in Seq(Op)
  BY DEF TypeInv, TypeOK
<1>2. /\ queue'[r] = Tail(queue[r])
      /\ \A q \in Replica : q # r => queue'[q] = queue[q]
  BY <1>1 DEF Release
<1>3. /\ Len(queue[r]) \in Nat \ {0} /\ DOMAIN queue[r] = 1..Len(queue[r])
      /\ Head(queue[r]) = queue[r][1]
      /\ DOMAIN Tail(queue[r]) = 1..(Len(queue[r]) - 1)
      /\ \A i \in 1..(Len(queue[r]) - 1) : Tail(queue[r])[i] = queue[r][i + 1]
  BY <1>1, HeadTailProperties
<1>4. \A i \in 1..(Len(queue[r]) - 1) : queue[r][i + 1] # Head(queue[r]) /\ queue[r][i + 1] \in Op
  BY <1>1, <1>3 DEF TypeInv, LockInv
<1>5. \A q \in Replica : q # r => \A i \in DOMAIN queue[q] : queue[q][i] # Head(queue[r]) /\ queue[q][i] \in Op
  BY <1>1, <1>3 DEF TypeInv, LockInv
<1>6. ASSUME NEW q \in Replica
      PROVE  /\ \A i \in DOMAIN queue'[q] : home'[queue'[q][i]] = q /\ pc'[queue'[q][i]] \in Appending
             /\ \A i, j \in DOMAIN queue'[q] : queue'[q][i] = queue'[q][j] => i = j
             /\ wire'[q] # Nil => queue'[q] # <<>>
  <2>1. CASE q # r
    BY <1>2, <1>5, <2>1 DEF TypeInv, LockInv, Appending
  <2>2. CASE q = r
    <3>1. \A i \in 1..Len(queue[r]) : home[queue[r][i]] = r /\ pc[queue[r][i]] \in Appending
      BY <1>3 DEF TypeInv, LockInv, Appending
    <3>2. \A i, j \in 1..Len(queue[r]) : queue[r][i] = queue[r][j] => i = j
      BY <1>3 DEF TypeInv, LockInv
    <3>3. \A i \in 1..(Len(queue[r]) - 1) : i + 1 \in 1..Len(queue[r])
      BY <1>3
    <3>4. \A i \in DOMAIN queue'[r] : home'[queue'[r][i]] = r /\ pc'[queue'[r][i]] \in Appending
      BY <1>2, <1>3, <1>4, <3>1, <3>3
    <3>5. \A i, j \in DOMAIN queue'[r] : queue'[r][i] = queue'[r][j] => i = j
      BY <1>2, <1>3, <3>2, <3>3
    <3>. QED BY <2>2, <3>4, <3>5
  <2>. QED BY <2>1, <2>2
<1>. QED BY <1>6 DEF LockInv, Appending

\* The head of a queue belongs to the queue's replica and awaits its append.
LEMMA HeadAwaits ==
    ASSUME TypeInv, NEW r \in Replica, queue[r] # <<>>
    PROVE  /\ Head(queue[r]) \in Op
           /\ home[Head(queue[r])] = r
           /\ pc[Head(queue[r])] \in Appending
           /\ Head(queue[r]) \in Call => asmt[Head(queue[r])] \in Assessment
<1>1. queue[r] \in Seq(Op)
  BY DEF TypeInv, TypeOK
<1>2. Head(queue[r]) = queue[r][1] /\ 1 \in DOMAIN queue[r] /\ Head(queue[r]) \in Op
  BY <1>1, HeadTailProperties
<1>3. home[Head(queue[r])] = r /\ pc[Head(queue[r])] \in Appending
  BY <1>2 DEF TypeInv, LockInv, Appending
<1>4. Head(queue[r]) \in Call => asmt[Head(queue[r])] \in Assessment
  BY <1>3 DEF TypeInv, PhaseInv, Appending, Waiting
<1>. QED BY <1>2, <1>3, <1>4

\* The queue's head is told the end of its append, and the lock passes on.
LEMMA FinishKeepsTypes ==
    ASSUME TypeInv, NEW r \in Replica, queue[r] # <<>>, NEW phase \in Phase,
           phase \in Answered \cup {"running"},
           phase = "running" => Head(queue[r]) \in Call,
           Finish(Head(queue[r]), phase), Release(r), UNCHANGED home, wire'[r] = Nil,
           \A q \in Replica : q # r => wire'[q] = wire[q]
    PROVE  /\ queue' \in [Replica -> Seq(Op)]
           /\ pc' \in [Op -> Phase]
           /\ asmt' \in [Call -> Assessment \cup {Nil}]
           /\ LockInv' /\ PhaseInv'
<1>. DEFINE o == Head(queue[r])
<1>1. o \in Op /\ home[o] = r /\ pc[o] \in Appending /\ (o \in Call => asmt[o] \in Assessment)
  BY HeadAwaits
<1>2. pc \in [Op -> Phase] /\ asmt \in [Call -> Assessment \cup {Nil}]
  BY DEF TypeInv, TypeOK, Assessment
<1>3. pc' \in [Op -> Phase] /\ asmt' \in [Call -> Assessment \cup {Nil}]
  BY <1>1, FinishType DEF TypeInv
<1>4. queue' \in [Replica -> Seq(Op)]
  BY QueueTypes DEF TypeInv
<1>5. pc'[o] = phase /\ \A p \in Op : p # o => pc'[p] = pc[p]
  BY <1>1, <1>2 DEF Finish
<1>6. LockInv'
  BY <1>5, ReleaseKeepsLocks
<1>7. PhaseInv'
  <2>1. ASSUME NEW c \in Call, pc'[c] \in Waiting
        PROVE  pc'[c] # "policy" /\ home'[c] \in Replica /\ asmt'[c] \in Assessment
    <3>1. c \in Op
      BY DEF Op
    <3>2. CASE c = o
      BY <1>1, <1>5, <2>1, <3>1, <3>2 DEF Finish, Waiting, Answered
    <3>3. CASE c # o
      BY <1>5, <2>1, <3>1, <3>3 DEF TypeInv, PhaseInv, Finish
    <3>. QED BY <3>2, <3>3
  <2>2. ASSUME NEW m \in Post
        PROVE  pc'[m] \in {"idle", "policy", "dead"} \cup Answered
    <3>1. m \in Op /\ m \notin Call
      BY LedgerAssumption DEF Op
    <3>. QED BY <1>5, <3>1 DEF TypeInv, PhaseInv
  <2>. QED BY <2>1, <2>2 DEF PhaseInv
<1>. QED BY <1>3, <1>4, <1>6, <1>7

\* An insert is sent: only the index and the wire change.
LEMMA IssueKeepsTypes ==
    ASSUME TypeInv, NEW r \in Replica, queue[r] # <<>>, EnsureLoaded(r),
           NEW rec \in Record, Issue(r, rec), UNCHANGED <<store, queue, gate, env>>
    PROVE  TypeInv'
<1>1. TypeOK'
  BY EnsureLoadedType, IssueType DEF TypeInv, TypeOK, store, gate, env
<1>2. LockInv'
  BY DEF TypeInv, TypeOK, LockInv, Issue, gate
<1>3. PhaseInv'
  BY DEF TypeInv, PhaseInv, gate
<1>. QED BY <1>1, <1>2, <1>3 DEF TypeInv

\* A call or post that awaits no append may move without touching the locks.
LEMMA MoveKeepsLocks ==
    ASSUME TypeInv, NEW o \in Op, pc[o] \notin Appending, UNCHANGED locks,
           \A p \in Op : p # o => pc'[p] = pc[p] /\ home'[p] = home[p]
    PROVE  LockInv'
<1>1. queue \in [Replica -> Seq(Op)]
  BY DEF TypeInv, TypeOK
<1>2. \A q \in Replica : \A i \in DOMAIN queue[q] : queue[q][i] \in Op /\ queue[q][i] # o
  BY <1>1 DEF TypeInv, LockInv, Appending
<1>. QED BY <1>2 DEF TypeInv, LockInv, locks

-----------------------------------------------------------------------------
(* Every step keeps the types: before the lock, under it, after the insert. *)

LEMMA GateTyped ==
    ASSUME TypeInv, NEW c \in Call, NEW r \in Replica,
           Arrive(c, r) \/ Assess(c) \/ AssessUnread(c) \/ RequestDecision(c) \/ ToolReturns(c)
    PROVE  TypeInv'
<1>. c \in Op /\ (\A m \in Post : m # c /\ m \in Op)
  BY LedgerAssumption DEF Op
<1>0. /\ TypeOK /\ pc \in [Op -> Phase] /\ home \in [Op -> Replica \cup {Nil}]
      /\ asmt \in [Call -> Assessment \cup {Nil}]
      /\ pc[c] \in Waiting => home[c] \in Replica /\ asmt[c] \in Assessment
  BY DEF TypeInv, TypeOK, PhaseInv, Assessment
<1>1. CASE Arrive(c, r)
  <2>1. TypeOK'
    BY <1>1 DEF TypeInv, TypeOK, Arrive, Phase, Waiting, store, memory, locks, env
  <2>2. LockInv'
    BY <1>0, <1>1, MoveKeepsLocks DEF Arrive, Appending
  <2>3. PhaseInv'
    BY <1>0, <1>1 DEF TypeInv, TypeOK, PhaseInv, Arrive, Waiting, Assessment
  <2>. QED BY <2>1, <2>2, <2>3 DEF TypeInv
<1>2. CASE Assess(c)
  <2>1. home[c] \in Replica /\ asmt[c] \in Assessment /\ EnsureLoaded(home[c])
    BY <1>0, <1>2 DEF Assess, Waiting
  <2>2. View(home[c]) \in Seq(Record)
    BY <1>0, <2>1, EnsureLoadedType
  <2>3. LatestPolicy(View(home[c]), Request[c].agent) \in Policy \cup {Nil}
    BY <2>2, LatestPolicyType
  <2>4. asmt' \in [Call -> Assessment \cup {Nil}] /\ asmt'[c] \in Assessment
        /\ \A d \in Call : d # c => asmt'[d] = asmt[d]
    <3>. DEFINE p == LatestPolicy(View(home[c]), Request[c].agent)
    <3>1. PICK clear \in BOOLEAN : asmt' = [asmt EXCEPT ![c].policy = p, ![c].clear = clear]
      BY <1>2 DEF Assess
    <3>. HIDE DEF p
    <3>2. asmt' = [asmt EXCEPT ![c] = [[asmt[c] EXCEPT !.policy = p] EXCEPT !.clear = clear]]
      BY <1>0, <3>1
    <3>3. [[asmt[c] EXCEPT !.policy = p] EXCEPT !.clear = clear] \in Assessment
      BY <2>1, <2>3 DEF Assessment, p
    <3>. QED BY <1>0, <3>2, <3>3
  <2>5. TypeOK'
    BY <1>0, <1>2, <2>1, <2>4, EnsureLoadedType DEF TypeOK, Assess, Assessment, Phase, Waiting, store, locks, env
  <2>6. LockInv'
    BY <1>0, <1>2, MoveKeepsLocks DEF Assess, Appending
  <2>7. PhaseInv'
    <3>1. \A d \in Call : d # c => pc'[d] = pc[d] /\ home'[d] = home[d] /\ asmt'[d] = asmt[d]
      BY <1>0, <1>2, <2>4 DEF Assess, Op
    <3>2. pc'[c] = "assessed" /\ home'[c] \in Replica /\ asmt'[c] \in Assessment
      BY <1>0, <1>2, <2>1, <2>4 DEF Assess
    <3>3. \A m \in Post : pc'[m] = pc[m]
      BY <1>0, <1>2 DEF Assess
    <3>. QED BY <3>1, <3>2, <3>3 DEF TypeInv, PhaseInv
  <2>. QED BY <2>5, <2>6, <2>7 DEF TypeInv
<1>3. CASE AssessUnread(c)
  <2>1. home[c] \in Replica
    BY <1>0, <1>3 DEF AssessUnread, Waiting
  <2>2. TypeOK'
    BY <1>0, <1>3, <2>1 DEF TypeOK, AssessUnread, LoadFails, Phase, Waiting, store, locks, env
  <2>3. LockInv'
    BY <1>0, <1>3, MoveKeepsLocks DEF AssessUnread, Appending
  <2>4. PhaseInv'
    BY <1>0, <1>3 DEF TypeInv, PhaseInv, AssessUnread, Waiting
  <2>. QED BY <2>2, <2>3, <2>4 DEF TypeInv
<1>4. CASE RequestDecision(c)
  <2>1. home[c] \in Replica /\ asmt[c] \in Assessment /\ GatherSpent(c) /\ Enqueue(home[c], c)
    BY <1>0, <1>4 DEF RequestDecision, Waiting
  <2>2. /\ loaded' \in [Replica -> BOOLEAN] /\ index' \in [Replica -> Seq(Record)]
        /\ next' \in [Replica -> Nat]
        /\ asmt' \in [Call -> Assessment \cup {Nil}] /\ asmt'[c] \in Assessment
        /\ \A d \in Call : d # c => asmt'[d] = asmt[d]
    <3>1. CASE EnsureLoaded(home[c]) /\ UNCHANGED asmt
      BY <1>0, <2>1, <3>1, EnsureLoadedType
    <3>2. CASE LoadFails(home[c]) /\ asmt' = [asmt EXCEPT ![c].clear = FALSE]
      BY <1>0, <2>1, <3>2 DEF LoadFails, TypeOK, Assessment
    <3>3. CASE UNCHANGED <<memory, asmt>>
      BY <1>0, <2>1, <3>3 DEF TypeOK, memory
    <3>. QED BY <2>1, <3>1, <3>2, <3>3 DEF GatherSpent
  <2>3. queue' \in [Replica -> Seq(Op)]
    BY <1>0, <2>1, QueueTypes
  <2>4. TypeOK'
    BY <1>0, <1>4, <2>2, <2>3 DEF TypeOK, RequestDecision, Assessment, Phase, Waiting, store, env
  <2>5. LockInv'
    BY <1>0, <1>4, <2>1, EnqueueKeepsLocks DEF RequestDecision, Appending
  <2>6. PhaseInv'
    BY <1>0, <1>4, <2>1, <2>2 DEF TypeInv, PhaseInv, RequestDecision, Waiting
  <2>. QED BY <2>4, <2>5, <2>6 DEF TypeInv
<1>5. CASE ToolReturns(c)
  <2>1. home[c] \in Replica /\ Enqueue(home[c], c)
    BY <1>0, <1>5 DEF ToolReturns, Waiting
  <2>2. queue' \in [Replica -> Seq(Op)]
    BY <1>0, <2>1, QueueTypes
  <2>3. TypeOK'
    BY <1>0, <1>5, <2>2 DEF TypeOK, ToolReturns, Phase, Waiting, store, memory, env
  <2>4. LockInv'
    BY <1>0, <1>5, <2>1, EnqueueKeepsLocks DEF ToolReturns, Appending
  <2>5. PhaseInv'
    BY <1>0, <1>5 DEF TypeInv, PhaseInv, ToolReturns, Waiting
  <2>. QED BY <2>3, <2>4, <2>5 DEF TypeInv
<1>. QED BY <1>1, <1>2, <1>3, <1>4, <1>5

LEMMA SubmitTyped ==
    ASSUME TypeInv, NEW m \in Post, NEW r \in Replica, SubmitPolicy(m, r)
    PROVE  TypeInv'
<1>1. m \in Op /\ \A c \in Call : c # m /\ c \in Op
  BY LedgerAssumption DEF Op
<1>2. TypeOK /\ pc \in [Op -> Phase] /\ home \in [Op -> Replica \cup {Nil}]
  BY DEF TypeInv, TypeOK
<1>3. TypeOK'
  <2>1. queue' \in [Replica -> Seq(Op)]
    BY <1>1, <1>2, QueueTypes DEF SubmitPolicy
  <2>. QED BY <1>1, <1>2, <2>1 DEF TypeOK, SubmitPolicy, Phase, Waiting, store, memory, env
<1>4. LockInv'
  BY <1>1, <1>2, EnqueueKeepsLocks DEF SubmitPolicy, Appending
<1>5. PhaseInv'
  BY <1>1, <1>2 DEF TypeInv, PhaseInv, SubmitPolicy
<1>. QED BY <1>3, <1>4, <1>5 DEF TypeInv

LEMMA LockedTyped ==
    ASSUME TypeInv, NEW r \in Replica, Locked(r)
    PROVE  TypeInv'
<1>0. TypeOK /\ \A c \in Call : c \in Op /\ \A m \in Post : m \in Op
  BY DEF TypeInv, Op
<1>1. ASSUME NEW c \in Call, WriteDecision(r, c)
      PROVE  TypeInv'
  <2>1. queue[r] # <<>> /\ asmt[c] \in Assessment /\ View(r) \in Seq(Record)
    BY <1>0, <1>1, HeadAwaits, EnsureLoadedType DEF WriteDecision, Holds
  <2>2. DecisionRow(c, View(r)) \in Record
    BY <2>1, DecisionRowType
  <2>. QED BY <1>1, <2>1, <2>2, IssueKeepsTypes DEF WriteDecision
<1>2. ASSUME NEW c \in Call, WithholdDecision(r, c)
      PROVE  TypeInv'
  <2>1. queue[r] # <<>> /\ Head(queue[r]) = c /\ wire[r] = Nil
    BY <1>2 DEF WithholdDecision, Holds
  <2>2. queue' \in [Replica -> Seq(Op)] /\ pc' \in [Op -> Phase]
        /\ asmt' \in [Call -> Assessment \cup {Nil}] /\ LockInv' /\ PhaseInv'
    BY <1>2, <2>1, FinishKeepsTypes DEF WithholdDecision, Phase, Answered
  <2>3. TypeOK'
    BY <1>0, <1>2, <2>2, EnsureLoadedType DEF TypeOK, WithholdDecision, Assessment, store, env
  <2>. QED BY <2>2, <2>3 DEF TypeInv
<1>3. ASSUME NEW c \in Call, WriteOutcome(r, c)
      PROVE  TypeInv'
  <2>1. queue[r] # <<>> /\ asmt[c] \in Assessment /\ View(r) \in Seq(Record)
    BY <1>0, <1>3, HeadAwaits, EnsureLoadedType DEF WriteOutcome, Holds
  <2>2. asmt[c].policy \in Policy \cup {Nil} /\ clock \in Nat
    BY <1>0, <2>1 DEF Assessment, TypeOK
  <2>3. Outcome(c, asmt[c].policy, clock, Tip(View(r))) \in Record
    BY <2>1, <2>2, OutcomeType
  <2>. QED BY <1>3, <2>1, <2>3, IssueKeepsTypes DEF WriteOutcome
<1>4. ASSUME NEW m \in Post, WritePolicy(r, m)
      PROVE  TypeInv'
  <2>1. queue[r] # <<>>
    BY <1>4 DEF WritePolicy, Holds
  <2>2. PolicyRecord(PolicyOf[m]) \in Record
    BY LedgerAssumption DEF PolicyRecord, Record
  <2>. QED BY <1>4, <2>1, <2>2, IssueKeepsTypes DEF WritePolicy
<1>5. ASSUME NEW m \in Post, RefusePolicy(r, m)
      PROVE  TypeInv'
  <2>1. queue[r] # <<>> /\ Head(queue[r]) = m /\ wire[r] = Nil
    BY <1>5 DEF RefusePolicy, Holds
  <2>2. queue' \in [Replica -> Seq(Op)] /\ pc' \in [Op -> Phase]
        /\ asmt' \in [Call -> Assessment \cup {Nil}] /\ LockInv' /\ PhaseInv'
    BY <1>5, <2>1, FinishKeepsTypes DEF RefusePolicy, Phase, Answered
  <2>3. TypeOK'
    BY <1>0, <1>5, <2>2, EnsureLoadedType DEF TypeOK, RefusePolicy, Assessment, store, env
  <2>. QED BY <2>2, <2>3 DEF TypeInv
<1>6. ASSUME NEW o \in Op, LoadFailsUnderLock(r, o)
      PROVE  TypeInv'
  <2>1. queue[r] # <<>> /\ Head(queue[r]) = o /\ wire[r] = Nil
    BY <1>6 DEF LoadFailsUnderLock, Holds
  <2>2. Failure(o) \in Answered /\ Failure(o) \in Phase
    BY <2>1, HeadAwaits DEF Failure, Appending, Answered, Phase
  <2>3. queue' \in [Replica -> Seq(Op)] /\ pc' \in [Op -> Phase]
        /\ asmt' \in [Call -> Assessment \cup {Nil}] /\ LockInv' /\ PhaseInv'
    BY <1>6, <2>1, <2>2, FinishKeepsTypes DEF LoadFailsUnderLock, Answered
  <2>4. TypeOK'
    BY <1>0, <1>6, <2>3 DEF TypeOK, LoadFailsUnderLock, LoadFails, Assessment, store, env
  <2>. QED BY <2>3, <2>4 DEF TypeInv
<1>. QED BY <1>1, <1>2, <1>3, <1>4, <1>5, <1>6 DEF Locked

LEMMA AnswerTyped ==
    ASSUME TypeInv, NEW r \in Replica, Answer(r)
    PROVE  TypeInv'
<1>0. TypeOK /\ queue[r] # <<>> /\ wire[r] # Nil
      /\ wire[r] \in [seq : Nat, rec : Record, landed : BOOLEAN]
      /\ wire \in [Replica -> [seq : Nat, rec : Record, landed : BOOLEAN] \cup {Nil}]
      /\ index[r] \in Seq(Record) /\ next[r] \in Nat
  BY DEF Answer, Acknowledge, InsertCollides, InsertTimesOut, TypeInv, TypeOK, LockInv
<1>1. CASE Acknowledge(r)
  <2>. DEFINE o == Head(queue[r])
  <2>1. Acknowledged(o) \in Answered \cup {"running"} /\ Acknowledged(o) \in Phase
    BY DEF Acknowledged, Answered, Phase, Waiting
  <2>2. pc[o] = "decision" => o \in Call
    BY <1>0, HeadAwaits DEF TypeInv, PhaseInv, Answered, Op
  <2>3. Acknowledged(o) \in {"running", "allowed"} => o \in Call
    BY <1>0, <2>2, HeadAwaits DEF Acknowledged, Appending
  <2>4. /\ queue' \in [Replica -> Seq(Op)] /\ pc' \in [Op -> Phase]
        /\ asmt' \in [Call -> Assessment \cup {Nil}] /\ LockInv' /\ PhaseInv'
    BY <1>0, <1>1, <2>1, <2>3, FinishKeepsTypes DEF Acknowledge
  <2>5. index' \in [Replica -> Seq(Record)] /\ next' \in [Replica -> Nat] /\ granted' \subseteq Call
        /\ wire' \in [Replica -> [seq : Nat, rec : Record, landed : BOOLEAN] \cup {Nil}]
    BY <1>0, <1>1, <2>3 DEF Acknowledge, TypeOK
  <2>6. TypeOK'
    BY <1>0, <1>1, <2>4, <2>5 DEF TypeOK, Acknowledge, Assessment, store, env
  <2>. QED BY <2>4, <2>6 DEF TypeInv
<1>2. ASSUME WriteFails(r), log' = log, late' \subseteq late \cup {[seq |-> wire[r].seq, rec |-> wire[r].rec]}
      PROVE  TypeInv'
  <2>1. Failure(Head(queue[r])) \in Answered /\ Failure(Head(queue[r])) \in Phase
    BY <1>0, HeadAwaits DEF Failure, Appending, Answered, Phase
  <2>2. /\ wire' = [wire EXCEPT ![r] = Nil]
        /\ wire'[r] = Nil /\ \A q \in Replica : q # r => wire'[q] = wire[q]
        /\ wire' \in [Replica -> [seq : Nat, rec : Record, landed : BOOLEAN] \cup {Nil}]
        /\ Release(r) /\ UNCHANGED home
        /\ Finish(Head(queue[r]), Failure(Head(queue[r])))
        /\ Failure(Head(queue[r])) # "running"
    BY <1>0, <1>2, <2>1 DEF WriteFails, Answered
  <2>3. /\ queue' \in [Replica -> Seq(Op)] /\ pc' \in [Op -> Phase]
        /\ asmt' \in [Call -> Assessment \cup {Nil}] /\ LockInv' /\ PhaseInv'
    BY <1>0, <2>1, <2>2, FinishKeepsTypes
  <2>4. late' \subseteq Insert /\ log' \in Seq(Record)
    BY <1>0, <1>2 DEF TypeOK, Insert
  <2>5. /\ loaded' \in [Replica -> BOOLEAN] /\ index' \in [Replica -> Seq(Record)]
        /\ next' \in [Replica -> Nat] /\ UNCHANGED <<home, granted, clock, crashes>>
    <3>1. <<>> \in Seq(Record)
      OBVIOUS
    <3>. QED BY <1>0, <1>2, <3>1 DEF WriteFails, TypeOK, env
  <2>6. TypeOK'
    BY <1>0, <2>2, <2>3, <2>4, <2>5 DEF TypeOK, Assessment
  <2>. QED BY <2>3, <2>6 DEF TypeInv
<1>. QED BY <1>1, <1>2 DEF Answer, InsertCollides, InsertTimesOut, Abandon, store

LEMMA LandsTyped ==
    ASSUME TypeInv, \/ \E r \in Replica : InsertLands(r)
                    \/ \E ins \in late : LateInsertLands(ins)
    PROVE  TypeInv'
<1>0. TypeOK
  BY DEF TypeInv
<1>1. ASSUME NEW r \in Replica, InsertLands(r)
      PROVE  TypeInv'
  <2>1. wire[r] \in [seq : Nat, rec : Record, landed : BOOLEAN] /\ log \in Seq(Record)
    BY <1>0, <1>1 DEF InsertLands, TypeOK
  <2>2. log' \in Seq(Record) /\ late' \subseteq Insert
        /\ wire' \in [Replica -> [seq : Nat, rec : Record, landed : BOOLEAN] \cup {Nil}]
    <3>1. log' \in Seq(Record)
      BY <1>1, <2>1 DEF InsertLands, Executes
    <3>2. late' \subseteq Insert
      BY <1>0, <1>1 DEF InsertLands, StillPending, TypeOK
    <3>3. wire' \in [Replica -> [seq : Nat, rec : Record, landed : BOOLEAN] \cup {Nil}]
      BY <1>0, <1>1, <2>1 DEF InsertLands, TypeOK
    <3>. QED BY <3>1, <3>2, <3>3
  <2>3. \A q \in Replica : wire'[q] # Nil => wire[q] # Nil
    BY <1>0, <1>1 DEF InsertLands, TypeOK
  <2>. QED BY <1>0, <1>1, <2>2, <2>3 DEF InsertLands, TypeInv, TypeOK, LockInv, PhaseInv, memory, gate, env
<1>2. ASSUME NEW ins \in late, LateInsertLands(ins)
      PROVE  TypeInv'
  <2>1. ins.rec \in Record /\ log \in Seq(Record)
    BY <1>0 DEF TypeOK, Insert
  <2>2. log' \in Seq(Record)
    BY <1>2, <2>1 DEF LateInsertLands, Executes
  <2>3. late' \subseteq Insert
    BY <1>0, <1>2 DEF LateInsertLands, StillPending, TypeOK
  <2>. QED BY <1>0, <1>2, <2>2, <2>3 DEF LateInsertLands, TypeInv, TypeOK, LockInv, PhaseInv, memory, locks, gate, env
<1>. QED BY <1>1, <1>2

LEMMA CrashTyped ==
    ASSUME TypeInv, NEW r \in Replica, Crash(r)
    PROVE  TypeInv'
<1>. DEFINE lost == {o \in Op : home[o] = r /\ pc[o] \in Waiting}
<1>0. TypeOK
  BY DEF TypeInv
<1>1. /\ pc' = [o \in Op |-> IF o \in lost THEN "dead" ELSE pc[o]]
      /\ asmt' = [c \in Call |-> IF c \in lost THEN Nil ELSE asmt[c]]
      /\ queue' = [queue EXCEPT ![r] = <<>>] /\ wire' = [wire EXCEPT ![r] = Nil]
      /\ loaded' = [loaded EXCEPT ![r] = FALSE] /\ index' = [index EXCEPT ![r] = <<>>]
      /\ next' = [next EXCEPT ![r] = 0] /\ crashes' = crashes + 1
      /\ UNCHANGED <<log, home, granted, clock>>
  BY DEF Crash
<1>. HIDE DEF lost
<1>2. late' \subseteq Insert
  BY <1>0 DEF Crash, Abandon, TypeOK, Insert
<1>3. TypeOK'
  <2>1. pc' \in [Op -> Phase]
    BY <1>0, <1>1 DEF TypeOK, Phase
  <2>2. asmt' \in [Call -> [now : Nat, policy : Policy \cup {Nil}, clear : BOOLEAN] \cup {Nil}]
    BY <1>0, <1>1 DEF TypeOK
  <2>3. queue' \in [Replica -> Seq(Op)] /\ index' \in [Replica -> Seq(Record)]
    <3>1. <<>> \in Seq(Op) /\ <<>> \in Seq(Record)
      OBVIOUS
    <3>. QED BY <1>0, <1>1, <3>1 DEF TypeOK
  <2>4. wire' \in [Replica -> [seq : Nat, rec : Record, landed : BOOLEAN] \cup {Nil}]
    BY <1>0, <1>1 DEF TypeOK
  <2>. QED BY <1>0, <1>1, <1>2, <2>1, <2>2, <2>3, <2>4 DEF TypeOK
<1>4. LockInv'
  <2>1. queue \in [Replica -> Seq(Op)] /\ queue'[r] = <<>> /\ wire'[r] = Nil
        /\ \A q \in Replica : q # r => queue'[q] = queue[q] /\ wire'[q] = wire[q]
    BY <1>0, <1>1 DEF TypeOK
  <2>2. \A q \in Replica : q # r =>
           \A i \in DOMAIN queue[q] : home'[queue[q][i]] = q /\ pc'[queue[q][i]] = pc[queue[q][i]]
    BY <1>1, <2>1 DEF TypeInv, LockInv, lost
  <2>3. ASSUME NEW q \in Replica, q # r
        PROVE  /\ \A i \in DOMAIN queue'[q] : home'[queue'[q][i]] = q /\ pc'[queue'[q][i]] \in Appending
               /\ \A i, j \in DOMAIN queue'[q] : queue'[q][i] = queue'[q][j] => i = j
               /\ wire'[q] # Nil => queue'[q] # <<>>
    BY <2>1, <2>2, <2>3 DEF TypeInv, LockInv, Appending
  <2>. QED BY <2>1, <2>3 DEF LockInv, Appending
<1>5. PhaseInv'
  BY <1>0, <1>1 DEF TypeInv, PhaseInv, Waiting, Op, lost
<1>. QED BY <1>3, <1>4, <1>5 DEF TypeInv

THEOREM TypedStep == TypeInv /\ [Next]_vars => TypeInv'
<1>. SUFFICES ASSUME TypeInv, [Next]_vars PROVE TypeInv'
  OBVIOUS
<1>1. CASE Gate
  BY <1>1, GateTyped DEF Gate, TypeInv, PhaseInv, Assess, AssessUnread, RequestDecision, ToolReturns, Waiting
<1>2. CASE Submit
  BY <1>2, SubmitTyped DEF Submit
<1>3. ASSUME NEW r \in Replica, Locked(r) \/ InsertLands(r) \/ Answer(r) \/ Crash(r)
      PROVE  TypeInv'
  BY <1>3, LockedTyped, LandsTyped, AnswerTyped, CrashTyped
<1>4. CASE \E ins \in late : LateInsertLands(ins)
  BY <1>4, LandsTyped
<1>5. CASE Tick
  BY <1>5 DEF Tick, TypeInv, TypeOK, LockInv, PhaseInv, store, memory, locks, gate
<1>6. CASE UNCHANGED vars
  BY <1>6 DEF vars, TypeInv, TypeOK, LockInv, PhaseInv, store, memory, locks, gate, env
<1>. QED BY <1>1, <1>2, <1>3, <1>4, <1>5, <1>6 DEF Next

\* The program never leaves the types: the lock's queue, the calls' phases, the
\* table and the indexes stay what TypeOK says (store.ts, gate.ts).
THEOREM TypeCorrect == Spec => []TypeOK
<1>1. TypeInv => TypeOK
  BY DEF TypeInv
<1>. QED BY <1>1, InitTyped, TypedStep, PTL DEF Spec

-----------------------------------------------------------------------------
(* The table and the indexes.                                              *)

\* What TypeInv says of them.
LEMMA TableTypes ==
    ASSUME TypeInv
    PROVE  /\ log \in Seq(Record) /\ Len(log) \in Nat
           /\ late \subseteq Insert
           /\ loaded \in [Replica -> BOOLEAN] /\ index \in [Replica -> Seq(Record)]
           /\ next \in [Replica -> Nat]
           /\ wire \in [Replica -> [seq : Nat, rec : Record, landed : BOOLEAN] \cup {Nil}]
           /\ \A r \in Replica : Len(index[r]) \in Nat
  BY DEF TypeInv, TypeOK

\* Building an index reads the whole table; an index there already is kept.
LEMMA EnsureLoadedKeepsTable ==
    ASSUME TypeInv, TableInv, NEW r \in Replica, EnsureLoaded(r), UNCHANGED store
    PROVE  /\ IndexIsPrefix' /\ TableSound' /\ LateSound'
           /\ loaded'[r] /\ index'[r] = View(r) /\ next'[r] = Len(View(r)) + 1
           /\ \A q \in Replica : loaded[q] => loaded'[q] /\ index'[q] = index[q]
<1>1. SubSeq(log, 1, Len(log)) = log
  BY TableTypes, SubSeqFull
<1>2. /\ loaded'[r] /\ index'[r] = View(r)
      /\ next'[r] = IF loaded[r] THEN next[r] ELSE Len(log) + 1
      /\ \A q \in Replica : q # r => /\ loaded'[q] = loaded[q] /\ index'[q] = index[q]
                                     /\ next'[q] = next[q]
  BY TableTypes DEF EnsureLoaded
<1>3. next'[r] = Len(View(r)) + 1 /\ Len(View(r)) <= Len(log) /\ View(r) = SubSeq(log, 1, Len(View(r)))
  BY <1>1, <1>2, TableTypes DEF TableInv, IndexIsPrefix, View
<1>4. IndexIsPrefix'
  BY <1>2, <1>3 DEF TableInv, IndexIsPrefix, store
<1>5. \A q \in Replica : loaded[q] => loaded'[q] /\ index'[q] = index[q]
  BY <1>2 DEF View
<1>. QED BY <1>2, <1>3, <1>4, <1>5 DEF TableInv, TableSound, LateSound, store

LEMMA LoadKeepsTable ==
    ASSUME TypeInv, TableInv, NEW r \in Replica, EnsureLoaded(r) \/ LoadFails(r) \/ UNCHANGED memory,
           UNCHANGED <<store, wire>>
    PROVE  TableInv'
<1>1. CASE EnsureLoaded(r)
  BY <1>1, EnsureLoadedKeepsTable DEF TableInv, WireSound, store
<1>2. CASE LoadFails(r)
  BY <1>2, TableTypes DEF LoadFails, TableInv, IndexIsPrefix, TableSound, LateSound, WireSound, store
<1>3. CASE UNCHANGED memory
  BY <1>3 DEF memory, TableInv, IndexIsPrefix, TableSound, LateSound, WireSound, store
<1>. QED BY <1>1, <1>2, <1>3

\* A record checked on the index is sent to the place after the index.
LEMMA IssueKeepsTable ==
    ASSUME TypeInv, TableInv, NEW r \in Replica, EnsureLoaded(r), NEW rec \in Record,
           Sound(View(r), rec), Issue(r, rec), UNCHANGED store
    PROVE  TableInv'
<1>1. /\ IndexIsPrefix' /\ TableSound' /\ LateSound'
      /\ loaded'[r] /\ index'[r] = View(r) /\ next'[r] = Len(View(r)) + 1
      /\ \A q \in Replica : loaded[q] => loaded'[q] /\ index'[q] = index[q]
  BY EnsureLoadedKeepsTable
<1>2. /\ wire'[r] = [seq |-> next'[r], rec |-> rec, landed |-> FALSE]
      /\ \A q \in Replica : q # r => wire'[q] = wire[q]
  BY TableTypes DEF Issue
<1>3. WireSound'
  <2>1. ASSUME NEW q \in Replica, wire'[q] # Nil
        PROVE  /\ loaded'[q] /\ wire'[q].seq = Len(index'[q]) + 1
               /\ Sound(index'[q], wire'[q].rec)
               /\ wire'[q].landed => wire'[q].seq <= Len(log') /\ log'[wire'[q].seq] = wire'[q].rec
    <3>1. CASE q = r
      BY <1>1, <1>2, <3>1
    <3>2. CASE q # r
      BY <1>1, <1>2, <2>1, <3>2 DEF TableInv, WireSound, store
    <3>. QED BY <3>1, <3>2
  <2>. QED BY <2>1 DEF WireSound
<1>. QED BY <1>1, <1>3 DEF TableInv

\* A sound record goes to the end of the table.
LEMMA GrowKeepsTable ==
    ASSUME TypeInv, TableInv, NEW rec \in Record, Sound(log, rec),
           log' = Append(log, rec), late' = StillPending(late), UNCHANGED memory,
           \A q \in Replica : wire'[q] # Nil =>
               /\ wire[q] # Nil /\ wire'[q].seq = wire[q].seq /\ wire'[q].rec = wire[q].rec
               /\ wire'[q].landed => wire[q].landed \/ (wire[q].seq = Len(log) + 1 /\ wire[q].rec = rec)
    PROVE  TableInv'
<1>1. /\ log' \in Seq(Record) /\ Len(log') = Len(log) + 1 /\ log'[Len(log) + 1] = rec
      /\ \A i \in 1..Len(log) : log'[i] = log[i]
      /\ DOMAIN log = 1..Len(log) /\ DOMAIN log' = 1..(Len(log) + 1)
  BY TableTypes
<1>2. \A n \in 0..Len(log) : SubSeq(log', 1, n) = SubSeq(log, 1, n)
  BY TableTypes, PrefixOfAppend
<1>3. SubSeq(log', 1, Len(log)) = log
  BY <1>2, TableTypes, SubSeqFull
<1>4. IndexIsPrefix'
  BY <1>1, <1>2, TableTypes DEF TableInv, IndexIsPrefix, memory
<1>5. TableSound'
  <2>1. ASSUME NEW j \in 1..(Len(log) + 1)
        PROVE  Sound(SubSeq(log', 1, j - 1), log'[j])
    <3>1. CASE j = Len(log) + 1
      <4>1. j - 1 = Len(log)
        BY <3>1, TableTypes
      <4>2. SubSeq(log', 1, j - 1) = log /\ log'[j] = rec
        BY <1>1, <1>3, <3>1, <4>1
      <4>. QED BY <4>2
    <3>2. CASE j \in 1..Len(log)
      <4>1. j - 1 \in 0..Len(log)
        BY <3>2, TableTypes
      <4>2. SubSeq(log', 1, j - 1) = SubSeq(log, 1, j - 1) /\ log'[j] = log[j]
        BY <1>1, <1>2, <3>2, <4>1
      <4>. QED BY <1>1, <3>2, <4>2 DEF TableInv, TableSound
    <3>. QED BY <3>1, <3>2, TableTypes
  <2>. QED BY <1>1, <2>1 DEF TableSound
<1>6. LateSound'
  <2>1. \A ins \in late : ins.seq = Len(log) + 1
    BY DEF TableInv, LateSound
  <2>. QED BY <1>1, <2>1, TableTypes DEF LateSound, StillPending
<1>7. WireSound'
  <2>1. ASSUME NEW q \in Replica, wire'[q] # Nil
        PROVE  /\ loaded'[q] /\ wire'[q].seq = Len(index'[q]) + 1
               /\ Sound(index'[q], wire'[q].rec)
               /\ wire'[q].landed => wire'[q].seq <= Len(log') /\ log'[wire'[q].seq] = wire'[q].rec
    <3>1. /\ loaded[q] /\ wire[q].seq = Len(index[q]) + 1 /\ Sound(index[q], wire[q].rec)
          /\ wire[q].landed => wire[q].seq <= Len(log) /\ log[wire[q].seq] = wire[q].rec
      BY <2>1 DEF TableInv, WireSound
    <3>2. wire[q].seq \in Nat \ {0}
      BY <3>1, TableTypes
    <3>. QED BY <1>1, <2>1, <3>1, <3>2, TableTypes DEF memory
  <2>. QED BY <2>1 DEF WireSound
<1>. QED BY <1>4, <1>5, <1>6, <1>7 DEF TableInv

\* An insert that executes goes right after the index it was checked on.
LEMMA InsertLandsKeepsTable ==
    ASSUME TypeInv, TableInv, NEW r \in Replica, InsertLands(r)
    PROVE  TableInv'
<1>1. wire[r] \in [seq : Nat, rec : Record, landed : BOOLEAN]
  BY TableTypes DEF InsertLands
<1>2. wire[r].seq = Len(log) + 1 /\ wire[r].seq = Len(index[r]) + 1 /\ loaded[r]
      /\ Sound(index[r], wire[r].rec) /\ log' = Append(log, wire[r].rec)
  BY DEF InsertLands, Executes, TableInv, WireSound
<1>3. index[r] = log
  <2>1. Len(index[r]) = Len(log)
    BY <1>2, TableTypes
  <2>2. index[r] = SubSeq(log, 1, Len(log))
    BY <1>2, <2>1 DEF TableInv, IndexIsPrefix
  <2>. QED BY <2>2, TableTypes, SubSeqFull
<1>4. \A q \in Replica : wire'[q] # Nil =>
         /\ wire[q] # Nil /\ wire'[q].seq = wire[q].seq /\ wire'[q].rec = wire[q].rec
         /\ wire'[q].landed => wire[q].landed \/ (wire[q].seq = Len(log) + 1 /\ wire[q].rec = wire[r].rec)
  <2>1. wire'[r] = [wire[r] EXCEPT !.landed = TRUE] /\ \A q \in Replica : q # r => wire'[q] = wire[q]
    BY TableTypes DEF InsertLands
  <2>2. wire'[r].seq = wire[r].seq /\ wire'[r].rec = wire[r].rec /\ wire[r] # Nil
    BY <1>1, <2>1 DEF InsertLands
  <2>3. ASSUME NEW q \in Replica, wire'[q] # Nil
        PROVE  /\ wire[q] # Nil /\ wire'[q].seq = wire[q].seq /\ wire'[q].rec = wire[q].rec
               /\ wire'[q].landed => wire[q].landed \/ (wire[q].seq = Len(log) + 1 /\ wire[q].rec = wire[r].rec)
    <3>1. CASE q = r
      BY <1>2, <2>2, <3>1
    <3>2. CASE q # r
      <4>1. wire'[q] = wire[q]
        BY <2>1, <3>2
      <4>. QED BY <2>3, <4>1
    <3>. QED BY <3>1, <3>2
  <2>. QED BY <2>3
<1>5. wire[r].rec \in Record /\ late' = StillPending(late) /\ UNCHANGED memory
  BY <1>1 DEF InsertLands
<1>. QED BY <1>2, <1>3, <1>4, <1>5, GrowKeepsTable

LEMMA LateInsertLandsKeepsTable ==
    ASSUME TypeInv, TableInv, NEW ins \in late, LateInsertLands(ins)
    PROVE  TableInv'
<1>1. ins.rec \in Record /\ Sound(log, ins.rec) /\ log' = Append(log, ins.rec)
  BY TableTypes DEF Insert, TableInv, LateSound, LateInsertLands, Executes
<1>2. late' = StillPending(late) /\ UNCHANGED memory /\ UNCHANGED wire
  BY DEF LateInsertLands, locks
<1>3. \A q \in Replica : wire'[q] # Nil =>
         /\ wire[q] # Nil /\ wire'[q].seq = wire[q].seq /\ wire'[q].rec = wire[q].rec
         /\ wire'[q].landed => wire[q].landed \/ (wire[q].seq = Len(log) + 1 /\ wire[q].rec = ins.rec)
  <2>. wire' = wire
    BY <1>2
  <2>. QED OBVIOUS
<1>4. late' = StillPending(late) /\ UNCHANGED memory
  BY <1>2
<1>. QED BY <1>1, <1>3, <1>4, GrowKeepsTable

\* An acknowledged row extends the index by the row the table has there.
LEMMA AcknowledgeKeepsTable ==
    ASSUME TypeInv, TableInv, NEW r \in Replica, Acknowledge(r)
    PROVE  TableInv'
<1>1. /\ wire[r] \in [seq : Nat, rec : Record, landed : BOOLEAN]
      /\ index[r] \in Seq(Record) /\ Len(index[r]) \in Nat
      /\ loaded[r] /\ wire[r].seq = Len(index[r]) + 1
      /\ wire[r].seq <= Len(log) /\ log[wire[r].seq] = wire[r].rec
  BY TableTypes DEF Acknowledge, TableInv, WireSound
<1>2. /\ index' = [index EXCEPT ![r] = Append(@, wire[r].rec)]
      /\ next' = [next EXCEPT ![r] = @ + 1]
      /\ wire' = [wire EXCEPT ![r] = Nil]
      /\ UNCHANGED <<log, late, loaded>>
  BY DEF Acknowledge, store
<1>3. index'[r] = SubSeq(log, 1, Len(index[r]) + 1) /\ Len(index'[r]) = Len(index[r]) + 1
  <2>1. index[r] = SubSeq(log, 1, Len(index[r])) /\ Len(index[r]) \in 0..(Len(log) - 1)
    BY <1>1, TableTypes DEF TableInv, IndexIsPrefix
  <2>2. Append(SubSeq(log, 1, Len(index[r])), log[Len(index[r]) + 1]) = SubSeq(log, 1, Len(index[r]) + 1)
    BY <2>1, TableTypes, PrefixExtend
  <2>. QED BY <1>1, <1>2, <2>1, <2>2, TableTypes
<1>4. next[r] = Len(index[r]) + 1 /\ next'[r] = next[r] + 1
  BY <1>1, <1>2, TableTypes DEF TableInv, IndexIsPrefix
<1>5. \A q \in Replica : q # r => index'[q] = index[q] /\ next'[q] = next[q] /\ wire'[q] = wire[q]
  BY <1>2, TableTypes
<1>6. IndexIsPrefix'
  BY <1>1, <1>2, <1>3, <1>4, <1>5, TableTypes DEF TableInv, IndexIsPrefix
<1>7. WireSound'
  BY <1>2, <1>5, TableTypes DEF TableInv, WireSound
<1>8. TableSound' /\ LateSound'
  BY <1>2 DEF TableInv, TableSound, LateSound
<1>. QED BY <1>6, <1>7, <1>8 DEF TableInv

\* A replica that gives up an insert drops its index; the insert may still land.
LEMMA GiveUpKeepsTable ==
    ASSUME TypeInv, TableInv, NEW r \in Replica, UNCHANGED log,
           loaded' = [loaded EXCEPT ![r] = FALSE], wire' = [wire EXCEPT ![r] = Nil],
           \A q \in Replica : q # r => index'[q] = index[q] /\ next'[q] = next[q],
           late' = late \/ (wire[r] # Nil /\ Abandon(wire[r]))
    PROVE  TableInv'
<1>1. /\ ~loaded'[r] /\ wire'[r] = Nil
      /\ \A q \in Replica : q # r => loaded'[q] = loaded[q] /\ wire'[q] = wire[q]
  BY TableTypes
<1>2. IndexIsPrefix' /\ WireSound'
  BY <1>1 DEF TableInv, IndexIsPrefix, WireSound
<1>3. LateSound'
  <2>1. CASE late' = late
    BY <2>1 DEF TableInv, LateSound
  <2>2. CASE wire[r] # Nil /\ Abandon(wire[r]) /\ late' # late
    <3>1. wire[r] \in [seq : Nat, rec : Record, landed : BOOLEAN] /\ wire[r].seq > Len(log)
      BY <2>2, TableTypes DEF Abandon
    <3>2. late' = late \cup {[seq |-> wire[r].seq, rec |-> wire[r].rec]}
      BY <2>2 DEF Abandon
    <3>3. /\ Len(index[r]) <= Len(log) /\ index[r] = SubSeq(log, 1, Len(index[r]))
          /\ wire[r].seq = Len(index[r]) + 1 /\ Sound(index[r], wire[r].rec)
      BY <2>2 DEF TableInv, IndexIsPrefix, WireSound
    <3>4. Len(index[r]) = Len(log)
      BY <3>1, <3>3, TableTypes
    <3>5. index[r] = log
      BY <3>3, <3>4, TableTypes, SubSeqFull
    <3>. QED BY <3>2, <3>3, <3>4, <3>5 DEF TableInv, LateSound
  <2>. QED BY <2>1, <2>2
<1>. QED BY <1>2, <1>3 DEF TableInv, TableSound

\* A replica with an index decides on a record only the ledger's checks let pass.
LEMMA LockedKeepsTable ==
    ASSUME TypeInv, TableInv, NEW r \in Replica, Locked(r)
    PROVE  TableInv'
<1>1. ASSUME NEW c \in Call, WriteDecision(r, c)
      PROVE  TableInv'
  <2>1. asmt[c] \in Assessment
    BY <1>1 DEF WriteDecision, TypeInv, PhaseInv, Waiting
  <2>2. View(r) \in Seq(Record)
    BY TableTypes DEF View
  <2>3. DecisionRow(c, View(r)) \in Record
    BY <2>1, <2>2, DecisionRowType
  <2>4. Sound(View(r), DecisionRow(c, View(r)))
    BY <1>1 DEF WriteDecision, Written, Sound, DecisionRow, Decision, Verdict, InForce
  <2>. QED BY <1>1, <2>3, <2>4, IssueKeepsTable DEF WriteDecision
<1>2. ASSUME NEW c \in Call, WriteOutcome(r, c)
      PROVE  TableInv'
  <2>. DEFINE row == Outcome(c, asmt[c].policy, clock, Tip(View(r)))
  <2>1. asmt[c] \in Assessment /\ clock \in Nat
    BY <1>2 DEF WriteOutcome, TypeInv, TypeOK, PhaseInv, Waiting
  <2>2. View(r) \in Seq(Record)
    BY TableTypes DEF View
  <2>3. row \in Record
    BY <2>1, <2>2, OutcomeType DEF Assessment
  <2>4. Sound(View(r), row)
    BY <1>2 DEF WriteOutcome, Sound, Outcome
  <2>. QED BY <1>2, <2>3, <2>4, IssueKeepsTable DEF WriteOutcome
<1>3. ASSUME NEW m \in Post, WritePolicy(r, m)
      PROVE  TableInv'
  <2>1. PolicyRecord(PolicyOf[m]) \in Record
    BY LedgerAssumption DEF PolicyRecord, Record
  <2>2. Sound(View(r), PolicyRecord(PolicyOf[m]))
    BY <1>3 DEF WritePolicy, Sound, PolicyRecord
  <2>. QED BY <1>3, <2>1, <2>2, IssueKeepsTable DEF WritePolicy
<1>4. ASSUME NEW c \in Call, WithholdDecision(r, c)
      PROVE  TableInv'
  BY <1>4, LoadKeepsTable DEF WithholdDecision
<1>5. ASSUME NEW m \in Post, RefusePolicy(r, m)
      PROVE  TableInv'
  BY <1>5, LoadKeepsTable DEF RefusePolicy
<1>6. ASSUME NEW o \in Op, LoadFailsUnderLock(r, o)
      PROVE  TableInv'
  BY <1>6, LoadKeepsTable DEF LoadFailsUnderLock
<1>. QED BY <1>1, <1>2, <1>3, <1>4, <1>5, <1>6 DEF Locked

LEMMA GateKeepsTable ==
    ASSUME TypeInv, TableInv, Gate \/ Submit \/ Tick \/ UNCHANGED vars
    PROVE  TableInv'
<1>. Replica # {} => \E r \in Replica : r \in Replica
  OBVIOUS
<1>1. ASSUME NEW c \in Call, Assess(c) \/ AssessUnread(c) \/ RequestDecision(c)
      PROVE  TableInv'
  <2>1. home[c] \in Replica
    BY <1>1 DEF Assess, AssessUnread, RequestDecision, TypeInv, PhaseInv, Waiting
  <2>2. CASE Assess(c)
    BY <2>1, <2>2, LoadKeepsTable DEF Assess, locks, store
  <2>3. CASE AssessUnread(c)
    BY <2>1, <2>3, LoadKeepsTable DEF AssessUnread, locks, store
  <2>4. CASE RequestDecision(c)
    BY <2>1, <2>4, LoadKeepsTable DEF RequestDecision, GatherSpent, store
  <2>. QED BY <1>1, <2>2, <2>3, <2>4
<1>2. CASE UNCHANGED <<store, memory, wire>>
  BY <1>2 DEF store, memory, TableInv, IndexIsPrefix, TableSound, LateSound, WireSound
<1>3. ASSUME NEW c \in Call, (\E r \in Replica : Arrive(c, r)) \/ ToolReturns(c)
      PROVE  TableInv'
  BY <1>2, <1>3 DEF Arrive, ToolReturns, locks
<1>4. CASE Submit
  BY <1>2, <1>4 DEF Submit, SubmitPolicy
<1>5. CASE Tick \/ UNCHANGED vars
  BY <1>2, <1>5 DEF Tick, vars, locks
<1>. QED BY <1>1, <1>3, <1>4, <1>5 DEF Gate

\* The steps of the specification keep what the table, the indexes and the
\* inserts under way have in common.
THEOREM TableStep == TypeInv /\ TableInv /\ [Next]_vars => TableInv'
<1>. SUFFICES ASSUME TypeInv, TableInv, [Next]_vars PROVE TableInv'
  OBVIOUS
<1>1. ASSUME NEW r \in Replica, InsertCollides(r) \/ InsertTimesOut(r)
      PROVE  TableInv'
  <2>1. \A q \in Replica : q # r => index'[q] = index[q] /\ next'[q] = next[q]
    BY <1>1, TableTypes DEF InsertCollides, InsertTimesOut, WriteFails
  <2>2. /\ UNCHANGED log
        /\ loaded' = [loaded EXCEPT ![r] = FALSE] /\ wire' = [wire EXCEPT ![r] = Nil]
    BY <1>1 DEF InsertCollides, InsertTimesOut, WriteFails, store
  <2>3. late' = late \/ (wire[r] # Nil /\ Abandon(wire[r]))
    BY <1>1 DEF InsertCollides, InsertTimesOut, store
  <2>. QED BY <2>1, <2>2, <2>3, GiveUpKeepsTable
<1>2. ASSUME NEW r \in Replica, Crash(r)
      PROVE  TableInv'
  <2>1. \A q \in Replica : q # r => index'[q] = index[q] /\ next'[q] = next[q]
    BY <1>2, TableTypes DEF Crash
  <2>2. /\ UNCHANGED log
        /\ loaded' = [loaded EXCEPT ![r] = FALSE] /\ wire' = [wire EXCEPT ![r] = Nil]
    BY <1>2 DEF Crash
  <2>3. late' = late \/ (wire[r] # Nil /\ Abandon(wire[r]))
    BY <1>2 DEF Crash
  <2>. QED BY <2>1, <2>2, <2>3, GiveUpKeepsTable
<1>. QED BY <1>1, <1>2, GateKeepsTable, LockedKeepsTable, InsertLandsKeepsTable,
            LateInsertLandsKeepsTable, AcknowledgeKeepsTable DEF Next, Answer

THEOREM InitTable == Init => TableInv
<1>. SUFFICES ASSUME Init PROVE TableInv
  OBVIOUS
<1>1. IndexIsPrefix /\ LateSound /\ WireSound
  BY DEF Init, IndexIsPrefix, LateSound, WireSound
<1>2. TableSound
  <2>1. CASE log = <<>>
    BY <2>1 DEF TableSound
  <2>2. ASSUME NEW p \in Policy, log = <<PolicyRecord(p)>>
        PROVE  TableSound
    <3>1. PoliciesOf(<<>>, p.subject) = {}
      BY DEF PoliciesOf
    <3>2. Sound(<<>>, PolicyRecord(p))
      BY <3>1 DEF Sound, PolicyRecord, NonceIsNew, LatestPolicy
    <3>3. DOMAIN log = {1} /\ log[1] = PolicyRecord(p)
      BY <2>2
    <3>4. SubSeq(log, 1, 1 - 1) = <<>>
      BY <2>2
    <3>5. ASSUME NEW j \in DOMAIN log
          PROVE  Sound(SubSeq(log, 1, j - 1), log[j])
      <4>1. j = 1
        BY <3>3, <3>5
      <4>. QED BY <3>2, <3>3, <3>4, <4>1
    <3>. QED BY <3>5 DEF TableSound
  <2>. QED BY <2>1, <2>2, LedgerAssumption DEF Init
<1>. QED BY <1>1, <1>2 DEF TableInv

THEOREM TableInvariant == Spec => [](TypeInv /\ TableInv)
<1>1. TypeInv /\ TableInv /\ [Next]_vars => (TypeInv /\ TableInv)'
  BY TypedStep, TableStep
<1>. QED BY <1>1, InitTyped, InitTable, PTL DEF Spec

-----------------------------------------------------------------------------
(* What TableInv says of the table.                                        *)

\* A usable index is a prefix of the table, and the sink's next seq is the one
\* after it, whatever the replicas do and the store loses (store.ts write).
THEOREM IndexesArePrefixes == Spec => []IndexIsPrefix
<1>1. TableInv => IndexIsPrefix
  BY DEF TableInv
<1>. QED BY <1>1, TableInvariant, PTL

\* A row of the table and the records before it.
LEMMA SoundRow ==
    ASSUME TypeInv, TableInv, NEW j \in DOMAIN log
    PROVE  /\ log[j] \in Record /\ j \in 1..Len(log)
           /\ SubSeq(log, 1, j - 1) \in Seq(Record)
           /\ Sound(SubSeq(log, 1, j - 1), log[j])
           /\ \A i \in 1..(j - 1) : /\ i \in DOMAIN SubSeq(log, 1, j - 1)
                                    /\ SubSeq(log, 1, j - 1)[i] = log[i]
<1>1. log \in Seq(Record) /\ j \in 1..Len(log) /\ j - 1 \in 0..Len(log)
  BY TableTypes
<1>2. /\ SubSeq(log, 1, j - 1) \in Seq(Record) /\ Len(SubSeq(log, 1, j - 1)) = j - 1
      /\ \A i \in 1..(j - 1) : SubSeq(log, 1, j - 1)[i] = log[i]
  BY <1>1, PrefixProperties
<1>. QED BY <1>1, <1>2 DEF TableInv, TableSound

\* verifyReceiptChain holds of the table in every reachable state: the chain of
\* receipts never forks (store.ts appendReceipt).
THEOREM ChainNeverForks == Spec => []ChainUnforked
<1>1. ASSUME TypeInv, TableInv, NEW i \in Receipts(log)
      PROVE  log[i].prev = Tip(SubSeq(log, 1, i - 1))
  <2>1. i \in DOMAIN log /\ log[i].kind = "receipt"
    BY DEF Receipts
  <2>. QED BY <1>1, <2>1, SoundRow DEF Sound, Admissible
<1>2. TypeInv /\ TableInv => ChainUnforked
  BY <1>1 DEF ChainUnforked, ChainOk
<1>. QED BY <1>2, TableInvariant, PTL

\* The table never takes a policy after one of the same agent with a nonce as
\* high, so a replayed older policy is never recorded (store.ts appendPolicy).
THEOREM NoncesAlwaysIncrease == Spec => []NoncesIncrease
<1>1. ASSUME TypeInv, TableInv, NEW i \in DOMAIN log, NEW j \in DOMAIN log, i < j,
             log[i].kind = "policy", log[j].kind = "policy",
             log[i].policy.subject = log[j].policy.subject
      PROVE  log[i].policy.nonce < log[j].policy.nonce
  <2>. DEFINE ix == SubSeq(log, 1, j - 1)
              subject == log[j].policy.subject
              cur == LatestPolicy(ix, subject)
  <2>1. /\ i \in DOMAIN ix /\ ix[i] = log[i] /\ ix \in Seq(Record)
        /\ Sound(ix, log[j]) /\ log[i] \in Record /\ log[j] \in Record
    <3>1. i \in 1..(j - 1)
      BY <1>1, SoundRow
    <3>. QED BY <1>1, <3>1, SoundRow
  <2>2. log[i].policy \in PoliciesOf(ix, subject)
    BY <1>1, <2>1 DEF PoliciesOf
  <2>3. cur \in PoliciesOf(ix, subject) /\ log[i].policy.nonce <= cur.nonce
    BY <2>1, <2>2, LatestPolicyIsLatest
  <2>4. cur \in Policy /\ log[i].policy \in Policy /\ log[j].policy \in Policy
    BY <1>1, <2>1, <2>3 DEF PoliciesOf, Record
  <2>5. cur.nonce < log[j].policy.nonce
    BY <1>1, <2>1, <2>4, RecordAssumption DEF Sound, NonceIsNew
  <2>. QED BY <2>3, <2>4, <2>5, RecordAssumption
<1>2. TypeInv /\ TableInv => NoncesIncrease
  BY <1>1 DEF NoncesIncrease
<1>. QED BY <1>2, TableInvariant, PTL

\* Two ALLOW rows of one authorization are the same row.
LEMMA AuthorizationsDiffer ==
    ASSUME TypeInv, TableInv, NEW i \in DOMAIN log, NEW j \in DOMAIN log,
           Consuming(log[i]), Consuming(log[j]), SameAuthorization(log[i], log[j])
    PROVE  i = j
<1>1. ASSUME NEW k \in DOMAIN log, NEW l \in DOMAIN log, k < l,
             Consuming(log[k]), Consuming(log[l])
      PROVE  KeyOf(log[k]) # KeyOf(log[l])
  <2>. DEFINE ix == SubSeq(log, 1, l - 1)
  <2>1. k \in DOMAIN ix /\ ix[k] = log[k] /\ Sound(ix, log[l])
    <3>1. k \in 1..(l - 1)
      BY <1>1, SoundRow
    <3>. QED BY <3>1, SoundRow
  <2>2. KeyOf(log[k]) \in Consumed(ix)
    BY <1>1, <2>1 DEF Consumed
  <2>3. KeyOf(log[l]) \notin Consumed(ix)
    BY <1>1, <2>1 DEF Sound, Admissible, Consuming
  <2>. QED BY <2>2, <2>3
<1>2. KeyOf(log[i]) = KeyOf(log[j])
  BY DEF SameAuthorization, KeyOf, AuthorizationKey
<1>3. i \in Nat /\ j \in Nat
  BY SoundRow
<1>. QED BY <1>1, <1>2, <1>3
=============================================================================
