-------------------------- MODULE KernelInvariant --------------------------
(***************************************************************************)
(* The inductive invariant of KernelLedger: why the primary key of the     *)
(* table and each replica's own lock are enough.                           *)
(*                                                                         *)
(* Every record on the table, and every insert that can still execute, is  *)
(* sound: what the ledger checked before it sent the record still holds of *)
(* the records before its place.  A replica checks a record on its index.  *)
(* The index is a prefix of the table, and the record's place is the one   *)
(* after the index; so when the insert executes, that prefix is the table. *)
(***************************************************************************)
EXTENDS KernelProperties

\* The calls and posts in a lock's queue are that replica's, each there once, and
\* each awaits its append; an insert under way is the queue head's.
LockInv ==
    \A r \in Replica :
        /\ \A i \in DOMAIN queue[r] : /\ home[queue[r][i]] = r
                                      /\ pc[queue[r][i]] \in {"decision", "outcome", "policy"}
        /\ \A i, j \in DOMAIN queue[r] : queue[r][i] = queue[r][j] => i = j
        /\ wire[r] # Nil => queue[r] # <<>>

Assessment == [now : Nat, policy : Policy \cup {Nil}, clear : BOOLEAN]

PhaseInv ==
    /\ \A c \in Call : pc[c] \in Waiting => /\ pc[c] # "policy"
                                            /\ home[c] \in Replica
                                            /\ asmt[c] \in Assessment
    /\ \A m \in Post : pc[m] \in {"idle", "policy", "dead"} \cup Answered

TypeInv == TypeOK /\ LockInv /\ PhaseInv

-----------------------------------------------------------------------------
\* What the ledger checks of rec on the records ix before it writes it.
Sound(ix, rec) ==
    IF rec.kind = "policy" THEN NonceIsNew(ix, rec.policy)
    ELSE /\ Admissible(ix, rec)
         /\ rec.verdict = "ALLOW" /\ ~rec.executed => rec.policy # Nil

TableSound == \A j \in DOMAIN log : Sound(SubSeq(log, 1, j - 1), log[j])

LateSound == \A ins \in late : ins.seq = Len(log) + 1 /\ Sound(log, ins.rec)

\* An insert under way was checked on the whole index, and goes right after it.
WireSound ==
    \A r \in Replica : wire[r] # Nil =>
        /\ loaded[r]
        /\ wire[r].seq = Len(index[r]) + 1
        /\ Sound(index[r], wire[r].rec)
        /\ wire[r].landed => wire[r].seq <= Len(log) /\ log[wire[r].seq] = wire[r].rec

TableInv == IndexIsPrefix /\ TableSound /\ LateSound /\ WireSound

-----------------------------------------------------------------------------
\* The insert under way is the row the queue head awaits.
WireIsHead(r) ==
    LET o == Head(queue[r])  rec == wire[r].rec
    IN  IF pc[o] = "policy" THEN rec.kind = "policy"
        ELSE rec.kind = "receipt" /\ rec.call = o /\ (rec.executed <=> pc[o] = "outcome")

WireIsHeads == \A r \in Replica : wire[r] # Nil => WireIsHead(r)

\* A call let through has its ALLOW row on the table; a tool runs only for one.
GrantsRecorded == \A c \in granted : \E i \in DOMAIN log : Consuming(log[i]) /\ log[i].call = c
RunsGranted == \A c \in Call : pc[c] \in {"running", "outcome"} => c \in granted

-----------------------------------------------------------------------------
\* The two rows of a call: its decision and its outcome.  A row is out of its
\* call's hands once the call has gone on to a later phase; before that it is in
\* the table only if it has landed and waits to be acknowledged.
RowPhase == {"decision", "outcome"}

IsRow(rec, c, phase) ==
    rec.kind = "receipt" /\ rec.call = c /\ (rec.executed <=> phase = "outcome")

After(phase) ==
    IF phase = "outcome" THEN {"recorded", "unrecorded", "dead"}
    ELSE {"blocked", "allowed", "running", "outcome", "recorded", "unrecorded", "dead"}

Settled(c, phase) == pc[c] \in After(phase)
Pending(c, phase) == /\ pc[c] = phase
                     /\ \E r \in Replica : wire[r] # Nil /\ wire[r].landed /\ Head(queue[r]) = c

\* A call sends each row once, and one that may still land has not landed.
RowsOnce ==
    \A c \in Call, phase \in RowPhase :
        /\ \A j \in DOMAIN log : IsRow(log[j], c, phase) => Settled(c, phase) \/ Pending(c, phase)
        /\ \A i, j \in DOMAIN log : IsRow(log[i], c, phase) /\ IsRow(log[j], c, phase) => i = j
        /\ \A ins \in late : IsRow(ins.rec, c, phase) =>
              Settled(c, phase) /\ \A j \in DOMAIN log : ~IsRow(log[j], c, phase)

-----------------------------------------------------------------------------
\* A receipt is dated by the clock and made under a policy of its own agent, and
\* an outcome is that of a call that was let through.
GroundedIn(rec, now, calls) ==
    rec.kind = "receipt" =>
        /\ rec.ts <= now
        /\ rec.policy # Nil => rec.policy.subject = Request[rec.call].agent
        /\ rec.executed => rec.call \in calls

Grounded(rec) == GroundedIn(rec, clock, granted)

RecordsGrounded ==
    /\ \A j \in DOMAIN log : Grounded(log[j])
    /\ \A ins \in late : Grounded(ins.rec)
    /\ \A r \in Replica : wire[r] # Nil => Grounded(wire[r].rec)

\* What a call read before the lock is no later than the clock, and its policy is
\* one of its agent's.
AssessmentsGrounded ==
    /\ clock <= MaxClock
    /\ \A c \in Call : pc[c] \in Waiting =>
          /\ asmt[c].now <= clock
          /\ asmt[c].policy # Nil => asmt[c].policy.subject = Request[c].agent

-----------------------------------------------------------------------------
IInv == /\ TypeInv /\ TableInv
        /\ WireIsHeads /\ GrantsRecorded /\ RunsGranted
        /\ RowsOnce
        /\ RecordsGrounded /\ AssessmentsGrounded
=============================================================================
