---------------------------- MODULE EmergencyHalt ----------------------------
(***************************************************************************)
(* The global halt, mode enforce (src/src/services/emergency-halt.ts and   *)
(* src/src/middleware/emergency-halt.ts): one switch in the database, read *)
(* by a refresher on a timer and by the ticks of the workers, through a    *)
(* cache they share.  A read is asked, evaluated by the database and       *)
(* answered in three steps, so answers may arrive in another order.        *)
(***************************************************************************)
EXTENDS Integers

CONSTANTS
    Worker,     \* Ticks that call shouldParkForHalt.
    CacheMs, TimeoutMs, \* In ticks of the clock.
    Interval,   \* Of the refresher.
    Value,      \* What the column may hold: "off", "on", or "absent".
    MaxFlips,   \* Bounds the operator's changes.
    MaxFaults,  \* Bounds the reads that fail or overrun.
    LastTick,   \* Bounds the clock.
    None

Reader == Worker \cup {"refresher"}
Flag == {"off", "on"}

\* 5 s, 1 s and 5 s by default; a refresher's reads then never overlap.
ASSUME HaltAssumption ==
    /\ "refresher" \notin Worker /\ None \notin Flag
    /\ Value \subseteq {"off", "on", "absent"} /\ "off" \in Value
    /\ {CacheMs, TimeoutMs, Interval} \subseteq Nat \ {0}
    /\ TimeoutMs < Interval /\ TimeoutMs <= CacheMs
    /\ {MaxFlips, MaxFaults, LastTick} \subseteq Nat

VARIABLES
    switch,   \* trinity_system_config.emergency_halt
    had,      \* [tick -> the values the switch had in it]
    pulled,   \* When a good read showed the pull that still stands, or None.
    now, flips, faults,
    cachedFlag, cachedAt, failBackoffUntil, lastKnownGood, readFailing,
    read,     \* [Reader -> its read under way]
    due,      \* When the refresher's timer fires next.
    decision  \* [Worker -> its last decision]

db    == <<switch, had, flips, pulled>>
state == <<cachedFlag, cachedAt, failBackoffUntil, lastKnownGood, readFailing>>
vars  == <<db, now, faults, state, read, due, decision>>

NoRead == [pc |-> "idle", start |-> 0, answer |-> None]
NoDecision == [flag |-> None, source |-> "none", at |-> 0]

Init ==
    /\ switch = "off" /\ had = [t \in 0 .. LastTick |-> IF t = 0 THEN {"off"} ELSE {}]
    /\ pulled = None
    /\ now = 0 /\ flips = 0 /\ faults = 0
    /\ cachedFlag = None /\ cachedAt = 0 /\ failBackoffUntil = 0
    /\ lastKnownGood = None /\ readFailing = FALSE
    /\ read = [c \in Reader |-> NoRead]
    /\ due = 0
    /\ decision = [w \in Worker |-> NoDecision]

-----------------------------------------------------------------------------
(* checkEmergencyHalt *)

CacheOf(c) == IF c = "refresher" THEN 0 ELSE CacheMs

Decide(c, flag, source) ==
    decision' = IF c = "refresher" THEN decision
                ELSE [decision EXCEPT ![c] = [flag |-> flag, source |-> source, at |-> now]]

\* Never starts a halt, never lifts one.
FailDecision(c) ==
    IF lastKnownGood = "on" THEN Decide(c, "on", "error_sticky") ELSE Decide(c, "off", "error_open")

Cached(c) == cachedFlag # None /\ now - cachedAt < CacheOf(c)

Ask(c) ==
    /\ read[c].pc = "idle"
    /\ IF Cached(c) THEN Decide(c, cachedFlag, "cache") /\ UNCHANGED read
       ELSE IF now < failBackoffUntil THEN FailDecision(c) /\ UNCHANGED read
       ELSE /\ read' = [read EXCEPT ![c] = [pc |-> "asked", start |-> now, answer |-> None]]
            /\ UNCHANGED decision

\* The database evaluates the query.
Evaluate(c) ==
    /\ read[c].pc = "asked"
    /\ read' = [read EXCEPT ![c].pc = "evaluated", ![c].answer = switch]
    /\ UNCHANGED <<db, now, faults, state, due, decision>>

Answered(c) == read' = [read EXCEPT ![c] = NoRead]

\* Mutated: the age of an answer counts from its arrival.
StoreAtArrival(c) ==
    /\ cachedFlag' = read[c].answer
    /\ cachedAt' = now
    /\ lastKnownGood' = read[c].answer
    /\ readFailing' = FALSE
    /\ failBackoffUntil' = 0

\* Mutated: what the guard peeks at is not set.
StoreForWorkersOnly(c) ==
    /\ cachedFlag' = read[c].answer
    /\ cachedAt' = read[c].start
    /\ readFailing' = FALSE
    /\ failBackoffUntil' = 0
    /\ UNCHANGED lastKnownGood

\* A good answer, dated by when it was asked for.
Store(c) ==
    /\ cachedFlag' = read[c].answer
    /\ cachedAt' = read[c].start
    /\ lastKnownGood' = read[c].answer
    /\ readFailing' = FALSE
    /\ failBackoffUntil' = 0

\* A read that found no column: known not halted.
StoreAbsent ==
    /\ lastKnownGood' = "off"
    /\ readFailing' = FALSE
    /\ UNCHANGED <<cachedFlag, cachedAt, failBackoffUntil>>

Arrive(c) ==
    /\ read[c].pc = "evaluated"
    /\ Answered(c)
    /\ IF read[c].answer = "absent"
       THEN StoreAbsent /\ Decide(c, "off", "column_absent")
       ELSE Store(c) /\ Decide(c, read[c].answer, "db")
    /\ pulled' = IF pulled = None /\ read[c].answer = "on" /\ switch = "on" THEN now ELSE pulled
    /\ UNCHANGED <<switch, had, flips, now, faults, due>>

\* Mutated: a failed read leaves the guard's view as it was.
FailQuietly(c) ==
    /\ failBackoffUntil' = read[c].start + CacheOf(c)
    /\ UNCHANGED <<readFailing, cachedFlag, cachedAt, lastKnownGood>>

Fail(c) ==
    /\ failBackoffUntil' = read[c].start + CacheOf(c)
    /\ readFailing' = TRUE
    /\ UNCHANGED <<cachedFlag, cachedAt, lastKnownGood>>

\* An error, or an answer that has not come in time; a later one is dropped.
FailRead(c) ==
    /\ read[c].pc # "idle"
    /\ faults < MaxFaults /\ faults' = faults + 1
    /\ Answered(c)
    /\ Fail(c)
    /\ FailDecision(c)
    /\ UNCHANGED <<db, now, due>>

-----------------------------------------------------------------------------
(* Who reads, and the guard *)

\* shouldParkForHalt
WorkerTick(w) == Ask(w) /\ UNCHANGED <<db, now, faults, state, due>>

Refresh ==
    /\ due = now
    /\ due' = now + Interval
    /\ Ask("refresher")
    /\ UNCHANGED <<db, now, faults, state>>

\* peekHaltState, and emergencyHaltGuard failing closed.
Known == IF lastKnownGood # None THEN lastKnownGood ELSE cachedFlag
Halted == Known = "on"
Admits == ~Halted /\ Known # None /\ ~readFailing

-----------------------------------------------------------------------------
(* The operator and the clock *)

Flip(v) ==
    /\ flips < MaxFlips /\ flips' = flips + 1
    /\ v # switch /\ switch' = v
    /\ had' = [had EXCEPT ![now] = @ \cup {v}]
    /\ pulled' = None
    /\ UNCHANGED <<now, faults, state, read, due, decision>>

\* Timers fire when they are due: no read outlives its timeout.
Tick ==
    /\ now < LastTick
    /\ due > now
    /\ \A c \in Reader : read[c].pc # "idle" => now - read[c].start < TimeoutMs
    /\ now' = now + 1
    /\ had' = [had EXCEPT ![now + 1] = {switch}]
    /\ UNCHANGED <<switch, flips, pulled, faults, state, read, due, decision>>

Next ==
    \/ \E c \in Reader : Evaluate(c) \/ Arrive(c) \/ FailRead(c)
    \/ \E w \in Worker : WorkerTick(w)
    \/ Refresh
    \/ \E v \in Value : Flip(v)
    \/ Tick

Spec == Init /\ [][Next]_vars
=============================================================================
