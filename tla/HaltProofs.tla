------------------------------ MODULE HaltProofs ------------------------------
(***************************************************************************)
(* Theorems about the emergency halt, for any workers, timeouts, intervals *)
(* and lives of the cache, any flips of the switch and failed reads.       *)
(***************************************************************************)
EXTENDS HaltInvariant, TLAPS

-----------------------------------------------------------------------------
(* Evidence *)

\* What was true of the past stays true.
LEMMA SinceStands ==
    ASSUME TypeOK, now' \in Nat, now <= now', \A t \in 0 .. now : had[t] \subseteq had'[t],
           NEW value, NEW from \in Int, Since(value, from), NEW later \in Int, later <= from
    PROVE  Since(value, later)'
<1>1. PICK t \in 0 .. now : from <= t /\ value \in had[t]
  BY DEF Since
<1>2. now \in Nat /\ t \in Int
  BY HaltAssumption DEF TypeOK
<1>3. t \in 0 .. now' /\ later <= t /\ value \in had'[t]
  BY <1>1, <1>2
<1> QED
  BY <1>3 DEF Since

\* Evidence since then is evidence in the window that ends now or later.
LEMMA SinceIsHad ==
    ASSUME TypeOK, NEW value, NEW from \in Int, Since(value, from),
           NEW length \in Int, now - length <= from
    PROVE  Had(value, now, length)
<1>1. PICK t \in 0 .. now : from <= t /\ value \in had[t]
  BY DEF Since
<1>2. now \in 0 .. LastTick /\ LastTick \in Nat
  BY HaltAssumption DEF TypeOK
<1>3. t \in Window(now, length)
  BY <1>1, <1>2 DEF Window
<1> QED
  BY <1>1, <1>3 DEF Had

\* What a window showed it goes on showing.
LEMMA HadStands ==
    ASSUME \A t \in 0 .. LastTick : had[t] \subseteq had'[t],
           NEW value, NEW last, NEW length, Had(value, last, length)
    PROVE  Had(value, last, length)'
BY DEF Had, Window

LEMMA ShowedStands ==
    ASSUME TypeOK, now' \in Nat, now <= now', \A t \in 0 .. now : had[t] \subseteq had'[t],
           UNCHANGED lastKnownGood,
           NEW from \in Int, Showed(from), NEW later \in Int, later <= from
    PROVE  Showed(later)'
BY SinceStands DEF Showed

LEMMA ShowedEarlier ==
    ASSUME TypeOK, NEW from \in Int, Showed(from), NEW earlier \in Int, earlier <= from
    PROVE  Showed(earlier)
<1> SUFFICES ASSUME NEW value, Since(value, from)
             PROVE  Since(value, earlier)
  BY DEF Showed
<1>1. PICK t \in 0 .. now : from <= t /\ value \in had[t]
  BY DEF Since
<1>2. now \in Nat /\ t \in Int
  BY HaltAssumption DEF TypeOK
<1> QED
  BY <1>1, <1>2 DEF Since

-----------------------------------------------------------------------------
(* Who decides what *)

LEMMA Numbers ==
    ASSUME TypeOK
    PROVE  /\ CacheMs \in Nat /\ TimeoutMs \in Nat /\ Interval \in Nat /\ Slack \in Nat /\ LastTick \in Nat
           /\ CacheMs > 0 /\ TimeoutMs > 0 /\ TimeoutMs <= CacheMs
           /\ Slack = IF "absent" \in Value THEN CacheMs ELSE 0
           /\ now \in Nat /\ cachedAt \in Nat /\ failBackoffUntil \in Nat /\ due \in Nat
           /\ now <= LastTick /\ cachedAt <= now /\ failBackoffUntil <= now + CacheMs
           /\ now <= due /\ due <= now + Interval
           /\ \A c \in Reader : read[c].start \in Nat /\ read[c].start <= now
           /\ Round \in Nat /\ Round <= now + Interval
<1>1. /\ CacheMs \in Nat /\ TimeoutMs \in Nat /\ Interval \in Nat /\ LastTick \in Nat
      /\ CacheMs > 0 /\ TimeoutMs > 0 /\ TimeoutMs <= CacheMs
  BY HaltAssumption
<1>2. now \in Nat /\ now <= LastTick
  BY <1>1 DEF TypeOK
<1>3. /\ cachedAt \in Nat /\ failBackoffUntil \in Nat /\ due \in Nat
      /\ cachedAt <= now /\ failBackoffUntil <= now + CacheMs
      /\ now <= due /\ due <= now + Interval
  BY <1>1, <1>2 DEF TypeOK
<1>4. \A c \in Reader : read[c].start \in Nat /\ read[c].start <= now
  BY <1>2 DEF TypeOK
<1>5. Round \in Nat /\ Round <= now + Interval
  BY <1>1, <1>2, <1>3, <1>4 DEF Round, Reader
<1> QED
  BY <1>1, <1>2, <1>3, <1>4, <1>5 DEF Slack

\* What a worker's decisions say: their type, and that those made on a good read
\* are fresh.
Decisions ==
    [Worker -> [flag : Flag \cup {None}, at : 0 .. now,
                source : {"none", "db", "cache", "column_absent", "error_open", "error_sticky"}]]

FreshDecision(flag, source) ==
    /\ source \in {"db", "cache"} => Had(flag, now, Larger(CacheMs - 1, TimeoutMs))
    /\ source = "column_absent" => Had("absent", now, TimeoutMs)

\* A decision that is fresh now joins the others.
LEMMA DecideGood ==
    ASSUME TypeOK, AnswersAreFresh, NEW c \in Reader, NEW flag \in Flag,
           NEW source \in {"db", "cache", "column_absent", "error_open", "error_sticky"},
           FreshDecision(flag, source), Decide(c, flag, source), UNCHANGED <<now, had>>
    PROVE  decision' \in Decisions' /\ AnswersAreFresh'
<1>1. decision \in Decisions /\ now \in 0 .. now
  BY Numbers DEF TypeOK, Decisions
<1>2. CASE c = "refresher"
  BY <1>1, <1>2 DEF Decide, Decisions, AnswersAreFresh, Had, Window
<1>3. CASE c # "refresher"
  <2> DEFINE rec == [flag |-> flag, source |-> source, at |-> now]
  <2>1. c \in Worker /\ decision' = [decision EXCEPT ![c] = rec]
    BY <1>3 DEF Decide, Reader
  <2>2. decision' \in Decisions'
    BY <1>1, <2>1 DEF Decisions
  <2>3. \A w \in Worker : decision'[w] = IF w = c THEN rec ELSE decision[w]
    BY <1>1, <2>1 DEF Decisions
  <2>4. AnswersAreFresh'
    BY <2>3 DEF AnswersAreFresh, FreshDecision, Had, Window
  <2> QED
    BY <2>2, <2>4
<1> QED
  BY <1>2, <1>3

LEMMA FailDecisionGood ==
    ASSUME TypeOK, AnswersAreFresh, NEW c \in Reader, FailDecision(c), UNCHANGED <<now, had>>
    PROVE  decision' \in Decisions' /\ AnswersAreFresh'
BY DecideGood DEF FailDecision, FreshDecision, Flag

\* Decisions that nobody touches stay fresh, as time goes on.
LEMMA DecisionsStand ==
    ASSUME TypeOK, AnswersAreFresh, UNCHANGED decision, now' \in Nat, now <= now',
           \A t \in 0 .. LastTick : had[t] \subseteq had'[t]
    PROVE  decision' \in Decisions' /\ AnswersAreFresh'
<1>1. decision' \in Decisions'
  BY Numbers DEF TypeOK, Decisions
<1>2. AnswersAreFresh'
  BY HadStands DEF AnswersAreFresh
<1> QED
  BY <1>1, <1>2

-----------------------------------------------------------------------------
(* The reads *)

ReadRecord == [pc : {"idle", "asked", "evaluated"}, start : 0 .. now, answer : Value \cup {None}]

\* Everything but the reads, the decisions and the cache stands.
LEMMA AskGood ==
    ASSUME IInv, NEW c \in Reader, Ask(c), UNCHANGED <<db, now, faults, state>>
    PROVE  /\ read' \in [Reader -> ReadRecord]
           /\ ReadsAreYoung'
           /\ decision' \in Decisions' /\ AnswersAreFresh'
           /\ \A x \in Reader \ {c} : read'[x] = read[x]
           /\ read[c].pc = "idle"
           /\ \/ read'[c].pc = "asked" /\ read'[c].start = now
              \/ read' = read /\ (Cached(c) \/ now < failBackoffUntil)
<1>1. read \in [Reader -> ReadRecord] /\ now \in Nat /\ had' = had /\ now' = now
  BY Numbers DEF IInv, TypeOK, ReadRecord, db
<1>2. CASE Cached(c) /\ Decide(c, cachedFlag, "cache") /\ UNCHANGED read
  <2>1. cachedFlag \in Flag
    BY <1>2 DEF Cached, IInv, TypeOK
  <2>2. Had(cachedFlag, now, Larger(CacheMs - 1, TimeoutMs))
    <3>1. Since(cachedFlag, cachedAt) /\ now - cachedAt < CacheOf(c)
      BY <1>2 DEF Cached, IInv, CacheIsDated
    <3>2. now - Larger(CacheMs - 1, TimeoutMs) <= cachedAt /\ Larger(CacheMs - 1, TimeoutMs) \in Int
      BY <3>1, Numbers DEF CacheOf, Larger, IInv
    <3> QED
      BY <3>1, <3>2, SinceIsHad, Numbers DEF IInv
  <2>3. FreshDecision(cachedFlag, "cache")
    BY <2>2 DEF FreshDecision
  <2>4. decision' \in Decisions' /\ AnswersAreFresh'
    BY <1>1, <1>2, <2>1, <2>3, DecideGood DEF IInv
  <2> QED
    BY <1>1, <1>2, <2>4 DEF Ask, IInv, ReadsAreYoung, Since
<1>3. CASE now < failBackoffUntil /\ FailDecision(c) /\ UNCHANGED read
  <2>1. decision' \in Decisions' /\ AnswersAreFresh'
    BY <1>1, <1>3, FailDecisionGood DEF IInv
  <2> QED
    BY <1>1, <1>3, <2>1 DEF Ask, IInv, ReadsAreYoung, Since
<1>4. CASE /\ read' = [read EXCEPT ![c] = [pc |-> "asked", start |-> now, answer |-> None]]
           /\ UNCHANGED decision
  <2> DEFINE rec == [pc |-> "asked", start |-> now, answer |-> None]
  <2>1. rec \in ReadRecord
    BY <1>1 DEF ReadRecord
  <2>2. read' \in [Reader -> ReadRecord] /\ \A x \in Reader : read'[x] = IF x = c THEN rec ELSE read[x]
    BY <1>1, <1>4, <2>1
  <2>3. ReadsAreYoung'
    BY <1>1, <2>2, Numbers DEF IInv, ReadsAreYoung, Since
  <2>4. decision' \in Decisions' /\ AnswersAreFresh'
    BY <1>1, <1>4, DecisionsStand DEF IInv
  <2> QED
    BY <2>2, <2>3, <2>4 DEF Ask
<1> QED
  BY <1>2, <1>3, <1>4 DEF Ask

\* The view of the guard, while its own parts and the time stand still.
LEMMA ViewStands ==
    ASSUME IInv, UNCHANGED <<now, had, lastKnownGood, readFailing, failBackoffUntil>>, Round' = Round
    PROVE  ViewIsDated'
BY DEF IInv, ViewIsDated, Showed, Since

\* The view stays dated while the switch moves and the time goes on.
LEMMA ViewLasts ==
    ASSUME IInv, UNCHANGED <<lastKnownGood, readFailing, failBackoffUntil>>, Round' = Round,
           now' \in Nat, now <= now', \A t \in 0 .. now : had[t] \subseteq had'[t]
    PROVE  ViewIsDated'
<1> SUFFICES ASSUME lastKnownGood # None, ~readFailing
             PROVE  /\ Showed(Round - Interval - Slack - TimeoutMs)'
                    /\ Showed(failBackoffUntil - CacheMs - TimeoutMs)'
  BY DEF ViewIsDated
<1>1. PICK e1 \in Int, e2 \in Int :
        /\ e1 = Round - Interval - Slack - TimeoutMs
        /\ e2 = failBackoffUntil - CacheMs - TimeoutMs
  BY Numbers DEF IInv
<1>2. Showed(e1) /\ Showed(e2)
  BY <1>1 DEF IInv, ViewIsDated
<1>3. Showed(e1)' /\ Showed(e2)'
  BY <1>2, ShowedStands DEF IInv
<1> QED
  BY <1>1, <1>3 DEF Slack

LEMMA WorkerTickGood ==
    ASSUME IInv, NEW w \in Worker, WorkerTick(w)
    PROVE  IInv'
<1>1. w \in Reader /\ w # "refresher"
  BY HaltAssumption DEF Reader
<1>2. UNCHANGED <<db, now, faults, state, due>> /\ Ask(w)
  BY DEF WorkerTick
<1>3. /\ read' \in [Reader -> ReadRecord] /\ ReadsAreYoung'
      /\ decision' \in Decisions' /\ AnswersAreFresh'
      /\ read'["refresher"] = read["refresher"]
  <2>1. "refresher" \in Reader \ {w}
    BY <1>1 DEF Reader
  <2> QED
    BY <1>1, <1>2, <2>1, AskGood
<1>4. TypeOK'
  BY <1>2, <1>3 DEF IInv, TypeOK, db, state, ReadRecord, Decisions
<1>5. ViewIsDated'
  BY <1>2, <1>3, ViewStands DEF Round, db, state
<1>6. HistoryIsPast' /\ CacheIsDated' /\ BackoffEnds'
  BY <1>2 DEF IInv, HistoryIsPast, CacheIsDated, Since, BackoffEnds, db, state
<1> QED
  BY <1>3, <1>4, <1>5, <1>6 DEF IInv

\* The timer fires: a read is under way, or the back-off of a missing column
\* skips this round.
LEMMA RefreshGood ==
    ASSUME IInv, Refresh
    PROVE  IInv'
<1>1. /\ UNCHANGED <<db, now, faults, state>> /\ Ask("refresher")
      /\ due = now /\ due' = now + Interval /\ "refresher" \in Reader
  BY DEF Refresh, Reader
<1>2. /\ read' \in [Reader -> ReadRecord] /\ ReadsAreYoung'
      /\ decision' \in Decisions' /\ AnswersAreFresh'
      /\ read["refresher"].pc = "idle"
      /\ \/ read'["refresher"].pc = "asked" /\ read'["refresher"].start = now
         \/ read' = read /\ (Cached("refresher") \/ now < failBackoffUntil)
  BY <1>1, AskGood
<1>3. ~Cached("refresher")
  BY Numbers DEF Cached, CacheOf, IInv
<1>4. TypeOK'
  <2>1. due' \in now' .. now' + Interval
    BY <1>1, Numbers DEF IInv
  <2> QED
    BY <1>1, <1>2, <2>1 DEF IInv, TypeOK, db, state, ReadRecord, Decisions
<1>5. ViewIsDated'
  <2>1. CASE read'["refresher"].pc = "asked" /\ read'["refresher"].start = now
    BY <1>1, <1>2, <2>1, ViewStands DEF Round, db, state
  <2>2. CASE read' = read /\ now < failBackoffUntil
    <3> SUFFICES ASSUME lastKnownGood # None, ~readFailing
                 PROVE  /\ Showed(Round - Interval - Slack - TimeoutMs)'
                        /\ Showed(failBackoffUntil - CacheMs - TimeoutMs)'
      BY <1>1 DEF ViewIsDated, state
    <3>1. Showed(failBackoffUntil - CacheMs - TimeoutMs)
      BY DEF IInv, ViewIsDated
    <3>2. "absent" \in Value
      BY <2>2, Numbers DEF IInv, BackoffEnds
    <3>3. Round' = now + Interval
      BY <1>1, <1>2, <2>2 DEF Round
    <3>4. /\ failBackoffUntil - CacheMs - TimeoutMs \in Int
          /\ Round' - Interval - Slack - TimeoutMs \in Int
          /\ Round' - Interval - Slack - TimeoutMs <= failBackoffUntil - CacheMs - TimeoutMs
      BY <2>2, <3>2, <3>3, Numbers DEF IInv
    <3>5. Showed(Round' - Interval - Slack - TimeoutMs)
      BY <3>1, <3>4, ShowedEarlier DEF IInv
    <3> QED
      BY <1>1, <3>1, <3>5 DEF Showed, Since, db, state, Slack
  <2> QED
    BY <1>2, <1>3, <2>1, <2>2
<1>6. HistoryIsPast' /\ CacheIsDated' /\ BackoffEnds'
  BY <1>1 DEF IInv, HistoryIsPast, CacheIsDated, Since, BackoffEnds, db, state
<1> QED
  BY <1>2, <1>4, <1>5, <1>6 DEF IInv

LEMMA EvaluateGood ==
    ASSUME IInv, NEW c \in Reader, Evaluate(c)
    PROVE  IInv'
<1>1. /\ read[c].pc = "asked"
      /\ read' = [read EXCEPT ![c].pc = "evaluated", ![c].answer = switch]
      /\ UNCHANGED <<db, now, faults, state, due, decision>>
  BY DEF Evaluate
<1> DEFINE rec == [read[c] EXCEPT !.pc = "evaluated", !.answer = switch]
<1>2. read[c] \in ReadRecord /\ switch \in Value /\ read \in [Reader -> ReadRecord]
  BY DEF IInv, TypeOK, ReadRecord
<1>3. rec \in ReadRecord /\ rec.pc = "evaluated" /\ rec.answer = switch /\ rec.start = read[c].start
  BY <1>2 DEF ReadRecord
<1>4. read' = [read EXCEPT ![c] = rec]
  BY <1>1, <1>2
<1> HIDE DEF rec
<1>5. read' \in [Reader -> ReadRecord] /\ \A x \in Reader : read'[x] = IF x = c THEN rec ELSE read[x]
  BY <1>2, <1>3, <1>4
<1>6. TypeOK'
  BY <1>1, <1>5 DEF IInv, TypeOK, db, state, ReadRecord
<1>7. ReadsAreYoung'
  <2>1. Since(switch, read[c].start)
    BY Numbers DEF IInv, HistoryIsPast, Since
  <2>2. now <= read[c].start + TimeoutMs
    BY <1>1 DEF IInv, ReadsAreYoung
  <2>3. now' = now /\ had' = had
    BY <1>1 DEF db
  <2>4. \A x \in Reader : /\ read[x].pc # "idle" => now <= read[x].start + TimeoutMs
                          /\ read[x].pc = "evaluated" => Since(read[x].answer, read[x].start)
    BY DEF IInv, ReadsAreYoung
  <2> SUFFICES ASSUME NEW x \in Reader
               PROVE  /\ read'[x].pc # "idle" => now <= read'[x].start + TimeoutMs
                      /\ read'[x].pc = "evaluated" => Since(read'[x].answer, read'[x].start)
    BY <2>3 DEF ReadsAreYoung, Since
  <2>5. CASE x = c
    BY <1>3, <1>5, <2>1, <2>2, <2>5
  <2>6. CASE x # c
    BY <1>5, <2>4, <2>6
  <2> QED
    BY <2>5, <2>6
<1>8. Round' = Round
  BY <1>1, <1>3, <1>5 DEF Round, Reader
<1>9. /\ ViewIsDated'
      /\ HistoryIsPast' /\ CacheIsDated' /\ BackoffEnds' /\ AnswersAreFresh'
  BY <1>1, <1>8, ViewStands DEF IInv, HistoryIsPast, CacheIsDated, Since, BackoffEnds,
     AnswersAreFresh, Had, Window, db, state
<1> QED
  BY <1>6, <1>7, <1>9 DEF IInv

\* A reader is idle again; the others go on.
LEMMA AnsweredGood ==
    ASSUME IInv, NEW c \in Reader, Answered(c), UNCHANGED <<now, had, due>>
    PROVE  /\ read' \in [Reader -> ReadRecord'] /\ ReadsAreYoung'
           /\ Round' \in Int /\ Round' <= now + Interval
<1>1. read \in [Reader -> ReadRecord] /\ NoRead \in ReadRecord /\ NoRead.pc = "idle"
  BY Numbers DEF IInv, TypeOK, ReadRecord, NoRead
<1>2. \A x \in Reader : read'[x] = IF x = c THEN NoRead ELSE read[x]
  BY <1>1 DEF Answered
<1>3. read' \in [Reader -> ReadRecord']
  BY <1>1 DEF Answered, ReadRecord
<1>4. ReadsAreYoung'
  BY <1>1, <1>2 DEF IInv, ReadsAreYoung, Since
<1>5. Round' \in Int /\ Round' <= now + Interval
  BY <1>1, <1>2, Numbers DEF Round, Reader, IInv
<1> QED
  BY <1>3, <1>4, <1>5

LEMMA FailReadGood ==
    ASSUME IInv, NEW c \in Reader, FailRead(c)
    PROVE  IInv'
<1>1. /\ Answered(c) /\ Fail(c) /\ FailDecision(c) /\ UNCHANGED <<db, now, due>>
      /\ faults < MaxFaults /\ faults' = faults + 1
  BY DEF FailRead
<1>2. read' \in [Reader -> ReadRecord'] /\ ReadsAreYoung'
  BY <1>1, AnsweredGood DEF db
<1>3. decision' \in Decisions' /\ AnswersAreFresh'
  BY <1>1, FailDecisionGood DEF IInv, db
<1>4. failBackoffUntil' \in 0 .. now + CacheMs
  BY <1>1, Numbers DEF Fail, CacheOf, IInv
<1>5. faults' \in 0 .. MaxFaults /\ faults' > 0
  BY <1>1, HaltAssumption DEF IInv, TypeOK
<1>6. TypeOK'
  BY <1>1, <1>2, <1>3, <1>4, <1>5 DEF Fail, IInv, TypeOK, db, ReadRecord, Decisions
<1>7. readFailing' /\ HistoryIsPast' /\ CacheIsDated'
  BY <1>1 DEF Fail, IInv, HistoryIsPast, CacheIsDated, Since, db
<1> QED
  BY <1>2, <1>3, <1>6, <1>7 DEF IInv, ViewIsDated, BackoffEnds

\* A good answer: what it shows, the switch showed since the read was asked.
LEMMA ArriveGood ==
    ASSUME IInv, NEW c \in Reader, Arrive(c)
    PROVE  IInv'
<1>0. PICK answer, start : answer = read[c].answer /\ start = read[c].start
  OBVIOUS
<1>1. /\ read[c].pc = "evaluated" /\ Answered(c)
      /\ UNCHANGED <<switch, had, flips, now, faults, due>>
      /\ pulled' = IF pulled = None /\ answer = "on" /\ switch = "on" THEN now ELSE pulled
  BY <1>0 DEF Arrive
<1>2. /\ Since(answer, start) /\ start \in Nat
      /\ now - TimeoutMs <= start /\ now - TimeoutMs \in Int
  BY <1>0, <1>1, Numbers DEF IInv, ReadsAreYoung
<1>3. answer \in Value /\ Value \subseteq {"off", "on", "absent"}
  <2>1. PICK t \in 0 .. now : answer \in had[t]
    BY <1>2 DEF Since
  <2>2. had[t] \subseteq Value
    <3>1. t \in 0 .. LastTick
      BY Numbers DEF IInv
    <3> QED
      BY <3>1 DEF IInv, TypeOK
  <2> QED
    BY <2>1, <2>2, HaltAssumption
<1>4. read' \in [Reader -> ReadRecord'] /\ ReadsAreYoung' /\ Round' \in Int /\ Round' <= now + Interval
  BY <1>1, AnsweredGood
<1>5. Had(answer, now, TimeoutMs) /\ Had(answer, now, Larger(CacheMs - 1, TimeoutMs))
  <2>1. /\ Larger(CacheMs - 1, TimeoutMs) \in Int /\ TimeoutMs \in Int
        /\ now - Larger(CacheMs - 1, TimeoutMs) <= start
    BY <1>2, Numbers DEF Larger, IInv
  <2> QED
    BY <1>2, <2>1, SinceIsHad DEF IInv
<1>6. \/ answer = "absent" /\ StoreAbsent /\ Decide(c, "off", "column_absent")
      \/ answer \in Flag /\ Store(c) /\ Decide(c, answer, "db")
  BY <1>0, <1>3 DEF Arrive, Flag
<1>7. decision' \in Decisions' /\ AnswersAreFresh'
  <2>1. FreshDecision("off", "column_absent") \/ answer # "absent"
    BY <1>5 DEF FreshDecision
  <2>2. FreshDecision(answer, "db")
    BY <1>5 DEF FreshDecision
  <2>3. now' = now /\ had' = had
    BY <1>1
  <2>4. CASE answer = "absent" /\ Decide(c, "off", "column_absent")
    BY <2>1, <2>3, <2>4, DecideGood DEF Flag, IInv
  <2>5. CASE answer \in Flag /\ Decide(c, answer, "db")
    BY <2>2, <2>3, <2>5, DecideGood DEF IInv
  <2> QED
    BY <1>6, <2>4, <2>5
<1>8. /\ ~readFailing' /\ readFailing' \in BOOLEAN
      /\ lastKnownGood' \in Flag
      /\ lastKnownGood' = "on" => answer = "on"
      /\ lastKnownGood' = "off" => answer \in {"off", "absent"}
      /\ cachedFlag' \in Flag \cup {None} /\ cachedAt' \in 0 .. now
      /\ failBackoffUntil' \in Nat /\ failBackoffUntil' <= now + CacheMs
      /\ "absent" \notin Value => failBackoffUntil' = 0
  <2>1. CASE answer = "absent" /\ StoreAbsent
    BY <1>3, <2>1, Numbers DEF StoreAbsent, Flag, IInv, TypeOK
  <2>2. CASE answer \in Flag /\ Store(c)
    <3>1. /\ cachedFlag' = answer /\ cachedAt' = start /\ lastKnownGood' = answer
          /\ readFailing' = FALSE /\ failBackoffUntil' = 0
      BY <1>0, <2>2 DEF Store
    <3>2. start \in 0 .. now
      BY <1>0, Numbers DEF IInv
    <3>3. failBackoffUntil' \in Nat /\ failBackoffUntil' <= now + CacheMs
      BY <3>1, Numbers DEF IInv
    <3> QED
      BY <2>2, <3>1, <3>2, <3>3 DEF Flag
  <2> QED
    BY <1>6, <2>1, <2>2
<1>9. TypeOK'
  <2>1. None \notin Flag /\ now \in 0 .. now /\ failBackoffUntil' \in 0 .. now + CacheMs
    BY <1>8, HaltAssumption, Numbers DEF IInv
  <2>2. pulled' \in (0 .. now) \cup {None} /\ (pulled' # None => switch = "on")
    BY <1>1, <2>1 DEF IInv, TypeOK
  <2> QED
    BY <1>1, <1>4, <1>7, <1>8, <2>1, <2>2 DEF IInv, TypeOK, ReadRecord, Decisions
<1>10. CacheIsDated'
  <2>1. CASE StoreAbsent
    BY <1>1, <2>1 DEF StoreAbsent, IInv, CacheIsDated, Since
  <2>2. CASE Store(c)
    BY <1>0, <1>1, <1>2, <2>2 DEF Store, CacheIsDated, Since
  <2> QED
    BY <1>6, <2>1, <2>2
<1>11. ViewIsDated'
  <2>1. ASSUME NEW from \in Int, from <= now - TimeoutMs
        PROVE  Showed(from)'
    <3>1. Since(answer, from)'
      <4>1. from <= start
        BY <1>2, <2>1
      <4>2. now' \in Nat /\ now <= now' /\ \A t \in 0 .. now : had[t] \subseteq had'[t]
        BY <1>1, Numbers DEF IInv
      <4>3. Since(answer, start) /\ start \in Int /\ TypeOK
        BY <1>2 DEF IInv
      <4> HIDE DEF Since
      <4> QED
        BY <4>1, <4>2, <4>3, SinceStands
    <3>3. CASE lastKnownGood' = "on"
      BY <1>8, <3>1, <3>3 DEF Showed, Since
    <3>4. CASE lastKnownGood' # "on"
      BY <1>8, <3>1, <3>4 DEF Showed, Since, Flag
    <3> QED
      BY <3>3, <3>4
  <2>2. PICK e1 \in Int, e2 \in Int :
          /\ e1 = Round' - Interval - Slack - TimeoutMs /\ e1 <= now - TimeoutMs
          /\ e2 = failBackoffUntil' - CacheMs - TimeoutMs /\ e2 <= now - TimeoutMs
    BY <1>4, <1>8, Numbers DEF IInv
  <2>3. Showed(e1)' /\ Showed(e2)'
    BY <2>1, <2>2
  <2> QED
    BY <2>2, <2>3 DEF ViewIsDated, Slack
<1>12. HistoryIsPast' /\ BackoffEnds'
  BY <1>1, <1>8 DEF IInv, HistoryIsPast, BackoffEnds
<1> QED
  BY <1>4, <1>7, <1>9, <1>10, <1>11, <1>12 DEF IInv

LEMMA FlipGood ==
    ASSUME IInv, NEW v \in Value, Flip(v)
    PROVE  IInv'
<1>1. /\ switch' = v /\ had' = [had EXCEPT ![now] = @ \cup {v}] /\ pulled' = None
      /\ flips < MaxFlips /\ flips' = flips + 1
      /\ UNCHANGED <<now, faults, state, read, due, decision>>
  BY DEF Flip
<1>2. had \in [0 .. LastTick -> SUBSET Value] /\ now \in 0 .. LastTick
  BY DEF IInv, TypeOK
<1>3. /\ had' \in [0 .. LastTick -> SUBSET Value] /\ v \in had'[now]
      /\ \A t \in 0 .. LastTick : had[t] \subseteq had'[t] /\ (t # now => had'[t] = had[t])
  BY <1>1, <1>2
<1>4. /\ now' \in Nat /\ now <= now' /\ \A t \in 0 .. now : had[t] \subseteq had'[t]
  BY <1>1, <1>3, Numbers DEF IInv
<1>5. TypeOK'
  <2>1. flips' \in 0 .. MaxFlips
    BY <1>1, HaltAssumption DEF IInv, TypeOK
  <2> QED
    BY <1>1, <1>3, <2>1 DEF IInv, TypeOK, state
<1>6. HistoryIsPast'
  BY <1>1, <1>3, Numbers DEF IInv, HistoryIsPast
<1>7. ReadsAreYoung' /\ CacheIsDated'
  <2>1. ASSUME NEW value, NEW from \in Int, Since(value, from)
        PROVE  Since(value, from)'
    BY <1>4, <2>1, SinceStands DEF IInv
  <2> HIDE DEF Since
  <2> QED
    BY <1>1, <2>1, Numbers DEF IInv, ReadsAreYoung, CacheIsDated, state
<1>8. ViewIsDated'
  BY <1>1, <1>4, ViewLasts DEF state, IInv, Round
<1>9. AnswersAreFresh'
  BY <1>1, <1>3, <1>4, DecisionsStand DEF IInv
<1> QED
  BY <1>1, <1>5, <1>6, <1>7, <1>8, <1>9 DEF IInv, BackoffEnds, state

LEMMA TickGood ==
    ASSUME IInv, Tick
    PROVE  IInv'
<1>1. /\ now < LastTick /\ due > now /\ now' = now + 1
      /\ had' = [had EXCEPT ![now + 1] = {switch}]
      /\ \A c \in Reader : read[c].pc # "idle" => now - read[c].start < TimeoutMs
      /\ UNCHANGED <<switch, flips, pulled, faults, state, read, due, decision>>
  BY DEF Tick
<1>2. /\ had \in [0 .. LastTick -> SUBSET Value] /\ now \in 0 .. LastTick
      /\ now + 1 \in 0 .. LastTick /\ switch \in Value
  BY <1>1, Numbers DEF IInv, TypeOK
<1>3. /\ had' \in [0 .. LastTick -> SUBSET Value] /\ switch \in had'[now + 1]
      /\ \A t \in 0 .. LastTick : t # now + 1 => had'[t] = had[t]
      /\ had[now + 1] = {}
  BY <1>1, <1>2, Numbers DEF IInv, HistoryIsPast
<1>4. /\ now' \in Nat /\ now <= now' /\ \A t \in 0 .. LastTick : had[t] \subseteq had'[t]
      /\ \A t \in 0 .. now : had[t] \subseteq had'[t]
  BY <1>1, <1>3, Numbers DEF IInv
<1>5. TypeOK'
  <2>1. now' \in 0 .. LastTick /\ 0 .. now \subseteq 0 .. now'
    BY <1>1, <1>2
  <2>2. /\ due' \in now' .. now' + Interval
        /\ failBackoffUntil' \in 0 .. now' + CacheMs /\ cachedAt' \in 0 .. now'
    BY <1>1, Numbers DEF state, IInv
  <2>3. pulled' \in (0 .. now') \cup {None}
    BY <1>1, <2>1 DEF IInv, TypeOK
  <2>4. read' \in [Reader -> ReadRecord'] /\ decision' \in Decisions'
    BY <1>1, <2>1 DEF IInv, TypeOK, ReadRecord, Decisions
  <2> QED
    BY <1>1, <1>3, <2>1, <2>2, <2>3, <2>4 DEF IInv, TypeOK, state, ReadRecord, Decisions
<1>6. HistoryIsPast'
  <2>1. switch' \in had'[now']
    BY <1>1, <1>3
  <2>2. ASSUME NEW t \in 0 .. LastTick, t > now'
        PROVE  had'[t] = {}
    <3>1. t # now + 1 /\ t > now
      BY <1>1, <2>2, Numbers DEF IInv
    <3> QED
      BY <1>3, <3>1 DEF IInv, HistoryIsPast
  <2> QED
    BY <2>1, <2>2 DEF HistoryIsPast
<1>7. ReadsAreYoung' /\ CacheIsDated'
  <2>1. ASSUME NEW value, NEW from \in Int, Since(value, from)
        PROVE  Since(value, from)'
    BY <1>4, <2>1, SinceStands DEF IInv
  <2>2. CacheIsDated'
    BY <1>1, <2>1, Numbers DEF IInv, CacheIsDated, state
  <2>3. ReadsAreYoung'
    BY <1>1, <2>1, Numbers DEF IInv, ReadsAreYoung
  <2> QED
    BY <2>2, <2>3
<1>8. ViewIsDated'
  BY <1>1, <1>4, ViewLasts DEF state, IInv, Round
<1>9. AnswersAreFresh'
  BY <1>1, <1>4, DecisionsStand DEF IInv
<1> QED
  BY <1>1, <1>5, <1>6, <1>7, <1>8, <1>9 DEF IInv, BackoffEnds, state

LEMMA StutterGood ==
    ASSUME IInv, UNCHANGED vars
    PROVE  IInv'
BY DEF vars, db, state, IInv, TypeOK, HistoryIsPast, ReadsAreYoung, CacheIsDated, ViewIsDated,
       BackoffEnds, AnswersAreFresh, Since, Showed, Round, Had, Window

LEMMA InitGood ==
    ASSUME Init
    PROVE  IInv
<1>1. \A c \in Reader : read[c].pc = "idle"
  BY DEF Init, NoRead
<1>2. \A w \in Worker : decision[w].source = "none"
  BY DEF Init, NoDecision
<1>3. TypeOK
  <2>1. 0 .. 0 = {0} /\ 0 \in 0 .. LastTick /\ 0 \in 0 .. MaxFlips /\ 0 \in 0 .. MaxFaults
        /\ 0 \in 0 .. 0 + CacheMs /\ 0 \in 0 .. 0 + Interval /\ "off" \in Value
    BY HaltAssumption
  <2>2. had \in [0 .. LastTick -> SUBSET Value]
    BY <2>1 DEF Init
  <2> QED
    BY <2>1, <2>2 DEF Init, TypeOK, NoRead, NoDecision
<1>4. HistoryIsPast
  BY HaltAssumption DEF Init, HistoryIsPast
<1>5. ReadsAreYoung /\ CacheIsDated /\ ViewIsDated /\ BackoffEnds
  BY <1>1 DEF Init, ReadsAreYoung, CacheIsDated, ViewIsDated, BackoffEnds
<1>6. AnswersAreFresh
  BY <1>2 DEF AnswersAreFresh
<1> QED
  BY <1>3, <1>4, <1>5, <1>6 DEF IInv

LEMMA StepGood ==
    ASSUME IInv, [Next]_vars
    PROVE  IInv'
BY EvaluateGood, ArriveGood, FailReadGood, WorkerTickGood, RefreshGood, FlipGood, TickGood,
   StutterGood DEF Next

-----------------------------------------------------------------------------
(* The theorems *)

(***************************************************************************)
(* The inductive invariant: every answer, cached value and view is dated   *)
(* by the moment its read was asked for, and the view of the guard is at   *)
(* most a round, a read and the back-off of a missing column behind.       *)
(***************************************************************************)
THEOREM AnswersAreDated == Spec => []IInv
<1>1. Init => IInv
  BY InitGood
<1>2. IInv /\ [Next]_vars => IInv'
  BY StepGood
<1> QED
  BY <1>1, <1>2, PTL DEF Spec

\* Every reachable state of the halt is well typed (emergency-halt.ts).
THEOREM HaltTyped == Spec => []TypeOK
<1>1. IInv => TypeOK
  BY DEF IInv
<1> QED
  BY <1>1, AnswersAreDated, PTL

\* A worker that goes by a good or a cached read goes by what the switch showed
\* within the life of the cache (checkEmergencyHalt).
THEOREM WorkersSeeFreshAnswers == Spec => []AnswersAreFresh
<1>1. IInv => AnswersAreFresh
  BY DEF IInv
<1> QED
  BY <1>1, AnswersAreDated, PTL

\* The guard admits a write only on a switch that was released within its window,
\* and refuses one, while reads succeed, only on a switch that was pulled
\* (peekHaltState, emergencyHaltGuard).
THEOREM GuardSeesFreshView == Spec => []GuardIsFresh
<1>1. ASSUME IInv
      PROVE  GuardIsFresh
  <2> SUFFICES ASSUME Known # None, ~readFailing
               PROVE  /\ Known # "on" => Had("off", now, GuardWindow) \/ Had("absent", now, GuardWindow)
                      /\ Known = "on" => Had("on", now, GuardWindow)
    BY HaltAssumption DEF GuardIsFresh, Admits, Halted, Flag
  <2>1. lastKnownGood # None /\ Known = lastKnownGood
    BY <1>1 DEF IInv, TypeOK, Known
  <2>2. PICK from \in Int : from = Round - Interval - Slack - TimeoutMs
    BY <1>1, Numbers DEF IInv
  <2>3. Showed(from)
    BY <1>1, <2>1, <2>2 DEF IInv, ViewIsDated
  <2>4. now <= Round + TimeoutMs
    BY <1>1, Numbers DEF IInv, ReadsAreYoung, Round, Reader
  <2>5. GuardWindow \in Int /\ now - GuardWindow <= from
    BY <1>1, <2>2, <2>4, Numbers DEF IInv, GuardWindow
  <2>6. \A value : Since(value, from) => Had(value, now, GuardWindow)
    BY <1>1, <2>5, SinceIsHad DEF IInv
  <2> HIDE DEF Since
  <2> QED
    BY <2>1, <2>3, <2>6 DEF Showed
<1> QED
  BY <1>1, AnswersAreDated, PTL
=============================================================================
