--------------------------- MODULE HaltInvariant ---------------------------
(* What the theorems about the emergency halt rest on. *)
EXTENDS HaltProperties

\* The switch showed the value at some moment since then.
Since(value, from) == \E t \in 0 .. now : from <= t /\ value \in had[t]

\* Nothing is on record of the moments to come.
HistoryIsPast ==
    /\ switch \in had[now]
    /\ \A t \in 0 .. LastTick : t > now => had[t] = {}

\* A read under way is younger than its timeout, and its answer than the read.
ReadsAreYoung ==
    \A c \in Reader :
        /\ read[c].pc # "idle" => now <= read[c].start + TimeoutMs
        /\ read[c].pc = "evaluated" => Since(read[c].answer, read[c].start)

\* A cached value is dated by the moment it was asked for.
CacheIsDated == cachedFlag # None => Since(cachedFlag, cachedAt)

\* What the guard goes by was on the switch since then.
Showed(from) ==
    IF lastKnownGood = "on" THEN Since("on", from) ELSE Since("off", from) \/ Since("absent", from)

\* The round of the refresher under way, or the next one.
Round == IF read["refresher"].pc = "idle" THEN due ELSE read["refresher"].start

Slack == IF "absent" \in Value THEN CacheMs ELSE 0

\* While no read fails, what the guard goes by is at most one round, one read
\* and a back-off that a missing column left behind older than the last round.
ViewIsDated ==
    lastKnownGood # None /\ ~readFailing =>
        /\ Showed(Round - Interval - Slack - TimeoutMs)
        /\ Showed(failBackoffUntil - CacheMs - TimeoutMs)

\* Any other good read ends the back-off with the failure.
BackoffEnds == ~readFailing /\ "absent" \notin Value => failBackoffUntil = 0

IInv ==
    /\ TypeOK /\ HistoryIsPast /\ ReadsAreYoung /\ CacheIsDated
    /\ ViewIsDated /\ BackoffEnds /\ AnswersAreFresh
=============================================================================
