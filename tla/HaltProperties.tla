--------------------------- MODULE HaltProperties ---------------------------
(* What must hold of the emergency halt. *)
EXTENDS EmergencyHalt

\* The types, and: a value is cached only if it was once the last good one,
\* and calls are held back after a failed read, only until it is made good.
TypeOK ==
    /\ switch \in Value /\ had \in [0 .. LastTick -> SUBSET Value]
    /\ pulled \in (0 .. now) \cup {None} /\ (pulled # None => switch = "on")
    /\ now \in 0 .. LastTick /\ flips \in 0 .. MaxFlips /\ faults \in 0 .. MaxFaults
    /\ {cachedFlag, lastKnownGood} \subseteq Flag \cup {None}
    /\ cachedAt \in 0 .. now /\ failBackoffUntil \in 0 .. now + CacheMs
    /\ readFailing \in BOOLEAN
    /\ read \in [Reader -> [pc : {"idle", "asked", "evaluated"}, start : 0 .. now, answer : Value \cup {None}]]
    /\ due \in now .. now + Interval
    /\ decision \in [Worker -> [flag : Flag \cup {None}, at : 0 .. now,
                                source : {"none", "db", "cache", "column_absent", "error_open", "error_sticky"}]]
    /\ lastKnownGood = None => cachedFlag = None
    /\ readFailing => faults > 0

Window(last, length) == {t \in 0 .. LastTick : last - length <= t /\ t <= last}
Had(value, last, length) == \E t \in Window(last, length) : value \in had[t]

Larger(x, y) == IF x > y THEN x ELSE y

(***************************************************************************)
(* A worker that goes by a good read, its own or a cached one, goes by     *)
(* what the switch showed at some moment of the cache's life, in whatever  *)
(* order the reads of the others are answered: the life counts from the    *)
(* moment the read was asked for.                                          *)
(***************************************************************************)
AnswersAreFresh ==
    \A w \in Worker : LET d == decision[w] IN
        /\ d.source \in {"db", "cache"} => Had(d.flag, d.at, Larger(CacheMs - 1, TimeoutMs))
        /\ d.source = "column_absent" => Had("absent", d.at, TimeoutMs)

(***************************************************************************)
(* The guard that fails closed admits a write only if the switch was not   *)
(* pulled at some moment of the last interval and two timeouts, and, while *)
(* reads succeed, refuses one only if it was: a failed read is never taken *)
(* for a released switch, and a skipped or a late one is made good by the  *)
(* timer.  A column that is missing ends the failure and not the back-off, *)
(* which holds the timer's reads back for one life of the cache more.      *)
(***************************************************************************)
GuardWindow == Interval + 2 * TimeoutMs + (IF "absent" \in Value THEN CacheMs ELSE 0)

GuardIsFresh ==
    /\ Admits => Had("off", now, GuardWindow) \/ Had("absent", now, GuardWindow)
    /\ Halted /\ ~readFailing => Had("on", now, GuardWindow)

(***************************************************************************)
(* The header of emergency-halt.ts: a read error never lifts a halt.  Once *)
(* a good read has shown the pull, and for as long as the switch stays     *)
(* pulled, no worker goes on because its read failed.                      *)
(***************************************************************************)
ErrorsNeverLift ==
    pulled # None => \A w \in Worker : decision[w].source = "error_open" => decision[w].at <= pulled
=============================================================================
