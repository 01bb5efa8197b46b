------------------------ MODULE FailedReceiptSettler ------------------------
(***************************************************************************)
(* src/src/services/failed-receipt-settler.ts, mode enforce, composed with *)
(* the score updates: a job that looks for FAILED receipts their subjects  *)
(* did not present and presents them itself, through updateRepId.  It      *)
(* reads the receipts in pages, behind a cursor it keeps in memory.        *)
(***************************************************************************)
EXTENDS ScoreProperties, FiniteSetsExt

CONSTANTS
    Settler,    \* The slot in which the job runs updateRepId.
    Grace,      \* CONFIRMED_FAILED_SETTLE_AFTER_HOURS, in days.
    ScanLimit,  \* Rows in a page: SCAN_FACTOR x MaxPerRun.
    MaxPerRun   \* CONFIRMED_FAILED_SETTLE_MAX_PER_RUN

ASSUME SettlerAssumption ==
    /\ IsFiniteSet(Receipt)
    /\ Settler \in Slot \ DOMAIN Request
    /\ Grace \in Nat /\ Grace < Ttl
    /\ MaxPerRun \in Nat \ {0}
    /\ ScanLimit \in Nat /\ ScanLimit >= MaxPerRun

VARIABLES
    cursor,  \* The last receipt processed; 0 reads from the oldest.
    pass     \* The pass under way: the rows of its page left, and what it did.

svars == <<vars, cursor, pass>>

Asleep == [pc |-> "asleep", page |-> {}, short |-> FALSE, accepted |-> 0, last |-> 0]

SInit == Init /\ cursor = 0 /\ pass = Asleep

InWindow(r) == today - About[r].born > Grace /\ today - About[r].born < Ttl

Candidate(r) == receipts[r] = "fresh" /\ About[r].status = "FAILED" /\ InWindow(r)

\* The oldest rows after the cursor.
Page == LET rows == {r \in Receipt : Candidate(r) /\ r > cursor}
        IN  {r \in rows : Cardinality({q \in rows : q < r}) < ScanLimit}

Wake ==
    /\ pass.pc = "asleep"
    /\ pass' = [Asleep EXCEPT !.pc = "scan", !.page = Page, !.short = Cardinality(Page) < ScanLimit]
    /\ UNCHANGED <<vars, cursor>>

\* previewSettledWrong: the decision updateRepId would make, without the claim.
Preview(r) == Confirms(r, About[r].subject)

Presentation(r) ==
    [agent |-> About[r].subject, receipt |-> r, domain |-> None, price |-> 0]

\* The pass takes its page's rows from the oldest on.
Oldest == Min(pass.page)
Rest == pass.page \ {Oldest}

Scanning == pass.pc = "scan" /\ pass.page # {} /\ pass.accepted < MaxPerRun

PassOver ==
    /\ Scanning
    /\ \/ ~Preview(Oldest) /\ UNCHANGED faults
       \/ Fault
    /\ pass' = [pass EXCEPT !.page = Rest, !.last = Oldest]
    /\ UNCHANGED <<db, env, run, cursor>>

Accept ==
    /\ Scanning
    /\ Preview(Oldest)
    /\ Fetch(Settler, Presentation(Oldest))
    /\ pass' = [pass EXCEPT !.pc = "apply", !.page = Rest, !.last = Oldest,
                            !.accepted = @ + 1]
    /\ UNCHANGED cursor

\* Applied, lost to another run or thrown: the pass goes on with the next row.
Applied ==
    /\ pass.pc = "apply"
    /\ Free(Settler)
    /\ pass' = [pass EXCEPT !.pc = "scan"]
    /\ UNCHANGED cursor

\* Mutated: every pass reads from the oldest receipt.
EndPassAtTop ==
    /\ pass.pc = "scan"
    /\ ~Scanning
    /\ cursor' = 0
    /\ pass' = Asleep
    /\ UNCHANGED vars

\* The cursor moves past what was processed; a short page read to its end wraps.
EndPass ==
    /\ pass.pc = "scan"
    /\ ~Scanning
    /\ cursor' = IF pass.short /\ pass.page = {} THEN 0
                 ELSE IF pass.last # 0 THEN pass.last ELSE cursor
    /\ pass' = Asleep
    /\ UNCHANGED vars

\* Mutated: the run of the old process goes on in the new one.
RestartKeepsRun ==
    /\ Fault
    /\ cursor' = 0
    /\ pass' = Asleep
    /\ UNCHANGED <<db, env, run>>

\* The process restarts; the cursor was in memory.
Restart ==
    /\ Fault
    /\ run' = [run EXCEPT ![Settler] = Idle]
    /\ cursor' = 0
    /\ pass' = Asleep
    /\ UNCHANGED <<db, env>>

SettlerStep == Wake \/ PassOver \/ Accept \/ Applied \/ EndPass

OtherStep ==
    /\ \/ \E s \in Slot : Advance(s)
       \/ \E s \in Slot \ {Settler} : Die(s)
       \/ \E s \in DOMAIN Request : \E input \in Request[s] : Fetch(s, input)
       \/ \E r \in Receipt : Mirror(r)
       \/ NextDay
    /\ UNCHANGED <<cursor, pass>>

SNext == SettlerStep \/ Restart \/ OtherStep

SSpec == SInit /\ [][SNext]_svars

\* Promises settle and the interval fires.  Nothing makes an actor present a
\* receipt, the kernel mirror one, or a day pass.
Fairness ==
    /\ WF_svars(SettlerStep)
    /\ \A s \in Slot : WF_svars(Advance(s) /\ UNCHANGED <<cursor, pass>>)

FairSSpec == SSpec /\ Fairness

-----------------------------------------------------------------------------
\* The types, and: updateRepId runs in the job's slot only while a pass waits
\* for it.
STypeOK ==
    /\ cursor \in Receipt \cup {0}
    /\ pass \in [pc : {"asleep", "scan", "apply"}, page : SUBSET Receipt, short : BOOLEAN,
                accepted : 0 .. MaxPerRun, last : Receipt \cup {0}]
    /\ Cardinality(pass.page) <= ScanLimit
    /\ pass.pc = "apply" <=> run[Settler].pc # "idle"

(***************************************************************************)
(* A confirmed wrong is not opt-in: once it is older than the grace period *)
(* and as long as its receipt lives, a signed FAILED receipt is spent and  *)
(* scored although its subject never presents it and whatever refused rows *)
(* are dated before it - unless a database call failed on the way.         *)
(***************************************************************************)
WrongsAreNotOptIn ==
    \A r \in Receipt : Candidate(r) /\ About[r].genuine ~>
        \/ receipts[r] = "spent" /\ (Scored(r) \/ faults > 0)
        \/ ~InWindow(r)
=============================================================================
