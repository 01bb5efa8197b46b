---------------------------- MODULE OwnerApproval ----------------------------
(***************************************************************************)
(* checkOwnerAuthorization (src/src/services/owner-authorization.ts): an   *)
(* owner's signed approval is accepted once.  The nonce is held in this    *)
(* process's memory while the signature is checked, and is then inserted   *)
(* in owner_auth_nonces, which a restart does not forget.                  *)
(***************************************************************************)
EXTENDS Integers

CONSTANTS
    Withdrawal, \* Requests that carry an approval.
    Approval,   \* Nonces.
    Presents,   \* [Withdrawal -> the approval it carries, and whether its
                \* signature is the owner's for exactly these parameters].
    ExpiresAt,  \* [Approval -> the time it names], inside MAX_LIFETIME_S.
    LastTick,   \* Bounds the clock.
    MaxFaults,  \* Bounds failed calls and restarts.
    None        \* An operator's key, in place of an approval.

ASSUME ApprovalAssumption ==
    /\ None \notin Approval
    /\ Presents \in [Withdrawal -> [nonce : Approval \cup {None}, signed : BOOLEAN]]
    /\ ExpiresAt \in [Approval -> Nat]
    /\ LastTick \in Nat /\ MaxFaults \in Nat

VARIABLES
    usedNonces, \* The map in memory.
    claimed,    \* The rows of owner_auth_nonces.
    check,      \* [Withdrawal -> where its check is]
    now, faults

approvalVars == <<usedNonces, claimed, check>>

CheckPhase == {"idle", "verifying", "reading", "inserting", "passed", "refused", "dead"}

ApprovalInit ==
    /\ usedNonces = {} /\ claimed = {}
    /\ check = [w \in Withdrawal |-> "idle"]
    /\ now = 0 /\ faults = 0

\* A call that fails, or whose answer is lost, and a restart.
Fault == /\ faults < MaxFaults
         /\ faults' = faults + 1

NonceOf(w) == Presents[w].nonce
Checked(w, answer) == check' = [check EXCEPT ![w] = answer]
Unreserve(w) == usedNonces' = usedNonces \ {NonceOf(w)}

\* pruneNonces
Unexpired == {n \in usedNonces : ExpiresAt[n] >= now}

\* In one turn of the event loop: look the nonce up and hold it.
Present(w) ==
    /\ check[w] = "idle"
    /\ IF NonceOf(w) = None
       THEN Checked(w, "passed") /\ UNCHANGED usedNonces
       ELSE IF ExpiresAt[NonceOf(w)] <= now
       THEN Checked(w, "refused") /\ UNCHANGED usedNonces
       ELSE IF NonceOf(w) \in Unexpired
       THEN Checked(w, "refused") /\ usedNonces' = Unexpired
       ELSE Checked(w, "verifying") /\ usedNonces' = Unexpired \cup {NonceOf(w)}
    /\ UNCHANGED <<claimed, now, faults>>

\* A signature that is not the owner's, or that no chain could check, lets go.
Verify(w) ==
    /\ check[w] = "verifying"
    /\ \/ /\ Presents[w].signed
          /\ Checked(w, "reading")
          /\ UNCHANGED <<usedNonces, faults>>
       \/ /\ \/ ~Presents[w].signed /\ UNCHANGED faults
             \/ Fault
          /\ Checked(w, "refused")
          /\ Unreserve(w)
    /\ UNCHANGED <<claimed, now>>

ReadLedger(w) ==
    /\ check[w] = "reading"
    /\ \/ /\ Checked(w, IF NonceOf(w) \in claimed THEN "refused" ELSE "inserting")
          /\ UNCHANGED <<usedNonces, faults>>
       \/ /\ Fault
          /\ Checked(w, "refused")
          /\ Unreserve(w)
    /\ UNCHANGED <<claimed, now>>

\* Mutated: nothing is recorded, this process remembers.
InsertNothing(w) ==
    /\ check[w] = "inserting"
    /\ Checked(w, "passed")
    /\ UNCHANGED <<usedNonces, claimed, now, faults>>

\* The primary key refuses a second row; an error lets go of the nonce.
InsertNonce(w) ==
    /\ check[w] = "inserting"
    /\ \/ /\ Checked(w, IF NonceOf(w) \in claimed THEN "refused" ELSE "passed")
          /\ claimed' = claimed \cup {NonceOf(w)}
          /\ UNCHANGED <<usedNonces, faults>>
       \/ /\ Fault
          /\ claimed' \in {claimed, claimed \cup {NonceOf(w)}}
          /\ Checked(w, "refused")
          /\ Unreserve(w)
    /\ UNCHANGED now

Checking(w) == Present(w) \/ Verify(w) \/ ReadLedger(w) \/ InsertNonce(w)

\* A restart: the map is empty, what was being checked is gone.
ForgetChecks ==
    /\ usedNonces' = {}
    /\ check' = [w \in Withdrawal |->
                   IF check[w] \in {"verifying", "reading", "inserting"} THEN "dead" ELSE check[w]]
    /\ UNCHANGED claimed

Tick ==
    /\ now < LastTick
    /\ now' = now + 1
    /\ UNCHANGED <<approvalVars, faults>>
=============================================================================
