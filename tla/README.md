# repid-engine: specifications, model checking and proofs

TLA+ modules of the parts of repid-engine where an order of steps decides about
money, permissions and reputation:

- the **policy kernel**: which agent calls may run, and the ledger that says so;
- the **deferred settlement** of service contracts: when a held x402 payment
  moves, and the **dispute panel** that rules on a contract beside it;
- **RepID score updates** under confirmed-outcome scoring, and the settler of
  failed receipts;
- the **stake vault** and the **owner's approval** that opens it;
- the **emergency halt**.

Each is modelled from the source and checked with TLC on small instances, and
every safety property that a passing run checks is also a theorem that TLAPS proves
for every value of the constants: the type invariants, the other invariants, and the
two refinements of an abstract specification. Liveness is model-checked. Paths are of the repository; `K/` stands for
`src/kernel/`, `S/` for `src/services/`.

    tlc -config kernel_race.cfg MCKernelLedger
    tlc -config settlement_faults.cfg MCDeferredSettlement
    tlc -config score_gains.cfg MCScore
    tlc -config stake_vault.cfg MCVault
    tlapm KernelGrantProofs.tla
    tlapm ScoreProofs.tla
    tlapm HaltProofs.tla

## 1. Inventory

repid-engine is one Express process, run in several replicas, over a Supabase
Postgres. There are hardly any database transactions: an operation is a sequence
of single-statement requests, and what guards it is an update's `where` clause, a
primary key or unique index, a trigger, one of the few SQL functions, or a lock
that lives in one process.

| Part | State | Operations | What is hard | What makes it correct |
|---|---|---|---|---|
| Kernel ledger (`K/store.ts`) | table `kernel_ledger`; per process an index, the sink's next seq, a promise-chain lock | load, appendReceipt, appendPolicy | replicas, lost and late inserts, stale indexes, crashes | one chain; index a prefix of the table; an authorization used once |
| Kernel gate (`K/gate.ts`, `routes/kernel.ts`) | the call in flight | runUnderKernel, reserveDecision, POST /policy | evidence read before the lock, decision row before the tool, outcome after | no run without its ALLOW row; budgets kept; every call answered |
| Kernel rules (`K/decide.ts`, `policy.ts`, `receipt.ts`) | none | decide, verify, receipt invariants | window boundaries, key of an authorization | limits, one use, supersession |
| Deferred settlement (`S/x402-deferred-settlement.ts`) | `x402_settlements` row | hold, release, void | concurrent releases, void against release, facilitator silence, expiry | paid at most once, after acceptance; recorded only if paid |
| Contracts (`routes/v1/contracts.ts`) | `service_contracts` row and its trigger | escrow, cancel, fulfill, satisfy, dispute, resolve | requests interleaving at every await | closes only when paid; RepID once |
| Service handlers (`S/service-handler-base.ts`) | the claimed contract | processOne | two drivers of the same queue; a dispute filed before the contract says so | one delivery, one reward |
| Release retry worker (`S/x402-release-retry-worker.ts`) | attempt history | sweep | beside live requests, in every replica | finds the stranded contracts, pays nobody twice |
| Dispute panel (`workers/dispute-resolution-worker.ts`) | `dispute_validation_queue` | claim, verdict, ruling | unchecked writes, hearings put back, rulings that break off | one ruling a row, none beside a settlement's reward |
| RepID update (`engine/repid-update.ts`) | `repid_agents`, `repid_score_events`, the budget of a day's gains | updateRepId, claim_confirmed_gain, claimConfirmationReceipt | three calls, no transaction around them, three settings of who applies a delta | a receipt moves a score once; gains stay in the budget; rows replay to the score |
| Failed-receipt settler (`S/failed-receipt-settler.ts`) | a cursor in memory | a pass over the receipts | refused rows that fill a page, restarts, the subject presenting too | a wrong is not opt-in |
| Owner authorization (`S/owner-authorization.ts`) | nonces in memory and in `owner_auth_nonces` | checkOwnerAuthorization | a check that awaits, restarts | one approval lets one request through |
| Stake vault (`S/stake-vault.ts`, `escrow-refunder.ts`, `deposit-verifier.ts`) | `stake_deposits`, a line per builder in this process | deposit, withdraw, refund | checks before the line, refund broadcast before debit | debits are refunds; refunds are covered |
| Linked bets (`S/linked-bet-resolver.ts`) | `linked_bets` | placeBet, resolveBet | a bet beside a withdrawal | an open bet holds the stake |
| Emergency halt (`S/emergency-halt.ts`) | cached flag, back-off, last known good | check, refresh, guard | reads that fail, hang or overtake each other | answers are fresh; an error never lifts a halt |
| Recovery worker (`S/x402-recovery-worker.ts`) | `x402_settlement_failures` | retry of inbound tips | ownership shared with the retry worker | never settles a deferred row |

How the parts meet:

- The kernel mirrors a receipt of each executed call into `kernel_receipts`; a
  confirmed receipt is what a score update spends (`Mirror` in `ScoreUpdate`).
- The settler calls `updateRepId` like any other caller, in a slot of its own
  (`FailedReceiptSettler` extends `ScoreUpdate`).
- POST /stake/withdraw asks for the owner's approval and then calls the vault,
  which looks at the bets (`StakeVault` extends `OwnerApproval`).
- The panel, the handlers and the parties write to one contract, and the
  contract's trigger orders them (`DisputePanel` extends `DeferredSettlement`).
- The halt is asked by the ticks of the workers and by the guard of the routes; it
  shares no state with them.
- Satisfying a contract and ruling on it apply RepID deltas; those two models
  count the deltas, and `ScoreUpdate` says what an update does to a score.

HAL, the proof and on-chain writers, human-in-the-loop, authentication, zkRepID,
the Solidity contracts and the read-only routes are listed in `PROJECT.json`
with the reason they are not modelled. It also lists the hazards, each with the
line where it bites and the properties that watch it.

## 2. Modules

| Module | Content |
|---|---|
| `KernelRecords` | the records, the pure checks on a sequence of them: chain, authorization keys, spend windows, verdict, what the ledger refuses |
| `KernelLedger` | replicas, lock, load, append, late inserts, the gate's phases, crashes |
| `OneUseBudget` | abstract: authorizations reserved once, within limits; a grant on its own reservation |
| `KernelProperties`, `KernelInvariant` | what the runs check and the refinement mapping; the inductive invariant |
| `MCKernelLedger`, `kernel_*.cfg` | instances |
| `KernelTableProofs` | proofs: types, chain, index, nonces |
| `KernelGrantProofs` | proofs: one use, outcomes, the refinement |
| `DeferredSettlement` | one contract, its settlement row, its requests, the chain |
| `PayAfterDelivery` | abstract: paid once after acceptance, closed when paid, rewarded once |
| `SettlementProperties`, `SettlementInvariant` | what the runs check; the inductive invariant |
| `MCDeferredSettlement`, `settlement_*.cfg` | instances |
| `SettlementProofs` | proofs |
| `DisputePanel` | the queue of disputes, who files them and the workers, composed with `DeferredSettlement` |
| `PanelProperties`, `MCPanel`, `dispute_panel.cfg` | what the run checks, and its instance |
| `PanelInvariant`, `PanelProofs` | its inductive invariant and proofs |
| `ScoreUpdate` | runs of updateRepId, the receipts, the budget, the audit rows, the scores |
| `FailedReceiptSettler` | the settler, composed with `ScoreUpdate` |
| `ScoreProperties`, `ScoreInvariant`, `MCScore`, `MCSettler`, `score_*.cfg` | what the runs check, the invariant, instances |
| `ScoreProofs` | proofs, of the updates and of the settler beside them |
| `OwnerApproval` | the check of a signed approval and its nonce |
| `StakeVault` | deposits, withdrawals, bets and the chain, composed with `OwnerApproval` |
| `VaultProperties`, `VaultInvariant`, `MCVault`, `stake_*.cfg` | what the runs check, the invariant, instances |
| `VaultProofs` | proofs |
| `EmergencyHalt` | the switch, its readers, the cache, the guard |
| `HaltProperties`, `HaltInvariant`, `MCHalt`, `emergency_halt.cfg`, `halt_released.cfg` | what the runs check, the invariant, instances |
| `HaltProofs` | proofs |
| `DataLemmas` | lemmas on finite sets, sums over them, greatest elements and prefixes |

Operators named "Mutated:" in a comment (`ClaimStuck`, `KeyPerPolicy`, ...) are
plausible bugs of the definition below them. No specification uses them; put in
its place, each makes the property listed with it in `PROJECT.json` fail.

Deadlock is not checked in any configuration: calls, requests, receipts and
days are finite in number, so the systems may stop when all are answered.

## 3. The policy kernel

**State.** `log` is the table, in the order of its primary key; `late` are the
inserts whose client gave up after 10 s and which may still execute. A replica
has `loaded`, `index` and `next` (the fields `loading`, the maps of the index,
the sink's next seq), and a lock: `queue`, whose head is running, and `wire`,
the insert it awaits. A call has a phase `pc`, its replica `home`, and `asmt`,
what `assess()` read before the call queued for the lock. `granted` is history:
the calls whose tool was started or whose client was told ALLOW.

**Actions.** `Arrive`, `Assess`/`AssessUnread`, `RequestDecision`,
`WriteDecision`/`WithholdDecision`, `Acknowledge`, `ToolReturns`, `WriteOutcome`
are runUnderKernel in order; a reservation (POST /decide) stops after its
decision. `SubmitPolicy`, `WritePolicy`, `RefusePolicy` are POST /policy.
`InsertLands`, `LateInsertLands`, `InsertCollides`, `InsertTimesOut`,
`LoadFails`, `LoadFailsUnderLock` are the database; `Crash` and `Tick` the
environment.

**Abstractions.**
- `prev_hash` is the identity of the row before (call and whether executed), and
  a `policy_hash` the policy record: hashes are taken as injective.
- The checks of `decide` that read neither ledger nor clock are one boolean,
  `clear`, chosen in `Assess`. DENY and NOT_CHECKED are both BLOCK: neither runs
  the tool nor consumes anything.
- Reading the table and installing the index is one step: in one replica a load
  starts only when no index is usable and an insert only over a usable index, so
  they never overlap. A load racing another replica's insert is an interleaving
  of two such steps.
- The budget counts rows by their own `created_at`; a decision without outcome
  keeps counting (it over-counts, which is the safe side).
- `dryDecision` and GET routes write nothing and are left out; a POST /policy
  refused before the lock changes nothing.
- The `receiptIndexer` mirror, awaited inside the lock, is taken to settle.
- A call's policy is read before the lock (`K/gate.ts:253`) and not again under
  it: an ALLOW row may be written under a version that already has a successor.
  The model does so too.
- A comment in `K/gate.ts` (line 23) speaks of one replica, while
  `tests/kernel/durable-ledger.test.ts` runs two ledgers over one table. The
  model has any number.

**Runs.** Units: one `Day` is one tick, amounts are 1 to 3, a policy's
limits 2 to 4.

| Run | Question | Bounds |
|---|---|---|
| `kernel_race` | two replicas, one payment presented twice through both doors and a second payment, over a total that admits one | 3 calls, 1 crash, clock fixed; 211 k states |
| `kernel_versions` | a payment presented twice, the second time under another tool name, and another payment, while time passes and a narrower version is posted | 1 replica, 3 calls, 1 post, clock to one `Day`; 417 k |
| `kernel_answers` | liveness: answers, and rereading after a lost race; and two versions posted in any order | 2 replicas, 1 call, 2 posts, 1 crash; 40 k |

Two replicas are enough to race an insert and to hold a stale index; three calls
are the fewest for which a double presentation and a competing payment meet; one
crash is enough to lose a decision's outcome and to read the table again. In
`kernel_race` every insert may also be refused, answered, lost or late.
`kernel_versions` needs one replica: what it asks is about the arithmetic of the
window and the keys, and two calls of one replica already overlap between their
read and their row. A clock of one `Day` puts two spends exactly at the window's
edge. `SYMMETRY` permutes the two replicas in `kernel_race`, which checks no
liveness.

**Fairness** (`kernel_answers`). Promises resolve and an insert answers or times
out: weak fairness on a replica's own steps and on the end of an insert
(`LEDGER_TIMEOUT_MS`). Nothing makes a client send, a process crash, the clock
tick or a late insert execute.

**Proved**, for any replicas, calls, posts, policies, requests and bounds (the
assumptions are `RecordAssumption` and `LedgerAssumption`, on the constants
only; the latter says among others that `Nil`, for null, is no replica, call or
insert): `TypeOK`, `IndexIsPrefix`, `ChainUnforked`, `NoncesIncrease`,
`OneAllowPerAuthorization`, `OutcomesAreEarned` and the refinement
`ImplementsOneUseBudget`. The inductive invariant, in `KernelInvariant`, has four parts:

- *Soundness.* A record is sound at its place when what the ledger checked before
  writing it holds of the records before that place. A replica checks a record on
  its index; an index is a prefix of the table (`IndexIsPrefix`), and an insert
  carries the number right after that index (`WireSound`). When the primary key
  lets the insert execute the prefix is the whole table, so the record is sound
  where it lands (`TableSound`). A late insert stays sound as long as its number
  is free (`LateSound`); when the number is taken it can only collide. None of
  this is inductive without the types and the shape of the lock (`TypeInv`). Two
  rows of one authorization would make the later one unsound.
- *Grants.* A tool starts only when the insert its lock head awaits has answered,
  which is its own row (`WireIsHeads`, `GrantsRecorded`, `RunsGranted`).
- *One row a phase* (`RowsOnce`). A call's decision and its outcome are each on the
  table at most once, and an insert that was given up and may still land has not
  landed. It holds because a call whose insert is given up goes on to a phase that
  writes no such row again. It gives the uniqueness in `OutcomesAreEarned`, and
  "one reservation a call" in the refinement.
- *Grounding* (`RecordsGrounded`, `AssessmentsGrounded`). A receipt, on the table, on
  the wire or late, is dated no later than the clock, under a policy of its call's
  own agent, and an outcome is that of a call that was let through.

The refinement (`LedgerImplementsBudget`) is then about one table `L` that is sound
row by row (`SoundTable`). Its limits are read off by looking at the last row of a
set of spends: when that row was written, the ledger weighed it with all earlier
rows of its agent, and these contain the others of the set (`SpentByLast`,
`TotalsAreWithin`, `WindowFits`). So the total of a policy, and the spends of any
day, are what a single check on the way in admitted. A row that lands is a
`Reserve` of the abstract specification, an acknowledgement that starts a tool is a
`Grant` on its row, and every other step changes neither (`StepKeepsPromise`).

**Model-checked only**: `EveryCallAnswered` and `LoserRereads` (liveness).

## 4. Deferred settlement

With `X402_SETTLE_ON_DELIVERY` a payment is verified and held at escrow, and
broadcast when the buyer accepts the deliverable. The model has both that flag
and `X402_ENFORCEMENT_ENABLED` on.

**State.** `contract` is the row's status, result (sound or unsound,
`S/verdict.ts`) and score (null or positive); `sett` the settlement row's status
or "none"; `chain` whether the transfer landed and whether the signature's
window is open; `req` where each request is, which answer it gave, what a sweep
saw, and what became of what it sent; `tally` the RepID events applied and
whether the buyer accepted (history).

Contracts share no row, so one contract is enough; the constants are sets of
requests of each kind and the set of faults that may occur.

**Actions.** One per await:
- escrow: `EscrowStarts`, `HoldPayment`, `LinkPayment`;
- delivery: `TakeWork`, `FileResult`, `RouteToDispute`, `HandlerThrows`,
  `FulfilDirectly`, `RewardDelivery`;
- the single updates `Cancel`, `Dispute`, `Resolve`;
- `SatisfyStarts`, which decides between paying and voiding, and the sweep
  `SweepContracts`, `SweepSettlements`;
- release: `LookUp`, `VoidExpired`, `Claim`, `SettleAnswered`/`SettleLost`,
  `Record`, `HandBack`;
- finalize: `Finalize`, `CloseContract`, `RewardSettlement`;
- void: `VoidLookUp`, `VoidPayment`;
- external: `TransferLands` (the nonce is spent once, inside the window),
  `TransferRefused`, `WindowPasses`, and `Die`.

An update of the contract goes through the trigger of
`20260516000002_phase2_9_service_contracts.sql` (`Transitions`). Under the fault
"db" a statement may fail, or be applied with its answer lost; under "net" the
facilitator's answer may be lost, before or after its transfer lands; under
"crash" the process of a request dies at any await. A refused claim, a refused
transfer and an expired window need no fault.

**Abstractions.** The facilitator's two calls (verify, settle) are one, since
both end in an exception alike. Left out: contract creation, the simulated mode,
the legacy branch, criteria binding, a provider without a wallet (refused before
the release), `last_error` and the failure trace, the
retry worker's attempt counter and backoff (they only delay it), and the tests
that a deliverable goes through. `validAfter` in the future cannot pass the
verification at escrow, and no code writes the contract status "expired".

**Runs.**

| Run | Question | Bounds |
|---|---|---|
| `settlement_faults` | all safety properties and the refinement, all faults | 2 escrows, 1 delivery, 2 satisfies, 1 sweeper; 1.5 M states |
| `dispute_panel` | liveness: a claim is given up (with the panel, section 5) | 1 escrow, 1 delivery, 1 satisfy, "net" |
| `settlement_stranded` | finding 1 | violated |

In `settlement_faults` two satisfies race each other and a void, the sweeper
repeats without end and two escrows race the unique row. A third satisfy adds no
new pair: what it meets is one row and at most one holder of the claim
(`OneReleaser`), and the proofs cover any number. For `ClaimIsGivenUp` one
satisfy is enough: only the holder hands the claim back, and what another
request may do to a row that is "settling" is void it, which gives it up.

Deadlock is not checked in any configuration: requests are finite in number, so
the system may stop when all are answered.

**Fairness** (`ClaimIsGivenUp`). Weak fairness on the steps of a release that
has arrived: database promises settle, and the HTTP client gives up on a silent
facilitator (Node's fetch, five minutes by default), which is `SettleLost`. The
run has no "db" and no "crash" of a settlement request: with either, a row can
stay "settling" for ever (section 9). Nothing makes a request arrive, a
transfer land or the window pass.

**Proved**, for any sets of requests and any faults (`SettlementAssumption`: the
kinds of request are disjoint): `TypeOK`, `OneReleaser`, `RecordedMeansPaid`,
`VoidIsFinal` and the refinement of `PayAfterDelivery`. The invariant
(`SettlementInvariant`) says what each phase of a request justifies: who releases
does so on an acceptance, who records, finalizes or rewards does so after a
transfer, at most one request holds the claim and the row is then "settling" or
"voided", and one request at most has the settled contract's reward to apply.
`OneReleaser` alone is not inductive: it needs that only a request in one of the
holding phases takes a row out of "settling" other than to void it
(`GoodRows` in `SettlementProofs`, proved of every action). `GoodStep` shows
that a step which moves one request, justified in its new phase and disturbing
nobody else's justification, keeps the invariant; there is then one lemma per
action.

A by-product, `SweepsFindNothing`: no sweep ever releases, in any state, because
the score it selects on is written in the update that leaves "fulfilled".

**Model-checked only**: `ClaimIsGivenUp` (liveness).

## 5. The dispute panel

`DisputePanel` adds to `DeferredSettlement` the queue of disputes. A party's
request is two writes, first the contract and then the queue
(`DisputeContract`, `FileDispute`); a handler's veto is the same two in the other
order (`FileVeto`, then `RouteToDispute`). A worker picks the oldest pending row
and claims it (`PickDispute`, `ClaimDispute`), hears it, writes the row
(`HearDispute`, `WriteRow`), the contract (`ResolveContract`) and the deltas
(`ApplyRuling`); whatever throws marks the row failed (`FailRow`). No answer from
the validators puts the row back as pending. The errors of three of these writes
are not looked at, so the ruling goes on whether or not they took effect.

Abstractions: a verdict is "someone is at fault" or "nobody is"; which side,
and the figures of PCP and the judge, are left out. A ruling is counted when its
first delta is applied. The contract's link to its queue row changes no status
and is left out. A deliverer or a disputer files at most one row,
so rows are named by who filed them.

**Run** `dispute_panel`: 1 escrow, 1 delivery, 1 satisfy, 1 party's dispute, 2
workers, one fault of the panel, the facilitator's answers lost ("net"); 130 k
states. Two workers race for a row, and one may pick it and claim it only after
the other has heard it and put it back; a dispute and a veto give one contract
two rows; the dispute meets a satisfy at every await. One fault at a time is what
partial failure needs: with more, only the number of rows that fail grows.

- `OneRulingPerRow`: a row's deltas are applied once. It rests on the claim gated
  on "pending" and on a thrown ruling ending in "failed", which nothing retries.
- `RulingExcludesReward`: a ruling on a party's dispute and the settlement's
  reward exclude each other. It rests on the order of the party's two writes and
  on the trigger; it does not hold of a handler's row, which is filed first.
- `RowIsReleased`, `ClaimIsGivenUp`: liveness. Fairness is that of section 4 and
  weak fairness on a worker's steps: the judge aborts a silent provider, and the
  HTTP client of the validators gives up on one. `RowIsReleased` is stated while
  no fault has happened: a worker that dies leaves its row "processing" for good.

**Proved** (`PanelProofs`), for any requests, handlers and workers and any number
of faults (`PanelAssumption`: a disputer is no other request):

- `PanelKeepsSettlement`: what the panel does to the contract, a request of
  section 4 may do, so every theorem of section 4 holds beside the panel;
- `PanelTypeOK`, `OneRulingPerRow` and `RulingExcludesReward`.

`OneRulingPerRow` is not inductive. The invariant (`PanelInvariant`) adds that a
row between its claim and its worker's last write is not pending and in one
worker's hands, and that it has no ruling until the worker applies one: hence a
hearing that is put back puts back an unruled row. `RulingExcludesReward` rests on
`PartiesDisputeFirst`, a party's row exists only beside a contested contract; on
`ContestedStays`, which goes through every action of section 4; and on
`RewardedOnce` of its invariant. `WorkerGood` shows that a step which moves one
worker and touches only the row it holds or takes keeps the invariant; there is
then one lemma per action.

**Model-checked only**: `RowIsReleased` and `ClaimIsGivenUp` (liveness).

## 6. RepID score updates and the failed-receipt settler

**State.** `score` is `repid_agents.current_repid`; `events` the audit rows, in
the order of their inserts; `receipts` whether a receipt is mirrored, fresh or
spent; `booked` the rows of `confirmed_gain_budget`, one for an agent's day and
one for each of its domains. `run` says where each run of `updateRepId` is and
what it has read and decided; `applier` is the setting in force: "app"
(`ENGINE_LEDGER_RECONCILE_MODE=enforce`), "both" (the default) or "trigger"
(`WRITER_DIRECT_APPLY=false`).

**Actions**, one per await: `Fetch` reads the agent; `Confirm` decides from the
receipt what the event is worth; `Reserve` is the transaction of
`claim_confirmed_gain` and `ClaimWrong` the gated update that spends a FAILED
receipt; `WriteRow` inserts the row, on which the trigger may move the score;
`Apply` is the application's own absolute write. `Mirror` and `NextDay` are the
kernel and the clock, `Die` a crash, `Fault` a call that fails or whose answer is
lost (with or without its effect). In the settler a pass wakes, previews each row
of a page, presents what it accepts and moves its cursor (`Wake`, `PassOver`,
`Accept`, `Applied`, `EndPass`); `Restart` forgets the cursor.

**Abstractions.** Price, need and domain multipliers are one `Gain` and one
`Wrong`; `smallGainCapParams` makes a day's cap less than a wrong, which is
`ScoreAssumption`. Decay takes off one of `Decays`. Whether a receipt is sealed,
signed, settled and not simulated is one field, `genuine`. A receipt's identity is
its place in the order of `created_at`. The trigger is taken to clamp, as
`scoring/score-event-writer.ts` and migration `20260831180000` describe it; a
comment at `engine/ledger-reconcile.ts:136` describes an older one that does not.

**Runs.**

| Run | Question | Bounds |
|---|---|---|
| `score_gains` | two runs, over the three appliers, present two receipts of one piece of work, another one in two domains, a wrong, and an event with its own price | 4 receipts, 2 days, 1 fault; 736 k states |
| `score_settler` | the settler beside the subject of a wrong, refused rows dated before and after it | 3 receipts, 3 days, pages of one row, 1 fault or restart; 67 k |

The day's cap is 3 and a gain 2, so the second gain of a day gets what is left and
the third nothing. Two runs are the fewest that read a budget or a receipt
together; two days are enough for a midnight between any two awaits. A page of
one row is the smallest that a refused row can fill.

**Fairness** (`score_settler`). Weak fairness on the settler's steps (its interval
fires, promises settle) and on the steps of a run. Nothing makes a subject
present a receipt, the kernel mirror one, or a day pass.

**Proved**, for any agents, receipts, requests, appliers and bounds: `TypeOK`
(scores and rows stay inside the clamp), `OneMovePerReceipt`, `GainsWithinBudget`
and `TriggerReplays`. The invariant (`ScoreInvariant`) has three parts:

- A spent receipt has one owner, a run that has spent it and not yet written its
  row, or a row (`OwnersDiffer`). Spending makes the run an owner and needs the
  receipt fresh, so no other owner exists; writing the row hands the ownership over.
  One piece of work is paid once because the unique index keeps two verified
  receipts of the same work from both being spent (`WorkPaidOnce`).
- `GainsWithinBudget` is not inductive: it must also count what is granted and not
  yet written. `BooksCover` says that under each key the rows and the runs that
  will still write one add up to no more than what is booked, and that no more is
  booked than the cap. A run that dies or whose answer is lost leaves its
  booking behind, hence "no more than".
- `TriggerReplays` needs `OnlyTheTrigger`: with the trigger alone no run reaches
  the application's own write.

The settler is proved beside them (`SSpec`): `STypeOK`, its pass and its slot
agree (`PassesOwnTheirRun`), and the three properties above hold with the settler
and its restarts (`SettlingMovesOnce`). A restart drops a run wherever it is,
also one that has spent its receipt (`RunDropped`). `SettlerAssumption` takes the
receipts to be finite in number.

**Model-checked only**: `WrongsAreNotOptIn` (liveness).

`TriggerReplays` says that with the trigger as the only applier the rows that
declare a delta replay to the score, through faults and crashes. Under "both" it is
false, and the code knows it (section 9).

## 7. Stake vault and owner authorization

**State.** `check` says where a request's approval is; `usedNonces` is the map of
this process and `claimed` the table. `rows` is `stake_deposits`, deposits and
debits; a run inserts at most one row, so rows are named by their runs. `queue` is
each builder's promise chain, its holder first; `refund` each withdrawal's
transfer; `bets` the bets; `barred` is history: the bets open since the
withdrawal was asked for.

**Actions.** `Present`, `Verify`, `ReadLedger`, `InsertNonce` are
checkOwnerAuthorization. `LookForDuplicate`, `VerifyTransfer`, `RecordDeposit` are
depositStake. `Begin`, `CheckBets`, `CheckTotal` come before the line; `ReadReal`,
`Send`, `AwaitReceipt`, `Debit` are the holder's steps. `Land` is the chain,
`PriceBet`, `InsertBet`, `ResolveBet` the bets, `Restart` the process, `Tick` the
clock against an approval's expiry.

**Abstractions.** A signature is or is not the owner's for these parameters. A
transfer in `Transfer` is confirmed on the chain; amounts are whole. A bet is placed,
open or resolved, and what it does to scores is left out. Rows of the older
simulated path count in the total and not in the verified stake, as in the code.

**Runs.** `stake_vault`: two deposits of one transfer, two withdrawals that carry
one approval and an operator's one, another builder's money in the same escrow, an
older simulated stake, a bet, one fault or restart; 456 k states. Three
withdrawals of 2 over verified deposits of at most 4 pass the check of the total
together and cannot all be paid; one bet is enough to be open at each step. An
approval that expires after one tick is used before, at and after its end.
`stake_twice` is finding 2.

**Fairness.** Weak fairness on a withdrawal's steps and on the chain's answer to
a broadcast transfer (`tx.wait` has no timeout of its own: without that answer the
line stands still, a hazard in `PROJECT.json`). Nothing makes a request arrive.

**Proved**, for any builders, requests, approvals and bounds: `TypeOK`,
`ApprovalPassesOnce`, `DebitsAreRefunds`, `RefundsCovered`, `OpenBetsHold`, and
`WithdrawalsTakeTurns` (`LockExcludes`). The argument, in `VaultInvariant`: a check
that has passed its signature carries an approval its owner signed and, once
through, its nonce is in the table, whose primary key refuses the next
(`ChecksAreEarned`). From its read of the stake to its debit a withdrawal is the
first of its builder's line (`WithdrawalsTakeTurns`, which needs that lines hold runs
of that builder, once each: `LinesAreRuns`), and a run that debits waits for a refund
that landed (`RefundFollowsRun`).

For the money: what the first in line found is still there until its debit, since
deposits only add and nobody else of that builder debits (`TakersAreBacked`), so a
debit leaves no stake below nothing (`StakesStand`). Without a fault every refund on
its way belongs to a run and every landed one is debited or about to be
(`RefundsAreTracked`); what has left is then the debits and at most one amount more,
which is backed. For the bets: none that was open when the withdrawal was asked for
opens again, and a run that looked has none (`BarredBetsRest`).

**Model-checked only**: `WithdrawalsReturn` (liveness). The part of `RefundsCovered`
about money, and `OpenBetsHold`, are stated for behaviours without a fault: with one
they fail, see section 9.

## 8. Emergency halt

**State.** `switch` is the operator's column; `cachedFlag`, `cachedAt`,
`failBackoffUntil`, `lastKnownGood`, `readFailing` are the module's variables;
`read` each reader's query under way, `due` the refresher's timer, `decision` each
worker's last decision. `had` and `pulled` are history.

**Actions.** A read is asked (`WorkerTick`, `Refresh`), evaluated by the database
(`Evaluate`) and answered (`Arrive`, or `FailRead` for an error or a timeout), so
answers may overtake each other. `Flip` is the operator and `Tick` the clock; a timer
fires when it is due.

**Runs.** `emergency_halt`: one worker and the refresher, a cache of 2 ticks, a
timeout of 1, an interval of 2, two flips among "off", "on" and a missing column,
two failed reads, 7 ticks; 3.3 M states. The defaults have the same shape (5 s, 1 s,
5 s): `TimeoutMs < Interval` and `TimeoutMs <= CacheMs` are in `HaltAssumption`.
Seven ticks hold a whole window of `GuardIsFresh` (6 with the missing column) and the
step after it. Workers share the cache and write it alike, so what a second one would
do, the first does later. `halt_released` is finding 3.

`AnswersAreFresh`: what a worker goes by was true within the cache's life, counted
from when it was asked. `GuardIsFresh`: the guard that fails closed admits on a
recent good "off" and, while reads succeed, refuses on a recent "on". Its window is
an interval and two timeouts; a column that goes missing adds one life of the cache,
because that answer ends the failure and not the back-off. Both assume timers that
fire on time.

**Proved**, for any workers, values, delays and numbers of flips and failures
(`HaltAssumption`): `TypeOK`, `AnswersAreFresh`, `GuardIsFresh`. The invariant
(`HaltInvariant`) dates everything by the moment its read was asked for, not by when
the answer came: the answers under way (`ReadsAreYoung`), the cached flag
(`CacheIsDated`) and the guard's view (`ViewIsDated`). That is what makes answers that
overtake each other harmless within the windows. `ViewIsDated` bounds the view's age
twice, by the refresher's round and by the back-off a missing column leaves behind;
`BackoffEnds` says that any other good read ends both.

## 9. Findings

Each is a run that TLC violates, quoting the text the code disagrees with.

1. `settlement_stranded`: the retry sweep does not find the contracts it was
   written for (`S/x402-release-retry-worker.ts:119` against its lines 2 and 14).
2. `stake_twice`: one transfer backs two stakes, because two calls look for an
   earlier row before either has inserted its own and no constraint refuses the
   second (`S/stake-vault.ts:94` against `S/deposit-verifier.ts:24`).
3. `halt_released`: a worker's older read of "off", answered after the refresher's
   "on", sets `lastKnownGood` back; if the next read fails the worker goes on
   although the switch is pulled (`S/emergency-halt.ts:343` against line 84).

The models also contain these, which no run states as a property:

- an ALLOW row under a version already superseded (`K/gate.ts:253`; line 18
  says that what comes from the ledger is read again under the lock);
- a rejecting satisfy that voids a row whose release is in flight and answers that
  no funds moved, though they do (`S/x402-deferred-settlement.ts:404`,
  `routes/v1/contracts.ts:978`);
- an answer lost after the broadcast, which hands the row back as "authorized"
  although the money moved (`S/x402-deferred-settlement.ts:298`, `:69`);
- a hand-back or a claim whose answer fails, which leaves the row "settling" with
  nobody behind it (`:296`, `:71`);
- a handler's claim that does not exclude a second handler
  (`S/service-handler-base.ts:154`, line 21);
- a handler's dispute row filed although the contract's own update is then refused:
  the panel rules on a contract that may be settled, and a retry files a second row
  (`S/service-handler-base.ts:266`);
- a contract disputed twice, which the trigger admits: two rows, two rulings
  (`routes/v1/contracts.ts:1247`);
- a receipt spent without a score that moved, when the claim's answer or the row's
  insert is lost (`engine/repid-update.ts:586`, against the comment at 582);
- a movement lost between two updates of one agent in the default setting
  (`engine/repid-update.ts:945`);
- a refund that is out and not debited, so the stake can be withdrawn again
  (`S/stake-vault.ts:279`).

In the settlement the money still moves at most once and only after acceptance:
that is `PaysAfterDelivery`, proved.

## 10. What is not modelled, and the plan

1. **Recovery worker** (`S/x402-recovery-worker.ts`) beside the retry worker: its
   guard ignores the error of its own read.
2. **Human-in-the-loop**: an answer racing the expiry sweep.
3. Score updates: the other callers' prices, redemption and badges,
   `registerAgent`, the supply rates, the earned-floor trigger,
   `GROUNDING_MODE=enforce`, the numeric model of authority; `applyValidationEvent`
   of the settlement and the panel as further callers of one score.
4. Vault: the simulated path, several processes over one table (the line lives in
   one), what a bet's resolution does to scores.
5. Halt: the shadow and off modes, the guard that fails open.
6. Kernel: the JSONL sink; the lock with a `receiptIndexer` that never settles.
7. Contracts: creation and listing, the simulated mode, the legacy branch without
   `X402_SETTLE_ON_DELIVERY`, criteria binding, outcomes.
8. Proofs: that the settler, with its restarts, refines score updates in which any
   slot may present any receipt; an abstract specification of the vault (a balance
   per builder that only covered refunds lower) and its refinement.

The HAL, the providers, zkRepID and the Solidity contracts are numeric,
cryptographic or another language, and keep little shared state; most of the
repository's remaining lines are generated types, scripts, read-only routes and
calls of model providers.

Out of the provers' reach and left to TLC: liveness under fairness and ENABLED
(`EveryCallAnswered`, `LoserRereads`, `RowIsReleased`, `ClaimIsGivenUp`,
`WrongsAreNotOptIn`, `WithdrawalsReturn`). What the three violated runs check is
false and has no theorem. The library's induction theorems take an operator as a
parameter, which the installed provers cannot instantiate; `DataLemmas` states
induction with a set instead (`LeastSubset`, from a well-founded order on finite
sets, then `SubsetInduction` and `NaturalInduction`), and from it what the proofs
need of `SumFunctionOnSet`: that it exists on finite sets, loses and gains an element,
is monotone, and is kept by a change of indices.
