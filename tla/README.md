# Beamable DePIN in TLA+

The repository holds a Solana program (`src/rust`), a TypeScript SDK
(`src/ts/packages/beamable-depin`) and two node programs, worker and checker
(`src/ts/nodes`). Workers offer servers; checkers measure them every day and
post signed proofs to them; a worker aggregates a day's proofs and submits them
to the program; the program credits the checkers that were drawn for the worker
and proved their work; checkers turn their balances into tokens that are locked
in a treasury and unlocked with a penalty that falls with time. Everything is
counted in *periods*: days since a genesis day.

## Inventory

| Component | State | Operations | Interacts with |
|---|---|---|---|
| Checker schedule (`BMBState`) | ring of 16 (period, count) entries, write position | `ActivateCheckerLicenses` (administrator), lookup of a day's count | read by `SubmitWorkerProof`, by workers (`POST /proof`) and by checkers |
| Worker and checker instructions | metadata accounts per licence and owner, `WorkerProof` per licence and day, balances in `GlobalRewards` | `ActivateWorker`, `UpdateWorkerUri`, `ActivateChecker`, `SubmitWorkerProof`, `PayoutCheckerRewards` | licences (compressed NFTs) change hands outside; payouts call the treasury |
| Treasury | token account, `TreasuryState.locked_balance`, `LockedTokens` per owner and schedule | `grant_locked` (from payouts), `Unlock` | SPL token program |
| InitNetwork | length of the `GlobalRewards` account | `InitNetwork`, called until the account has its size | everything above |
| Reward calendar | – | `get_month_from_period`, `get_checker_reward` | `SubmitWorkerProof` |
| Escrow, infra offers | own accounts | crates the entry point does not dispatch | – |
| Worker: proof collection | bucket of proofs (S3), handlers in flight | `POST /proof`, `storeProof`, `listProofsByPeriod` | checkers, chain, aggregation |
| Worker: submit service | `isRunning`, `currentPeriod`, the loop's position | `start`, `stop`, `runLoop`, retries | bucket, chain |
| Worker: BMBState cache | one cached account, 2-minute TTL | `readFromStateCached` | `POST /proof` |
| Checker: daily service | `isRunning`, `currentPeriod`, discovery and health sessions | daily loop, rounds of discovery, sessions, abort timers | chain, workers |
| Worker and checker start-up | what was read of licence and metadata | `WorkerNode.start`, `CheckerNode.start` | chain, licences |
| Checker: posting | one attempt counter per session | `buildAndSendSignedProof`, `withRetry` | `POST /proof` |
| SDK | – | codecs, addresses, BRAND, Merkle root, signatures | all |

What is hard about it:

* **Concurrency and ordering.** Instructions of many parties interleave on
  chain; posts of checkers interleave inside the worker at every `await`; the
  bucket is listed while it is being written.
* **Time.** Almost every guard compares days, and tasks, retries and posts cross
  midnight. The count of a day is read during the day and again the day after.
* **Failure.** RPC and S3 calls fail, hang or lose their answer; processes
  restart with empty memory; a checker gives up on a post that is still handled.
* **Arithmetic.** u16 periods that wrap, u32 balances that saturate, u64
  products, two rounding divisions, a ring buffer that wraps.

What makes each component correct:

* *Schedule*: a lookup answers with the announcement in force; the answer for a
  day that has begun does not change.
* *Treasury*: it holds what it owes; the committed balance is exactly what the
  lock accounts say; every account is paid once, and waiting never costs.
* *Instructions*: balances can be recomputed from the proofs; nothing is
  rewarded before its day is over; a payout moves the balance of a licence into
  tokens locked for its holder, completely or not at all.
* *Submit service*: what it reports is on chain; a task ends with its day; no day
  is skipped for ever; proofs stored on a day reach the chain (which fails, see
  *Findings*).
* *Daily service*: each worker the checker is drawn for is measured once a day, and
  not given up while there is time; sessions stop and post before their day is
  over; all of them are awaited; tasks and days end. The posts and the ends
  depend on workers that finish their answers.
* *Admission*: a node that started is accepted by the program and by the workers it
  posts to; soon after midnight a proof is checked with the count in force.
* *Collection*: a receipt means a stored proof; a listing misses no receipt issued
  before it; one proof per licence and day.

## Modules

`CheckerSchedule` (abstract) ← `BmbState` ← `BmbStateProofs`;
`RewardVault` (abstract) ← `Treasury` ← `TreasuryProofs`;
`Rewards`, `BmbState` and `Treasury` composed by `Depin` ← `DepinProofs`, instantiated
by `MCDepin` with the rewards of `Calendar`;
`Rewards` and `BmbState` composed with the nodes by `Admission` ← `AdmissionProofs`,
instantiated by `MCAdmission`;
`ProofSubmit` ← `ProofSubmitProofs`, instantiated by `MCProofSubmit`;
`ProofCollection` ← `ProofCollectionProofs`, instantiated by `MCProofCollection`;
`CheckerNode` ← `CheckerNodeProofs`, instantiated by `MCCheckerNode`;
`Totals` (the sum of a function over a finite set, used by `Treasury` and `Depin`) ←
`NumberLemmas` (facts about sums, division, least elements and rings, used by all
proof modules but those of the submission and the collection).

**BmbState** models `RingBuffer`, `BMBState` and `process_activate_checker_licenses`.
`data` and `current_index` are the fields of the ring; an entry is the pair that
a u64 word encodes, and the word 0, which the code takes for "unwritten", is
`Empty`. `ActivateCheckerLicenses` has the guards `AfterToday` and
`AfterLastEntry` (the code's `get_all_entries().last()`, by array position) and
the push. `get_checker_count_for_period` is the walk of the code, slot by slot.
`LookUp` records an answer, so that the abstract schedule can speak of it.

**CheckerSchedule** is what the account promises: announced days, and questions
answered from them. It has two regimes. Until `Retain` announcements were made
announced days increase and answers are exact; later, one announcement is
forgotten per new one and an answer is *some* retained announcement that is not
in the future of the day asked about. This is what the code keeps of its promise
once the ring is full, see *Findings*.

**Treasury** models `grant_locked`, `process_unlock` and their helpers. A lock
account is identified by owner and lock day (the duration is a constant of the
treasury's configuration). Arithmetic has the widths of the code: `SatAdd` and
`SatSub` for `saturating_*`, `% U16` for the unlock period, `% U64` for the
product of the penalty. `Fund` is a token transfer to the treasury.

**RewardVault** is what the treasury promises, without accounts and calendar:
tokens are free, claimed or paid; a claim is covered when made; settling pays at
least a tenth and frees the rest.

**Rewards** models the worker and checker instructions. `verify_license` is
abstracted to "the owner the instruction names holds the licence now", which is
why metadata is looked up under the present owner (`WorkerAccount`,
`CheckerAccount`). `PreviousPeriod` is the u16 subtraction. A proof is the set of
its bits, and BRAND a constant operator that returns `Sample` different numbers
below the count.

**Depin** puts them on one chain: one action per instruction, each one
transaction, and one clock. A payout is `PayoutCheckerRewards` of `Rewards`
conjoined with `grant_locked` of `Treasury`; a proof uses the lookup of `BmbState`.
`InitNetwork` grows `rewards_len`; the treasury's accounts exist from its first call
on, which every payout comes after, so they need no variable. The program checks
neither discriminator nor length of `GlobalRewards`, so neither do `Submit` and
`Payout`: they need the bytes they touch (`Room`).

**Calendar** has `get_month_from_period` and `get_checker_reward` as functions. The
u16 periods are few enough to try all of them: its assumptions compare them with
the lengths of months and say that the reward never rises.

**ProofSubmit** models `ProofSubmitService`. `pc` says where the loop waits:
`check` (top of the loop), `settle` (the random delay after midnight), `attempt`
and `send` (inside `withRetry`), `backoff`, `wait` (the minute after a failed
task), `sleep` (until the next day), `stopped`. Between two awaits the code runs
in one step. Calls may fail or hang, and a transaction may be executed without
its answer arriving, when `Faults` is TRUE. `stored` has the proofs of all checkers,
also of those BRAND did not draw (`Drawn`): they keep a listing from being empty but
set no bit (`Bitmap`), so a proof without bits may be submitted. The chain is
reduced to the guards of `SubmitWorkerProof` that depend on the day.

**ProofCollection** models a session's posts and retries, the handler's steps
between awaits (`Arrive`, `HeadObject`, `PutObject`), the bucket and the
paginated listing (`ListPage`, `GetObject`). A proof is identified by the session
that measured it. A post that is lost is one that takes no further step; a
checker that times out does not stop the handler.

**CheckerNode** models `CheckerService` with `WorkerDiscoveryService`,
`HealthCheckManager` and `HealthCheckSession`. A tick is ten minutes. `pc`
says where the loop waits: `settle` (the delay after midnight), `read` and `list`
(BMBState and the worker accounts), `discover` (a round of fetches), `pause`
(between rounds), `health` (`waitForAll`), `closing` (the agent), `retry` (the
minute after a failed task), `sleep`, `check` (top of the loop), `down`. `entry`
follows a worker through its day: fetched, pending for the next round, then its
session waiting, checking, posting, ended. Both abort timers share `abortAt`, since
one is cleared before the other is set; `aborted` and `closed` say what later
continuations of a day will find. Calls take any number of ticks or fail; a
restart loses everything, also what was measured that day. A post has a time limit
for each part of the answer and none for the whole, so a worker of `Trickling` ends it
when it likes, or never; at the others the five attempts take at most `PostTime`.

**Admission** models `CheckerNode.start`, `WorkerNode.start`, the licence checks of
`POST /proof` and `BMBStateAccount.readFromStateCached`, on the chain of `Rewards` and
`BmbState`. A node's `pc` is the account it reads next (`licence`, `metadata`) or the
transaction it sends (`activate`, `update`), then `running`. Each read and each
transaction is one step, so that owners sell and activate in between. A
transaction names the owner read before and fails if he sold; it may be executed
and its confirmation lost, which ends the process. A request's `pc` goes through
`licence`, `asset`, `fetch` and `fetched` to the decision `admitted`, `invalid` or
`inactive`. Requests share `cache`: two may miss at the same time, and the answer
that arrives last is kept. A tick is the longest a fetch takes; in its last tick a
cache entry may be found or not. A transaction that reported a failure and is
executed later is left out.

Operators whose comment begins with "A faulty" are not part of the model: each
replaces the operator that follows it with a plausible mistake, to confirm that
a property notices.

## Runs

| Run | Question | Bounds | Result |
|---|---|---|---|
| `bmb_schedule` | does the ring answer as promised, and implement `CheckerSchedule`? | 3 slots, days 0–5, counts 0 and 1, 5 activations | holds |
| `bmb_wrapped_lookup` | does a lookup always find the most recent announcement? | same | violated |
| `bmb_wrapped_order` | is a new announcement always later than all others? | same | violated |
| `treasury` | solvency, exactness, single payment, refinement of `RewardVault` | 2 owners, days 0–3, locks of 2 days, u16 of 5 values, 5 tokens, amounts 2 and 3 | holds |
| `depin` | balances, payouts, holders, the whole program | 2 owners and signers, 1 worker, 1 checker licence of 2 indexes, days 1–4, u32 of 3 values, 2 announcements, 1 transfer, 3 tokens, `GlobalRewards` in 3 sizes | holds |
| `depin_genesis` | are proofs only for days that are over, from day 0 on? | days 0–1, u16 of 3 values | violated |
| `proof_submit` | retries, faults, stop and restart, liveness of the loop | 3 days, 2 checkers, 2 attempts, 1 restart | holds |
| `proof_submit_early_listing` | do stored proofs reach the chain when nothing fails? | 2 days, 1 checker, 2 attempts, no faults, no restarts | violated |
| `proof_collection` | receipts, listing, writes under concurrency | 2 licences, 2 sessions, 2 attempts each, 2 days | holds |
| `checker_node` | is every drawn worker measured once, in time and awaited; does the loop go on? | 2 workers, one of them trickling, 2 days of 6 ticks, pages of 2, 1 restart | holds |
| `admission` | are nodes that started accepted; is the count the one in force? | 1 worker node, 1 checker node, 2 owners, 2 URIs, 2 requests, days 0–2 of 3 ticks, cache of 1 tick, 2 announcements, 4 events | holds |
| `proof_collection_race` | is at most one proof per licence and day accepted? | 1 licence, 2 sessions, 1 attempt | violated |

Why the bounds are enough. Three slots with five activations take the ring
through its first round, the activation that fills it and two more, with days
left between and on announcements. Two owners, two amounts and four days give
lock accounts that are added to, unlocked early and late, and unlocked while
others are open; a u16 of five values makes the unlock day of day 3 wrap. In
`depin`, `GlobalRewards` has room for no balance, for one and for both, and proofs and
payouts arrive at each size; u32 has three values and a reward is 1 or 2, so balances saturate; the
count 1 is below `Sample` (no proof possible), the count 3 draws an index beyond
`Elements` (the whole submission fails), an index is outside the licences
held, and the transfer puts every owner in the place of the former one. Two days
after the first and two attempts let a retry cross midnight before and after
each of its steps; one checker is drawn every day and the other on the second day
only, so listings are empty, without a bit, partial and full. Two sessions on one licence or on two, with two posts each,
give every pair of handlers that can meet on an object. In `checker_node` the day is
shortened to six ticks and the thresholds with it, their order as in the code: a
start can fall into the skipped end of the day, the middle or the first minutes; a
round of discovery fits before its abort or is cut off by it; a session has time
for several checks, for its minimal run only, or for none; a task runs past
midnight. The checker is drawn for one worker on both days and for the other on
the first. In `admission` four events are enough for a node to start, the licence to
be sold and bought back or activated by somebody else, and the node to start
again, or for a start and three posts; two requests give every pair of concurrent
fetches; two announcements in three days put a change of the count on either
midnight. Deadlock is not checked:
all instances stop at their last day, and checkers, owners and administrators owe
nothing.

Symmetry is used for safety only: owners (who are also the signers) in `depin`,
licences in `proof_collection`, request slots in `admission`.

## Fairness

`ProofSubmit` and `CheckerNode` have liveness properties.

In `ProofSubmit`, `WF_vars(Loop)`: the event loop of
Node runs each continuation that is due, timers included, and every call in the
loop ends with a result or an error (a call that hangs is one that is
interrupted by midnight any number of times, and then fails). The second half is
an assumption: the RPC client makes a bounded number of attempts, but the S3
client is given no time limit. `TasksEnd` and `DaysPickedUp` rest on it.
`SF_vars(AdvancePeriod)`: days end whatever the service does. Signals, crashes
and checkers get no fairness. `OnTime` keeps midnight from passing while the loop
has a timer due within seconds or minutes of it, and from passing twice in one
backoff or pause, which are far shorter than a day; without faults it also says
that calls take no day. `ProofsReachTheChain` is refuted under these
assumptions, which favour the service: the counterexample is an empty listing, not
a timer that is late.

In `CheckerNode`, `WF_vars(Tick)`: time goes on; a tick waits for what is due in it
(`Quiet`), which is never more than a few steps. `WF_vars(Loop)`: the loop's timers
fire in the tick in which they are due, and its calls to the chain, each with a
bounded number of attempts, end. `WF_vars(NextCheck(s))`: so do the timers of all
sessions. `WF_vars(Session(s))`, only for workers outside `Trickling`: their fetches,
checks and posts are answered or fail. The undici agent limits the wait for the
headers and each gap between two parts of a body, not the whole, and only fetches
and checks have an abort signal; so this is an assumption on the worker, and
nothing of the kind is said of a trickling one. Such a worker
may hold its session, and with it `waitForAll` and the loop, for ever. `TasksEnd` and
`DaysPickedUp` say that this is the only way: a task ends unless it waits for ever
for a post, or for a check on a day whose bad document keeps the timers from it
(`HeldForEver`), and a day is turned to unless an earlier one is held so. That
`PostTime` is less than `HEALTH_ABORT_THRESHOLD`, on which `PostsInTime` rests, is an
assumption on the same workers. A check here begins when its session asks for it;
that requests queue for a slot (`p-limit`), also behind checks that trickle,
is part of the time a check may take.
Nothing is owed by `Exit` and `Start`, so `DaysPickedUp` excepts a node that is down.

## Findings

* The ring (`bmb_wrapped_lookup`, `bmb_wrapped_order`). A walk that starts at the
  write position meets the oldest entry first once the ring is full, and the
  entry in the last array slot is not the latest. `LookupMostRecent`,
  `EntriesIncrease` and `StartedPeriodsFixed` hold, and are proved, up to that
  point; the abstract schedule says what remains after it.
* The early listing (`proof_submit_early_listing`). The program gives a worker 24 hours
  after a day to submit its proofs. The worker lists them some minutes after the
  day has begun; when there are none it is done with the day, and what is posted later,
  which is when checkers normally post, is never submitted. A task that does find a
  proof is rejected until midnight, since the program takes a day's proofs on the day
  after, and the first retry past midnight lands (`OnlyLateRetriesLand`).
* The genesis day (`depin_genesis`). `current_period - 1` wraps. This depends on a
  build without overflow checks, which is the default of a release build and
  what the workspace's `Cargo.toml` leaves in place.
* Check and write (`proof_collection_race`). Two posts pass the existence check
  before either proof is written, and both get a receipt.

Five observations contradict no document, so no run refutes them; the models have the
behaviour and the properties are stated around it.

* Metadata is addressed by licence and *owner* in the program, and looked up by
  licence and the node's *own key* by both nodes and by the worker's check of a
  post. A node whose key is a delegate of the owner refuses to start or is never
  admitted; a former owner who had delegated to his own key is still admitted after
  selling. `StartedWorkerAccepted` is limited to nodes with the holder's key.
* The worker refuses a checker index `>` the count. Indexes begin at 0, so the index
  equal to the count is admitted (`Decide`).
* A discovery document without its worker section makes `onResolved` throw inside the
  round. The discovery is rejected, the sessions started so far are awaited, but the
  other fetches of the round go on and start sessions that nobody awaits and whose
  agent is closed. The safety properties of sessions except such days
  (`DocumentsUsable`).
* A check that is cut off by the abort timer, or made with a closed agent, counts as
  a failure of the worker (`AbortHealth`, `Checking`).
* A post to a worker that sends its answer in small parts never ends: it has no abort
  signal, and its time limit starts anew with each part. The session, `waitForAll` and
  the daily loop wait with it, so that the checker measures nobody on the days that
  follow (`PostDone`, `HeldForEver`).

## Proofs

The theorems hold for every value of the constants that satisfies the assumptions
stated in the modules (`BmbAssumption`, `TreasuryAssumption`, `ProductFits`,
`RewardsAssumption`, `DepinAssumption`, `PartsAssumption`, `SubmitAssumption`,
`CollectionAssumption`, `CheckerAssumption`, `AdmissionAssumption`), which TLC
evaluates on the runs. Every safety invariant and every action property that a
passing run checks is stated by a theorem.

*The ring.* `RingInvariant` proves the inductive invariant `IInv`: types, and
`FirstRound`, which says that while fewer than `Capacity` activations succeeded
the written slots are exactly those below the write position, and that up to
the full ring their periods increase with the slot. Neither the lookup nor the
order of entries is inductive alone: a lookup is right because of the order,
and the order is kept because the last written slot is the newest. From `IInv`
follow `LookupCorrect`, `EntriesIncreaseHolds`, `StartedPeriodsFixedHolds` and
the refinement `RingImplementsSchedule`. The walk is handled by `WalkSlots` (it
visits every slot) and `LookupResult` (what its first hit is).

*The treasury.* `TreasuryInvariant` proves `TypeOK`, `Solvent` and
`CommitmentExact` together: an unlock keeps the treasury solvent because the
counter is the sum of the open accounts, hence at least the account at hand; the
counter is exact because saturation never happens, hence because it is bounded
by the balance. The sum is the cardinality of the set of locked units, which
lets additions and removals be proved with the library's facts about finite
sets instead of an induction over accounts. `WaitingPaysHolds` rests on `RateBounds`
and `DivMono` (the penalty rate falls with time, and rounding is monotone).
`SettledForeverHolds` needs the types only. `WalletsArePayoutsHolds` follows one owner's
sum (`TotalAdd`, `TotalSame` in `NumberLemmas`). `TreasuryImplementsVault` maps every
instruction to a step of the vault: the units of one owner change by the same
blocks as all of them (`GrantClaims`, `UnlockClaims`), a grant is a commitment
because it finds its amount free, and an unlock settles because the payout is
between a tenth and the whole of the account.

*The submission service.* The properties are not inductive: `SubmitInvariant` adds
`TaskOfDay` (the task at hand is that of `currentPeriod`, a day that has begun; the
two variables are assigned together) and `SentIsStored` (what is about to be sent
was read from the bucket). Because objects are never removed, what was stored when
the proof was built is stored when it lands, however many attempts and restarts
later; because a task is only left when its day is noticed to be over, a proof
that lands is one day old and comes from a retry that crossed midnight.

*The collection.* `CollectionInvariant` adds what the concurrent handlers may rely
on between their awaits (`HandlersKnow`): a post that got past the arrival carries
the day of its session, one that was answered 200 has its object, and one that is
about to write was not late. None of it is checked again by the code; it stays true
because a session keeps its day (`SessionSteps`) and an object that is there stays
there (`ObjectsStay`). `PostSteps` lists what a step can make of one post, so that
no other session or attempt disturbs it. `ListingComplete` does the same for the
paged listing: what it owes is in the bucket, and among what is left, on the page,
or read.

*The whole program.* The theorems of an instantiated module cannot be cited by this
prover, so `ProgramInvariant` proves the treasury's invariant again over the
program's variables, from what the instructions do to them (`PayoutEffect`,
`UnlockEffect`), and adds `PayoutsAreLocked`: the sum of what left the balances is
the sum of what was ever locked. `PaidToHolderHolds` goes through every instruction
(`BalanceFalls`). `ProofsOfFinishedDaysHolds` and `BalancesReplayableHolds` assume
`Launch # 0`, for the reason `depin_genesis` shows. The second one's inductive form is
`Replay`: a balance and what was paid of it are what the proofs that select the
index add up to, saturation apart. It needs that counts of past days are fixed
(`CountFixed`, from `RingFilled` and `RingCountFixed`), which ends with the first round of
the ring; so the invariant, and the property, speak of that time.
`ProgramImplementsTreasury` and `ProgramImplementsBmbState` are refinements by
projection: the program restricted to the variables of a part does only what the
part's own specification allows.

*The daily service.* No property of it is inductive. `ServiceInvariant` relates three
clocks, of the loop, of the two abort timers and of each session. `Task` says that the
loop's day has begun, is not closed, and that its timer is due at the day's
threshold or was due in the past. `Placed` says what may exist of a worker on a
day: nothing before its discovery, and, on days whose documents are usable,
nothing running that does not belong to the task in hand. `Timely` bounds a
session by its own cutoff (`OwnTime`), on all days, and by the end of its day
(`DayTime`), on days whose documents are usable: there the task's abort timer stands
over it. A post to a trickling worker has no bound of its own and is left out of
`OwnTime`. `Measured` carries `EligibleMeasured` through the rounds of discovery.

*Admission.* `AdmissionInvariant` has three parts. For the nodes: the account of a
licence and its holder is written by his node and by nobody else while the node
counts as undisturbed; a node of the same licence with another key may write it
only if the chain names it, and then it is not the account of a started one
(`WorkerWrites`). `StartedCheckerDelegated` is the invariant behind
`StartedCheckerAdmitted`: what a checker node read or wrote under its own address is
what a worker looks up. For the copies of BMBState: `PostCopies` and `CacheCopies`
say that a copy agrees with the account on every day that had begun when it was
read. An announcement keeps this, because it cannot change such a day
(`CountFixed`); a late copy may replace a fresher one in the cache, but its expiry
still bounds when it was read, since a fetch takes at most a tick. So a decision
after that time uses the count in force (`InForce`). All of this is said for the
time before the ring is full; later the account itself changes its answers.
`AdmissionImplementsBmbState` maps a tick to the next day or to a stutter.

| Theorem | Statement |
|---|---|
| `BmbStateProofs`: `TypeCorrect`, `LookupCorrect` | `Spec => []TypeOK`, `Spec => []LookupMostRecent` |
| `EntriesIncreaseHolds`, `StartedPeriodsFixedHolds` | the two action properties of the ring |
| `RingImplementsSchedule` | `Spec => RefinesSchedule` |
| `TreasuryProofs`: `TypeCorrect`, `SolventHolds`, `CommitmentExactHolds`, `WaitingPaysHolds` | `Spec => []P` for the invariant each is named for |
| `WalletsArePayoutsHolds` | `Spec => []WalletsArePayouts` |
| `SettledForeverHolds` | `Spec => SettledForever` |
| `TreasuryImplementsVault` | `Spec => RefinesVault` |
| `ProofSubmitProofs`: `TypeCorrect`, `ReportedIsOnChainHolds`, `SelectedHaveStoredHolds` | `Spec => []P` for the invariant each is named for |
| `OnlyLateRetriesLandHolds` | `Spec => OnlyLateRetriesLand` |
| `ProofCollectionProofs`: `TypeCorrect`, `ReceiptsAreStoredHolds`, `ReceiptsAggregatedHolds` | `Spec => []P` for the invariant each is named for |
| `WritesAreTimelyHolds` | `Spec => WritesAreTimely` |
| `DepinProofs`: `TypeCorrect`, `PayoutsAreLockedHolds` | `Spec => []P` for the invariant each is named for |
| `ProofsOfFinishedDaysHolds`, `BalancesReplayableHolds` | `Spec => []P`, when the program is launched after day 0 |
| `PaidToHolderHolds` | `Spec => PaidToHolder` |
| `ProgramImplementsTreasury`, `ProgramImplementsBmbState` | `Spec => Treasury!Spec`, `Spec => Bmb!Spec` |
| `CheckerNodeProofs`: `TypeCorrect`, `SessionsAwaitedHolds`, `PostsInTimeHolds`, `EligibleMeasuredHolds` | `Spec => []P` for the invariant each is named for |
| `ChecksStopEarlyHolds`, `MeasuredOnceHolds` | the two action properties of the service |
| `AdmissionProofs`: `TypeCorrect`, `StartedWorkerAcceptedHolds` | `Spec => []P` for the invariant each is named for |
| `StartedCheckerAdmittedHolds` | `Spec => StartedCheckerAdmitted` |
| `CountInForceHolds` | `Spec => CountInForce` |
| `AdmissionImplementsBmbState` | `Spec => Bmb!Spec` |

Model-checked only: the liveness properties (`TasksEnd` and `DaysPickedUp` of
`ProofSubmit` and of `CheckerNode`), which rest on fairness and `ENABLED` and are out of
this prover's reach. The assumptions of `Calendar` are evaluated for every u16
period.

## Not modelled

Escrow and infra offers, which the entry point does not dispatch; the arithmetic of
BRAND, a hash chain that the modules take as a constant (different numbers below
the count; under 512 the program's version runs out of compute, which `Rewards` has
as a failed instruction, and the TypeScript version loops for ever and freezes a node,
which the models of the nodes leave out: they assume a count of at least 512 in
force); account layouts, address
derivation, signatures, proof roots and Merkle proofs; the discovery document, the
answers of `/health` and the configuration, which keep no state; the values of
latency and uptime, of which only the presence of a sample is kept; a transaction
that is executed after its sender gave it up. The reasons are in the component list
of `PROJECT.json`; the hazards there carry a note where no property covers them.
The `suspended_at` fields are read by the program but written by nothing, so they
are left out.

## Plan

1. Proofs: further links between the parts, such as the lookups of the program and
   of admission against `CheckerSchedule`, and the day arithmetic of `Rewards`.
2. `Escrow`, should the program dispatch it one day.
