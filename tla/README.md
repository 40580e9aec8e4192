# A verification of Nova Launch

Nova Launch deploys and governs tokens on the Stellar network. This directory
holds TLA+ models of the parts of it whose correctness depends on the order in
which things happen, the TLC configurations that check them, and proofs for the
TLA+ proof system. `PROJECT.json` maps every definition that models code to the
lines it stands for, and lists the runs, the mutants that show each property
can be violated, the hazards of the code and the theorems.

## 1. The system

| Part | Code | State it keeps | Operations | Modelled |
|---|---|---|---|---|
| Governance contract: vote power | `contracts/governance/src/{lib,delegation,delegation_expiry}.rs` | balance and vote power per account, one delegation record per delegator, expiry per delegator, list of expiring delegators per delegatee, admin, pause flag | initialize, transfer_admin, pause, unpause, set_balance, delegate, delegate_with_expiry, undelegate, expire_delegation | yes, but for snapshots |
| Governance contract: voting | `lib.rs`, `vote_change.rs`, `proposal_cancellation.rs` | proposals with running tallies, one vote per voter and proposal, proposal counter, vote-change window | create_proposal, cast_vote (sweeps lapsed delegations first), change_vote, cancel, finalize, execute | yes, but for disbursement |
| Governance contract: settlement | `settlement.rs` | treasury allocation per proposal | allocate, veto, disburse | no |
| Token factory: administration | `contracts/token-factory/src/{timelock,proposal_type_queue,proposal_state_machine,governance,lib}.rs` | admin and pending admin, fees, treasury address, pause flag, treasury policy; proposals, votes and a queue per type; pending changes; signers and signed actions | propose, vote, finalize, queue, enqueue, execute, cancel; schedule, execute, cancel; propose, approve, execute, cancel of signed actions; direct calls of the admin, transfer of the role | yes |
| Token factory: treasury | `treasury.rs`, `treasury_timelock.rs` | withdrawal period, allowlist, delay, queued withdrawals | withdraw, queue, execute, cancel, set the policy | yes |
| Token factory: vaults | `vault.rs`, `lib.rs` | vaults, pending changes of owner, withdrawal limit, volume per epoch, the breaker | create, claim, cancel, confirm a milestone, change the owner | yes |
| Token factory: token accounts | `mint.rs`, `burn.rs`, `clawback.rs`, `batch_operations.rs`, `snapshot.rs` | balances, supply, snapshots of both by ledger | mint, burn, burn and settle in batches, claw back | without the rules that forbid a call |
| Token factory: dividends | `dividend_distribution.rs` | rounds, claims, escrow | start, claim, reclaim | yes |
| Token factory: staking | `staking.rs` | pool with its accumulator, positions | create, stake, unstake, claim | yes |
| Token factory: the rest | streams, vesting, liquidity mining, freeze, limits, AMM, campaigns, oracle, bridge | balances and records | single calls | no |
| Leader election | `backend/src/lib/leaderElection.ts` | in Redis: lock key with a time to live and a counter; per process: `leader`, `fencingToken`, `stopped`, the interval | start, heartbeat, stop, validateFencingToken, three Lua scripts | yes |
| Event listener, cursor store | `backend/src/services/{stellarEventListener,eventCursorStore}.ts` | a cursor row in the database; per process: `isRunning`, `lastCursor`, the token, the poll loop | onBecameLeader, onLostLeadership, pollEvents, stop | but for what an event does |
| Saga coordinator | `backend/src/services/sagaCoordinator.ts` | a row per saga: status, index of the current step, index undone last | run, recoverInterruptedSagas | yes |
| Job queue and shutdown | `backend/src/services/jobQueue.ts`, `backend/src/lib/gracefulShutdown.ts`, `backend/src/index.ts` | jobs by priority, attempts, dead jobs, one timer, the streak of high-priority jobs | enqueue, tick, run a job, retry or discard a dead one, start, stop, drain | yes |
| Webhook delivery | `backend/src/services/{webhookDeliveryService,webhookDeadLetterService,tenantWebhookRateLimiter}.ts`, `backend/src/lib/{WorkerPool,circuitBreaker}.ts`, `backend/src/routes/webhooks*.ts` | worker pool, token bucket, circuit, delivery log, dead letters | trigger, deliver, retry, requeue, discard | yes |
| HTTP idempotency keys | `backend/src/middleware/idempotency.ts` | a response and an in-flight mark per key | the requests of two routes | yes |
| Projections and parsers | `backend/src/services/*{Projection,Parser,Mapper}*.ts` | rows per token, stream, vault, proposal | apply one event | no |
| Event fencing, step locks, webhook deduplication | `backend/src/lib/{fencingToken,lock}.ts`, `backend/src/services/webhook{Deduplication,Retry}.ts` | processed event ids, lock keys | called by tests only | no |
| Authentication | `backend/src/auth` | refresh token families, nonces, API keys | login, refresh, revoke | no |
| HTTP surface, gateway | `backend/src/{routes,middleware,graphql}`, `gateway/src` | rate counters | request handlers | no |
| Frontend, infrastructure, tests | `frontend`, `infra`, `monitoring`, `e2e`, `load-tests` | none of interest | | no |

How they interact. The contracts run on the ledger; every call is one atomic
transaction, and the contract knows nothing of the backend. Events of the
contracts reach Horizon, from where exactly one backend process should take
them: leader election decides which, and calls `onBecameLeader` and
`onLostLeadership` of the listener. The listener reads events after its durable
cursor, asks the election whether its fencing token still is the newest, hands
each event to the projections and to webhook delivery, and saves the cursor.
A webhook waits for a worker of the pool, for a token of its tenant's bucket and
for the circuit of the database, is sent a few times, and becomes a dead letter,
which operators redeliver or discard. Sagas and jobs are begun by HTTP requests,
which repeat under one idempotency key; sagas persist their progress and are
resumed when a process starts; jobs are in memory, and a shutdown drains them.

What is hard here:

* Contract calls are sequential, but their legal sequences are not tested:
  balances that move during a delegation, re-delegations, renewals, sweeps and
  proposals in every order. The token factory has four ways to change one
  setting, each with a delay of its own, and time passes between their steps.
  Balances are written by mint, burn, batches and staking, and read by
  dividends as they once were.
* The election is distributed: heartbeats overlap with their own earlier
  requests (`setInterval` does not wait), leases lapse while answers are on the
  way, and a rejected request may have been executed.
* The listener reads state before an await and uses it after it; two of its
  loops may overlap even in one process; crashes fall between processing an
  event and saving the cursor.
* Saga progress is written after the effect it records, so crashes and rejected
  writes leave the row behind the effects.
* The job queue has a single timer, which enqueueing, retries, back-off, stop and
  start all touch, and a fairness rule between priorities.
* A webhook passes four waiting places; any statement of the database may throw
  after the endpoint has answered; operators act on one dead letter at once.
* A client that repeats a request may have gone, while its first request is
  still at work.

What makes the parts correct: vote power is conserved and a tally is the sum of
the votes; the delegation graph has no cycle; what is swept is enough; a
decided proposal is decided for good. A decision is not taken anew, a
queue of proposals never blocks, withdrawals stay within the cap, a vault pays
once. Balances and stakes add up, claims fit their round, and rewards the rate. A fencing token names one term of one process, and some process leads in
the end. No event is skipped. A saga ends
with all of its steps or none, but for the step it failed at. No job and no webhook is lost without a trace, and
each comes to an end. Work behind an idempotency key is repeated only where the
first attempt is out of sight.

## 2. Modules

| Module | Stands for |
|---|---|
| `GovernanceDelegation` | vote power: one action per contract call and the clock of the ledger |
| `GovernanceVoting` | EXTENDS it with proposals and votes; `DelegationCall` and `ProposalCall` interleave, and `CastVote` sweeps the delegation state it shares |
| `FactoryAdmin` | the settings of the token factory and the four ways to change them |
| `FactoryTreasury`, `FactoryVaults` | EXTEND it with withdrawals and with vaults |
| `TokenFactory` | the three together |
| `FactoryLedger` | balances, supply and snapshots of a token, and the calls that write them |
| `FactoryDividends`, `FactoryStaking` | EXTEND it with rounds of dividends and with a staking pool |
| `FactoryAccounting` | the three together |
| `FencedLease` | abstract specification: a lease with numbered terms and one holder, and beliefs about terms |
| `LeaderElection` | the Redis keys, the requests and replies of every process under way, and the processes |
| `EventListener` | EXTENDS it with the listener: callbacks run in the step that handles the election's answer, and every await ends a step |
| `SagaCoordinator` | saga rows, effects of steps, workers and recovery in processes that crash |
| `JobQueue` | the queue, its timer and fairness rule, the recurring schedule, and the shutdown that drains it |
| `CircuitBreaker` | the circuit as operators on its fields |
| `WebhookDelivery` | EXTENDS it with delivery, the pool, the bucket and the dead letters |
| `Idempotency` | one idempotency key and the requests that carry it |
| `...Props` | the properties of a module; `Lease` in `LeaderElectionProps` is the refinement mapping to `FencedLease` |
| `MC...` | instances for TLC: bounds, cases, symmetry, history variables |
| `...Proofs` | the theorems about a module; `EventListenerProofs` has those about the election too, and `JobsAndKeysProofs` those about the job queue and the idempotency keys |
| `SumTheorems` | lemmas about sums over finite sets, for the proofs about balances, votes and payments |

A definition whose comment begins with "Mutation" is a variant of the definition
below it, with a plausible bug; `PROJECT.json` pairs it with the property that
it violates. It is no part of the model.

### Governance

A contract call that returns an error leaves the storage as it was, so a call
that would fail is an action that is not enabled, and each error return of the
code is a guard. `delegation`, `expiry` and `delegators` are the three storage
maps of `delegation.rs` and `delegation_expiry.rs`; a missing key is
`NoDelegation`, `NoExpiry` or the empty set. `delegators` only grows by
`delegate_with_expiry` and is pruned when its owner votes, as in the code: an
undelegated account stays on it. All moves of vote power floor the loser at
zero, which is why power is not conserved when a balance changes meanwhile.
`Spec` starts after `initialize`, as the documentation demands; `FreshSpec`
starts before it, for the code does not enforce that order. Holders may begin
with balances that were set before anybody delegated, a state that the calls
of `set_balance` reach, which spares the runs these calls.

Left out: vote-power snapshots (written, and read by no contract call), events,
descriptions and payloads, the i128 width, and the zero address.

### Token factory

`settings` is one record of what is administered: admin, treasury, both fees,
pause flag, treasury policy. A payload is the effect it decodes to, a function
on part of the fields of `settings`, so `Apply` is the same for proposals,
pending changes, signed actions and direct calls. `ballots` is who voted what;
the tallies in `proposals` are counted up separately, as in the code. `Outcome`
is what `finalize` would say now; `QueueProposal` finalizes first, as
`queue_proposal` does. `typeQueue` changes when a proposal is enqueued, executed
or cancelled. `by` in `pendingAdmin`, `paid`, `paidOut` and `consents` are
history.

`FactoryTreasury` reads the policy of the day out of `settings`; `Permits` is
`validate_withdrawal` and `Pay` is `record_withdrawal`. A queued withdrawal is
validated when it is queued and again when it is executed. `FactoryVaults` reads the
pause flag; `volume` and `tripped` are the circuit breaker of `vault.rs`.

Left out: balances of the tokens paid (a transfer that fails reverts its call),
`fund_vault` and the second `claim_vault` of `vault.rs`, which no entry point
calls, the analytics, the history from which the dynamic quorum is computed (any quorum
in `Percents` may come of it), and `timelock_delay`, which is recorded
when a proposal is queued and never read.

### Token accounts

`balanceSnaps` and `supplySnaps` keep the last snapshot of each ledger, for `At`,
the lookup of `snapshot.rs`, returns that one. `Record` is what mint, burn and
`batch_settle` do after their writes; `clawback` and `batch_burn` do not
(`Unrecorded`). A batch is a sequence of entries and may name a holder twice:
`BatchBurn` checks each entry against the stored balance and `BatchSettle` adds
up the entries first, as the code does. A round of dividends keeps the supply at
its start; `Due` looks the balance up when it is claimed. `escrow` is the factory's
balance of the asset paid, shared by all rounds. `trusted` is history: the
rounds that started from snapshots within the supply, and in whose ledger no snapshot was
recorded afterwards. `Settle` is what stake, unstake and claim have in common: roll
the pool, pay what has accrued, anchor the debt anew. `emitted`, `rewarded` and
`anchored` are history.

Left out: who may call, and the pauses, allowlists, compliance rules and limits that
forbid calls, all of which only remove steps; other ways to a balance (AMM,
buyback, token recovery, which no entry point reaches); the
i128 width. The pool rewards in the token staked, which is the case in which
rewards and stakes meet in one balance.

### Leader election and event listener

`requests[i]` and `replies[i]` are the connection of process i: commands are
executed in the order they were sent, and answered in that order, because Redis
clients pipeline. `Rejects` drops the oldest command before or after its execution.
`Lapse` removes the lock key at any time, since a paused process makes any
renewal late; `lapses` counts those under a live holder. `winners` is the
counter key with its history: its length is the counter, its t-th element is
who got token t. A process that comes back has a new instance id
(`randomUUID()`), hence is another member of `Instance`.

`task[i][c]` is one run of `onBecameLeader` with the poll loop that it starts;
its `pc` is the await at which it is. Two runs of one process overlap when it is
demoted and elected again during one poll: hence the two callers in one of the
cases of `listener`. Events are numbered, and a cursor is the number of the last
event. `handled` is the set of events that `processEvent` was called on; it
swallows errors, so an attempt is all the loop can promise. `EventListenerProps` adds
two history variables, which no guard reads: `staleWrites` counts the cursor writes of processes
that were superseded by then, and `active` has the loops that ever ran.

Left out: back-off lengths, metrics, the chain head refresh, the governance
ledger cursor, loss of Redis keys, what an event does to the projections.

### Saga coordinator

`row` is the database row; `effects` is the set of steps in force;
`worker[s]` is the call of `run` that executes saga s, and `worker[p]` the
recovery of process p, which resumes one saga after the other out of
`interrupted[p]`, the rows that it read. A step is idempotent and happens as a
whole or not at all, which `sagaCoordinator.ts` demands of steps. A write that throws may
have reached the database. A process listens before its recovery has
read the rows (`index.ts:233-286`), so `Run` is enabled while it boots, and any number of
processes may share the database. A recovery then may read the row of a saga that another
process, or a request to its own, is at work on, and both run it: neither looks at
the other. The history variable `shared` has the sagas to which that happened;
it guards nothing. What the coordinator guarantees of the outcome it guarantees of the
other sagas only, and so say `AllOrNothing`, `ReverseOrder` and `SettledIsFinal`;
that sagas settle in the end holds of all.

### Job queue

JavaScript runs one callback at a time, so a tick that goes through the pending
jobs is not interrupted: while `ticking`, only `Take` and `EndTick` are enabled.
`wait[j]` counts down to the job's `runAt` and `timer` to the next tick; `Place`
is the stable sort by priority. `Candidates` is the fairness rule: with a streak
of high-priority jobs, the first of a lower priority is next. The process goes
through the phases of the shutdown, whose first step drains the queue and whose
next disconnects the database, and may be made to exit at any of them by the
timeout of the sequence.

### Webhook delivery

`pc[c]` is the await before which call c of `deliverWebhook` is; a call is a
triggered delivery, which takes a place in the pool, or the request of an
operator, which does not. `End` is how a call comes back to whoever made it. The
attempts are one loop inside one call of the circuit breaker: `success` keeps
its value in a later failure, and `updateLastTriggered` is inside the try block
of the attempt, as in the code. `Rejected` is a statement that throws. Failures of endpoints
are not counted by the circuit, whose function only throws when the
delivery log cannot be written. After a crash everything in memory is gone and the
dead letters stay.

Left out: compression and signatures, the choice of subscriptions for an event, the
shared limiter's counts (a call may be dropped at any time), time-outs of requests (a
failure as any other).

### Idempotency keys

Keys are independent, so there is one. A step ends where the middleware awaits
or hands over to the route. `settled` is the variable of that name in each
request. `Json` settles whatever was settled before, `Finish` and `Close` only
what was not. The in-memory store is the one that both routes use; the Redis
store is created in tests only. A client that leaves before its
request has reached the middleware is not modelled.

## 3. Runs

### Passing

| Run | Bounds | Shows |
|---|---|---|
| `voting` | three cases: delegation alone, with 3 holders, 2 admins, balances 0 and 2, power to 4, time to 2; a contract not yet initialized and 3 holders with balance 1, power to 2, time to 1; 2 holders with 1 and 2, one proposal, three thresholds, time to 3 | `Acyclic`: no sequence of delegations closes a cycle, although only the delegatee's own record is looked at; `ExpiringIsListed`: the sweep finds every expiring delegation; `ExactPower`: vote power is balance and received balances, unless `set_balance` touched a delegator (`drifted` in `GovernanceVotingProps` is history); `TallyIsSumOfVotes`; `VerdictStands` (the rounded threshold decides as the exact one would); `VotesStand`: votes and what is closed stay; `LapsedNeverVotes`: no vote is weighed with a lapsed delegation |
| `contract` | administration: 2 accounts, times to 3, delays of 1, six scenarios (below); accounts: 3 holders, ledgers to 3, supply 3 of 6, amounts 1 and 2, batches of 2, four scenarios: 2 token calls and a round; 1 and two rounds; 1 and 5 staking calls; 1, a round and 2 staking calls | `PassedBeforeExecuted`, `DecidedStands`, `TypeQueuesSound`, `CapPerWindow`, `OwnersConsent`; `Conserved`, `ClaimsFit`, `EntitlementFixed`, `RewardsBounded` |
| `leader` | 2 processes, 2 commands under way each, 1 lapse under a live holder, 1 rejection | `TokensAreWon`, `ImplementsFencedLease` and, under fairness, `LeadershipSettles` |
| `listener` | 2 processes, 2 events, catch-up limit 0 or not; one loop per process with 2 lapses under live holders, or one stop or crash, or one lapse and one rejection; with one event, a lapse, a rejection and a stop or crash; two overlapping loops with 1 lapse, and with 2 and one event; 2 mishaps at most | `GapFree`: every event up to a cursor was processed; `FencesAreOwn`; `StaleWritesBounded`: one stale cursor write per loop and takeover at most |
| `services` | the queue: 3 jobs of one priority and its elevation, 2 workers, a streak of 2, 2 attempts, back-off 1 and 2; the keys: 3 requests with one key; the sagas, of 3 steps: 2 in one process with 2 mishaps (failing steps, throwing writes, crashes), 1 in two processes with 4, 2 in two processes with 1, none of them shared, and, shared, 2 in one process with 1 mishap and 1 in two processes | `JobsAccounted`, `WakesUp`, `DrainedIsIdle`; `AllOrNothing`, `ReverseOrder`, `SettledIsFinal`; under fairness `JobsEnd`, `KeyIsFreed`, `Settles` |
| `webhooks` | 3 deliveries and 2 requests of which 3 come, 1 worker, 2 attempts, a bucket of 1, 1 requeue, 2 mishaps, 1 of them a crash at most | `NoSilentLoss`, `DeadLettersWereNotTaken`, `RetriedWasTaken`, `RequeuesBounded` and, under fairness, `DeliveriesEnd` |

The parts of `services`, and the two of `contract`, share no state that is modelled, so
each is explored with the others at rest. The scenarios of the administration limit which parts of the contract move together, for
their product is out of reach: two proposals in one queue; one proposal of each type while the admin
reconfigures the percentages or hands the role over; a pending change and a
signed action while the role or the signers change; withdrawals against a proposal that
replaces the policy; withdrawals, one of them queued, while policy and allowlist are changed; a
vault under pauses and the circuit breaker. The proofs have no such limit.

### Violations: where code and documentation differ

| Run | What TLC shows |
|---|---|
| `balance_votes_twice` | `cast_vote` falls back to the raw balance when the power is zero, also for a holder that delegated its balance away, so one balance votes twice |
| `breaker_ignored` | the entry point `claim_vault` counts towards the circuit breaker of the vaults and may trip it, but does not ask it: claims go on, where `vault.rs:45-47` says that every withdrawal path is protected |
| `fees` | the admin schedules a fee change and executes it after its delay, without a vote, where `lib.rs:1190-1194` says that fees can only be changed through the governance flow; signed actions change them too |
| `regain` | an attempt is rejected although Redis granted the lease; the next one finds the lease its own, and the process leads without `onBecameLeader` ever being called: it renews its lease for good and nobody ingests, where `stellarEventListener.ts:209` promises the call when an instance "wins (or regains) leadership". The same follows a rejected renewal |
| `saga_undone` | a step completes, the write of its progress is rejected, and the saga is reported compensated with that step in place, where `sagaCoordinator.ts:27` promises compensation "at-least-once per completed step" |
| `key_freed_early` | the client of a request disconnects, the key is freed while the handler works, and a retry works beside it, where `idempotency.ts:191-192` promises a 409 while the original request is still processing, and `tokens.ts:32-33` that no duplicate records are created |

### Why these bounds are enough

A closed cycle of delegations, a re-delegation and
a sweep of somebody else's list need three accounts, and no guard distinguishes
a fourth. Balances 0 and 2 let a balance vanish and come back; a power of 4 is
what two holders together give a third. The smallest interesting time has a moment before, at
and after an expiry or the end of a voting period. Rounding is shown at totals up
to 3 with 50 and 67 percent, where `total * threshold / 100` has a remainder.
In the factory, two accounts are a majority and a tie, an old and a new admin,
an owner and a creator; time to 3 has a moment for the vote, its end, the delay
and what is too late. Two policies with caps 1 and 2 and a period of 2 let a cap
be lowered and raised within one period.
In the accounts, a supply of 3 does not divide the 4 that a round pays; ledgers to 3 let a
round start, a snapshot follow it, and its window close; five staking calls are a
pool, two holders that join, and two calls that leave, add or claim; and a rate of 3
with a precision of 4 makes rounding show: without its allowance for it, `RewardsBounded` fails.
For the election, two commands under way show every overlap of an
attempt with the next one, and one lapse under a live holder is what it takes
for an answer to arrive after the lease moved on. In the listener, events beyond the second
repeat what the second does: a batch has a first and a later event. Three steps
of a saga are the least with a step before and after the one that fails. Of three
jobs, two fill the workers while the third waits, or two of high priority make a
streak. With one worker and a bucket of one, two deliveries contend for
both, and a third waits behind them; two requests are what it takes to act on one
dead letter at once. Of three requests with one key, one is gone, one holds the
key, and one comes late. Two processes are what it takes for one to take over a saga
from the other, or to share it.

The symmetry sets permute accounts, processes or loops, and are not used in
runs with a temporal property under fairness; initial states are closed under
them. Deadlock is not checked: all of these systems may come to rest,
at a bound of the run or because nobody asks for anything more.

## 4. Fairness

* Election: `WF` of a heartbeat (`setInterval` fires for as long as the process
  lives and has not been stopped), of Redis executing what it received, and of
  answers being delivered; and of the lapse of a lease whose holder is gone, for
  keys with a time to live expire. There is no fairness on `start`, `stop`, crashes,
  rejections or lapses under live holders, and `LeadershipSettles` has the
  hypothesis that one process beats for good.
* Listener: the same, and `SF` of each step of the loop: a step that validates
  waits for room among the commands under way (`MaxPipe`), which heartbeats
  take up again and again; the real client queues it without bound, so it is
  never held up for good.
* Listener in `regain`: the counterexample is fair; the leader beats, its beats are executed
  and answered, for good.
* Saga: `WF` of every await, of the start of a process that went down, and of
  its recovery. Nothing says that a saga is ever asked for.
* Jobs: `WF` of a timer that is due and of the steps of a tick. `SF` of the end of
  a handler and of time: a tick excludes both while it lasts, and ticks may
  follow one another for good, yet the event loop serves what became ready in between.
  No fairness makes anybody enqueue, retry, stop or start, and `JobsEnd` has
  the hypothesis that the queue is not stopped for good.
* Webhooks: `WF` of every step of a call (requests of `axios` have a timeout, the
  database answers or throws), of the refill and of the drain interval of the
  bucket.
* Idempotency: `WF` of the answer of a handler, for both routes answer on every
  path of a try with its catch, and of the end of a response that was sent.

## 5. Proofs

All proofs are checked from nothing by tlapm with Z3, Zenon and LS4.

`SumTheorems` has what the proofs about balances need. The library's induction
theorems take an operator, which is beyond the provers, and a sum is a recursive
function. So the lemmas are shown of sets instead: inclusion is well founded on the
subsets of a finite set (`WFMin`), hence a set of counterexamples has a smallest member,
and for the empty set and for one with a member more the recursive function
unfolds (`IterUnfolds`). From it follow the laws in use: a sum may begin with any
term, a change of one term changes it by as much, sums of sums, bounds, parts
and multiples.

`GovernanceProofs`, for any finite set of accounts, any amounts, power and time bounds
(assumptions: `NoOneAssumption`, `AmountsAssumption`, `BoundsAssumption`,
`AddressAssumption`; a contract has ever heard of finitely many accounts):

* `DelegationTypeCorrect`: `DelegationSpec => []GovTypeOK`. The floor of `Debit`
  is what keeps powers natural numbers.
* `DelegationIsAcyclic`: `DelegationSpec => []Acyclic`. `Acyclic` speaks of sets of
  delegators, not of paths: every non-empty set of delegators has one whose
  delegatee is outside the set. That form is inductive as it stands: a new
  delegation a to b has b without a delegation of its own, so b is in no set of delegators,
  and a itself witnesses every set it belongs to; other sets keep their witness;
  removing a record only removes sets.
* `ExpiringDelegationsAreListed`: `DelegationSpec => []ExpiringIsListed`. A call
  does one of three things to the records (`RecordsMove`): nothing, `Redelegates`
  or `Withdraws`; the lists only grow, and an expiry is set and dropped with its record.

and, with any proposals, voters, periods and thresholds:

* `ContractTypeCorrect`: `Spec => []TypeOK`.
* `TalliesAreTheVotes`: `Spec => []TallyIsSumOfVotes`. A first vote and a changed one
  move one term of the sum of the weights; that nothing was counted before a
  proposal had votes needs `Shape` (below).
* `VerdictsAreRight`: `Spec => []VerdictStands`. What was decided keeps its tallies, and
  `votes * 100 / total >= threshold`, truncated, agrees with the exact comparison.
* `LapsedPowerNeverVotes`: `Spec => LapsedNeverVotes`. The sweep finds what has lapsed, as
  every expiring delegation is listed, and takes back each of them at once.
* `PowerStaysExact`: `DriftSpec => []ExactPower`. A power is the account's own balance, if
  not delegated, and the sum of the amounts of the records that name it. A call
  moves one record, a sweep a set of them (`Share` is the part of an account in a set of
  records, and a sweep moves the share of the swept). Two facts carry it: the amount in a record
  is the delegator's balance, and no delegation names its own delegator, so that what is
  taken back is there to be taken and no floor of `Debit` is reached. The first fails
  once a delegator's balance changes, which is what `drifted` remembers.
* `SweepsKeepOrder`: with votes in between the lists shrink too, and the two
  properties still hold, with `initialize` called first or not (`Spec \/ FreshSpec`). The
  sweep drops from the voter's list only what is no longer a delegation to the voter, or
  is taken back in the same call.
* `ClosedProposalsStayClosed` and `VotesAlwaysStand`: `Spec => ClosedStaysClosed`,
  `Spec => VotesStand`. The invariant `Shape` has the proposal counter past
  every proposal: were it not, `create_proposal` would write over a decided one. This
  is why the theorems are of `Spec` and not of `FreshSpec`, where `initialize` may come
  late and reset the counter.

`EventListenerProofs`, for any number of processes, pipe lengths, lapses and
rejections, with validations by any callers interleaved (`AnyNext`):

* `ElectionTypeCorrect`, `TokensWon`, `NoTokenIsShared`. The inductive invariant
  is `ElectionInv == ElectionTypes /\ TokensAreWon`: that tokens are not shared is not inductive,
  because a token is shared by way of a reply under way. `TokensAreWon` says of
  everything a process has, and of all the replies on their way to it, that this
  process won it, and that these come in the order in which they were won; and
  that the holder of the lock won the newest, which makes the renewal branch
  answer the right token. Two processes that won the same token are one.
* `ElectionImplementsLease`: `ElectionSpec => Lease!FencedLeaseSpec` with the lock
  as holder and `fencingToken` as belief. A granted answer maps to `Learn` or to
  a stutter, which needs the order of the replies in the invariant; giving up
  leadership maps to `Resign` or to a stutter.

and of the listener, for any number of poll loops and events. To the election every step of the listener is a step of `AnyNext`
(`ListenerElects`), so `ElectionInv` holds in the composition too.

* `NothingIsSkipped`: `EventSpec => []GapFree`. The inductive part is `NoGap`: also
  a loop that sleeps, or waits for an answer it no longer needs, stands at an
  event whose predecessors were processed. Nothing relates loops to each other, or to the lease:
  that nothing is skipped does not depend on the election, only on every cursor being
  written after its event was processed.
* `ListenersPresentTheirOwn`: `EventSpec => []FencesAreOwn`. The listener's token
  is behind the election's belief and behind every grant still on its way
  (`Behind`); each step of the election forgets, adds a grant of the newest term, or takes
  the oldest (`Moves`), and all three keep that.
* `StaleWritesStayBounded`: `StaleSpec => []StaleWritesBounded`, for finitely many processes and
  loops. The bound alone is not inductive: what must be counted with the stale writes is the
  loops that may still make one, which are those of superseded processes that were told to go on, or
  are about to be (`StaleLoops`). A loop has one validation under way at most and waits for it
  (`OneAnswer`), so a write uses up its permission. A process asks for tokens that it won only
  (`OwnRequests`), so Redis never says yes to a superseded one, and only a takeover makes
  loops stale: those of the process that won before, no more than `active` has. What a step may do to
  a pipe and its loops is one of five things (`PipeStep`), and the invariant is shown of these.

`SagaCoordinatorProofs`, for any number of sagas, steps, crashes and failures:

* `SagaTypeCorrect`, `SagasSettleWhole`, `SettledSagasStay` and `SagasUndoInReverse`, with
  any number of processes that serve while they recover. The inductive invariant `SagaInv`
  has four parts: a saga that is not `shared` is executed by one worker at most, on a process
  that is up (`Hosted`, `Exclusive`), and while recovery has it among the rows to resume by nobody,
  so the row that was read is the row that is stored; what the row says of the effects
  when nobody works on the saga (`RowTells`); and how far a worker is ahead of
  its row (`InStep`). Without the first two the others fail: a second worker
  undoes what the first one has yet to record. Sharing begins with a recovery that reads the row and with
  nothing else, so a saga that was never shared has never had two workers, whatever
  happens to the other sagas.

`JobsAndKeysProofs`, for any number of jobs, workers, priorities, retries and any
back-off: `NoJobIsLost`, `NoWakeUpIsForgotten`, `DeadAfterMaxRetries`,
`DrainedQueueIsIdle`. The inductive invariant `QueueInv` adds to the properties

* `TimersSound`: a tick under way, a stopped queue and a shutdown have no timer,
  and without a pending job the timer is due at once;
* `Awake`, which is `WakesUp` said of jobs instead of places in the list, so that a
  list that is sorted anew does not disturb it;
* `AttemptsSound`: a job that waits has an attempt left. Without it a retry could begin
  with its attempts used up.

The list is a function built by cases in `Place` and `Without`; lemmas say which
jobs are in the result, once each and in order, and everything else is about jobs.

`WebhookDeliveryProofs`, for any number of deliveries, operators, workers,
attempts, and any mishaps: `PoolLosesNoSlot`, `RetriedLettersWereTaken`,
`NothingIsLostSilently`, `OnlyUntakenAreStored`. The inductive invariant
`DeliveryInv` has, next to the types,

* `QueuesSound`: the queue of the pool holds exactly the deliveries that wait for
  a worker, each once, and the bucket's exactly the calls that wait for a token;
  so the call that a worker takes next is one that waits;
* `PoolSound`: the count of busy workers is the number of deliveries in flight, a
  cardinality that every step changes by one at most, and `queue` is empty or
  all are busy;
* `LettersSound`: what each stage of a call knows about its dead letter; the
  part that carries the rest is that `success` of a request means that the
  endpoint took the origin of its letter, whatever failed afterwards;
* `LossSound`: the circuit never counts more failures than statements that threw,
  and each way for a delivery to end leaves the trace that `NoSilentLoss` names.

`RequeuesStayBounded` is `RequeueSpec => []RequeuesBounded`, where `overlapped` remembers that two
requeues of one letter were between their look at its count and the update. As long
as they never were, whoever is about to count has seen the present count, below the limit: that is the invariant
`RequeueInv`, on top of `DeliveryInv`. An upper bound on the count alone is not inductive.

`TokenFactoryProofs`, for any accounts, values of the settings, delays and bounds.
`Administered` is an invariant of the whole contract, in four parts that different
calls disturb: `SettingsInv`, `ProposalInv`, `ChangeInv`, `ActionInv`. To the
administration a call of the treasury or of the vaults is a change of the policy
or nothing (`PolicyStep`), which is what lets each part be proved once. `ProposalInv` is
the interesting one: a slot that the counter has not reached is empty, or a new
proposal could write over a decided one; each tally is the cardinality of the
ballots of its kind, as a vote is counted for an account without one; a proposal in
a queue is `Queued` and in it once. From it follow `OnlyThePassedTakeEffect`,
`QueuesNeverBlock`, `VerdictsHold` (`DecidedStands`) and, with `ChangeInv` (a change
is due no earlier than its delay), `FeesChangeAsAnnounced`, which is what is left of the promise that
the run `fees` refutes: fees and treasury change by proposals, announced changes and signed actions,
and by nothing else. `SuccessorsAreTheAdmins` is
`PendingAdminIsCurrent`: every way to replace the admin drops the pending one. `VaultInv`
says of every vault that it has paid what was claimed, all of it or nothing, and that
the consents on record are those that the pending change of owner counts; from it follow
`ClaimsPayOnce` and `HandoversAreAgreed`.

`WithdrawalsStayCapped` is `FactorySpec => []CapPerWindow`, for any finite set of policies. The
payments since the policy was last initialized are the terms of a sum, and a window begins at any time and is as long as
the shortest period a policy may set. The invariant
`WithdrawalInv` ties the period that is running to that sum: what was paid since its start is at most
what it has recorded, which is at most the largest cap; and with what was paid in the shortest period
before it, at most one more largest cap. A window that reaches back is covered by the second, any other by
the first. A period starts a shortest period after the last one did or later, whatever the policy
of the day, and what was paid since then was recorded in the last one, which is why the second fact
survives a new start.

`FactoryAccountingProofs`, for any finite number of holders, any amounts, batches, rounds,
rates and ledgers:

* `AccountsConserved`: `AccountingSpec => []Conserved`. Each call changes one balance, or one
  stake and one balance, and supply or rewards by as much; a batch changes each balance by its share and
  the supply by the total, and the shares of all holders add up to the total, however
  often a holder is named (`SharesAddUp`).
* `EntitlementsStand`: `AccountingSpec => EntitlementFixed`. Snapshots are written for
  the running ledger only, and looked up at a ledger that is over.
* `ClaimsAlwaysFit`: `AccountingSpec => []ClaimsFit`. A trusted round begins with the balances
  on record within the supply on record; the sum of the quotients, rounded down,
  is at most the quotient of the sum, which is at most the amount (`Apportioned`). From then
  on a claim moves what it takes from `StillDue` to `claimedTotal`, and the round is
  trusted no longer once a snapshot of its ledger is written anew.
* `RewardsStayBounded`: `AccountingSpec => []RewardsBounded`. `RewardsBounded` is not
  inductive: it speaks of rewards in whole units, and what an early stop gains by rounding, a
  later one may lose. The invariant `RewardsInv` counts in units of `1 / Precision`: what was
  paid and what each position is worth at the accumulator (`Worth`: stake times accumulator,
  less its debt, and what another anchoring at this ledger may still win by rounding) is at most
  what was rolled into the accumulator, and a unit less one part for each anchoring. `RollBounded` is the step
  of the accumulator, whose quotient is rounded down, and `SettleBounded` that of one position.

For idempotency keys (`JobsAndKeysProofs`), for any finite number of requests: `WorkIsRarelyRepeated`
(`RerunsBounded`). It is what is left of the promise that the run `key_freed_early` refutes: work is repeated
once per client that left and per request that looked just before the response was
stored, and no oftener. The bound does not carry itself from step to step, for a handler
whose client is gone frees the lock of whoever holds it. The invariant `KeyInv`
counts the requests past the lock that have not ended, and those whose work
succeeded: while nothing is stored they are no more than the lock, which counts for one when
it is taken, and the clients that are gone; once a response is stored, only
those that had missed it come on top.

Assumptions: the named ASSUMEs of the modules, which bound the constants by what
their types are in the code, and which TLC evaluates in every run.

Proved and in no run: `PendingAdminIsCurrent`, `VaultsPayOnce`, `RetriesExhausted`,
`PoolWorks`, and `NothingUnannounced` and `RerunsBounded`, which are weaker than what the
documentation says and stand beside the runs that refute it.

Only model-checked: liveness (fairness and ENABLED are outside this prover's
reach), and the six violations.

## 6. What the models make visible

Besides the six violations, the following is what the code does, and the models do it
too.

* Governance. When `set_balance` changes a delegator's balance, the amount in
  its record is stale; moving it back eats power that others gave to the same delegatee.
  `initialize` resets the proposal counter, so a proposal that was created before is
  overwritten. Pausing does not stop proposals and votes.
* Election and listener. A heartbeat under way during `stop()` makes a stopped process
  leader again, and an activation under way starts its poll loop. A process
  that loses its lease and wins it again while it validates its old token halts its loop, and as
  it stays leader nobody starts another. A takeover between validation and
  `save()` lets one stale cursor through per loop.
* Election and listener, on the cursor. It moves back: a process that lost its lease saves the
  last cursor it had when it stops, and the catch-up policy resets it. Events are
  then processed again; `GapFree` says that none is skipped, and no property says
  that the cursor advances.
* Saga. Recovery reads the rows of all sagas that are not settled, also of those that a living
  process is at work on, where `sagaCoordinator.ts:109` speaks of sagas left by a prior
  process. Two workers may then execute and undo one saga at the same time, a settled one
  may start over, and effects may remain that no row tells of.
* Jobs. With three priorities, the rule that owes lower ones a turn always gives it to
  the first below the highest, so two busy priorities can starve the third: `JobsEnd` is
  checked with a default and an elevated one, which is what the code enqueues.
  While all workers are busy and a job is due, the timer fires again and again.
* Webhooks. Two requeues at once may both pass the guard before either counts. A
  redelivery that fails stores a dead letter of its own, whose count of requeues starts at zero.
  Successes that close a half-open circuit need not be consecutive.
* Token factory. Signed actions count the approvals of accounts that are signers no longer.
  The pause flag, like the fees, is changed by pending changes and signed actions as well as by
  proposals. `PauseContract` and `UnpauseContract` have queues of
  their own, so they are not ordered against each other although they write one flag
  (`proposal_type_queue.rs:13-14` speaks of disjoint state). An account that is owner and creator of a
  vault approves for both when it proposes a new owner, and that change can then be neither
  completed nor replaced. A succeeded proposal with as many votes against as for
  it, possible with low approval percentages, can never be queued. A pending change may be
  cancelled by any later admin. The period and the cap of the treasury start
  anew when its policy is initialized again. `create_vault` moves no tokens.
* Token accounts. A round of dividends reads the supply when it starts and the balances
  when they are claimed, as of the whole ledger of its start: a mint later in that ledger
  counts for the claims only, and more may be claimed than the round has, out of the escrow
  of another round (`dividend_distribution.rs:31-32` calls the snapshot atomic).
  `ClaimsFit` therefore speaks of rounds in `trusted`. `batch_burn` and `clawback` record no
  snapshots, although `lib.rs:2701-2702` says that every burn does, so a round may also
  start from a supply that is no longer true. `batch_burn` checks each entry against
  the balance before the batch, so a batch that names a holder twice can leave a
  negative balance. Staking rewards are added to balances and to no supply: `Conserved` has them
  on one side, where `storage.rs:824` has balances and supply equal.
* Idempotency. The late answer of a request whose client has gone frees the key of
  the retry that works beside it. A request that has found no response, and waits to
  take the lock while the response is stored, does the work again.

## 7. What is not modelled

* Settlement (`settlement.rs`): no entry point creates a proposal with a disbursement,
  so this code is reached by its own tests only. The same holds of the priority queue in
  `proposal_queue.rs`. `withFencingToken`, the step locks, webhook deduplication and
  the notification retries are imported by tests only.
* Streams, vesting, AMM: each call
  computes its effect from the elapsed time or a balance in one step; what can go wrong is
  arithmetic, over integers far larger than a bounded instance has. Liquidity mining
  keeps an accumulator of the same kind as the staking pool; scheduled batches settle
  one chunk per call the way `batch_settle` does. Freezing, allowances and rate limits
  forbid single calls.
* Projections, parsers and reconciliation: functions of one event. The listener
  module says that events come at least once and in order.
* Authentication: access control, whose questions are those of security, which
  this project does not treat.
* The gateway, other middleware, caches, websockets, frontend and tooling: no
  state of their own, or state that is dropped on a timer.

Three assumptions deserve a reader's attention: Redis keeps its keys (a
lost counter would issue tokens again); the steps of a saga are idempotent
(the one registered saga deploys tokens, which is not); and the backend that
serves webhooks and idempotency keys is one process.
