# TLA+ specifications of gst's coordination core

gst is a Go framework: a generated HTTP surface over a database, and around it
the machinery that lets several replicas of one application work as a
deployment. This directory models that machinery: the lease protocol
(`internal/lease`) and the cronjob scheduler that runs each instant of a job
once across the deployment (`cronjob`); the life of a process from its start to
its exit (`bootstrap`, `internal/lifecycle`, `component`); transactions and what
follows their commit (`database`); the replicated cache (`dcache`); and the
policy set that decisions are made from (`authz/rbac`).

## Inventory

| Part | State | Operations | Hard behaviour | Correct when |
|---|---|---|---|---|
| lease protocol, `internal/lease/lease.go`, `hold.go` | one row per name in `gst_leases` (holder token, term, expiry by the database clock); per claim the last renewal's send time, the loss | `Claim` (update, insert, read of the term), `Renew`, `Release`, `Verify`, `Hold`, `Run` | statements executed late or never, pauses past the expiry, timers cut to a deadline, work that ignores the loss | at most one claim believes in its lease; the guard agrees with it; terms fence; a release is final |
| lease slots, `internal/lease/slot.go` | `slot_ms`, `unfinished_slot_ms`, `rerun_slot_ms` of the same row | `ClaimSlot` (read, then conditional write), `Finish`, `UnfinishedSlots`, `ClaimRerun`, `LastSlot` | two-statement claims against concurrent ends of rounds, clocks ahead of the database, statements that run after their retry | an instant runs once, twice only when cut short, never after it is recorded finished |
| cronjob scheduler, `cronjob/` | per job a loop, the round it runs, a one-place channel from the sweep | `loop`, `catchUp`, `claimSlot` with retries, `rerun`, `runClaimed`, `sweep`, `stop` | races of replicas for an instant, overruns, stale findings, failures between claim, run and record | see above, and a round cut short does not stay so |
| leader election, `leader/work.go` | per candidate a campaign loop and a tenure under a lease | `campaign`, `lead` | takeover after crashes and errors | somebody leads again |
| lock, `lock/lock.go` | one lease per call | `TryRun` | the outcome reported when the lease is lost under the work | see lease protocol |
| component lifecycle, `internal/lifecycle`, `component` | the components running in start order, two failure contexts, the work of each | `Start`, `Stop`, `Fail`, `FailNow`, `AbandonWaits`, `Await` | a failure or a second signal at any point of the stop; work and closes that never return | providers close after their users; every failure is reported; nobody waits for ever |
| bootstrap and shutdown, `bootstrap/` | the phase of `Run`, the cleanup stack, the signal channels | `Run`, `awaitShutdown`, `awaitDrain`, `clean` | signals and failures during start, drain and teardown | what was started is stopped on every way out; signals alone exit cleanly |
| transactions and the lease guard, `database/transaction*.go`, `after_commit.go`, `internal/dbruntime` | the context: a transaction per instance, one boundary of after-commit actions | open, join, guard, `AfterCommit`, commit, roll back | nesting on several instances, actions that open transactions, a context ending under the commit, commits that fail or go unheard | an action runs once its data is durable, in order; the caller is told what became of its work |
| startup lock, `internal/dbruntime/startuplock.go` | an advisory lock on a session of its own | acquire, release, discard | a release that fails | one preparer at a time |
| replicated cache, `dcache/replicated.go` | a store and per-key watermarks per instance, an event topic | `Set`, `Delete`, publish, apply a peer's event | lost, reordered, repeated and equally stamped events; clocks that differ and go back; a full pool; evicted watermarks | an instance holds the newest write it heard of; those who heard of the same writes agree |
| RBAC policies, `authz/rbac` | the policy set, the index decisions come from, the stored rules, sequence numbers, a retry loop | mutate, replay after commit, reload, recover, retry, periodic reload | batches replayed out of order, replays that stop halfway, reloads that fail, writes from elsewhere | memory is in step with storage, or known not to be, and gets there |
| IAM session store, `internal/service/iam/session` | sessions and indexes in Redis | create, touch, revoke, list | several commands per operation | indexes and sessions agree after recovery |
| SSE hub, `internal/sse` | subscribers with bounded buffers | subscribe, broadcast, close | slow consumers, close racing send | no send after close |
| code generator, HTTP surface, query building, configuration, logging, providers, `ds` | | | sequential or thin; not modelled, see `PROJECT.json` | |

Interactions. `leader`, `lock` and `cronjob` are clients of `internal/lease`;
`Run` fails the process through `lifecycle.FailNow`; the transaction guard reads
the lease's row; `cronjob`'s loop and sweep share a channel; the policies are
written in a `database.Transaction` and replayed in an `AfterCommit` action;
`bootstrap` starts and stops all of them through the lifecycle; replicas share
nothing but the database and the cache's topic.

`PROJECT.json` lists the hazards at their lines, with the property that would
catch each one or the reason none does yet.

## Modules

| Module | What it is |
|---|---|
| `OneHolder` | abstract: claims win a name one after another, none while one is in charge |
| `Lease` | the lease protocol for one name; implements `OneHolder` |
| `LeaseProofs` | its theorems |
| `MCLease` | its instance for TLC |
| `OneRoundEach` | abstract: instants are claimed in order, one round each, the latest once more while unfinished |
| `CronSlot` | one job of the scheduler: the slot columns, and loop, round and sweep on every replica; implements `OneRoundEach` |
| `CronSlotProofs` | its theorems |
| `MCCronSlot` | its instances for TLC |
| `Shutdown` | one process: `Bootstrap`, `Run`, the lifecycle, its workers, the signals |
| `ShutdownProofs`, `MCShutdown` | its theorems, its instance for TLC |
| `Transaction` | one request: nested transactions, their contexts and after-commit actions |
| `TransactionProofs`, `MCTransaction` | its theorems, its instances for TLC |
| `DCache` | one key of the replicated cache on every instance, and the topic |
| `DCacheProofs`, `MCDCache` | its theorems, its instances for TLC |
| `Policies` | the policy set of one process against the stored rules |
| `PoliciesProofs`, `MCPolicies` | its theorems, its instance for TLC |

Definitions marked as a mutant are wrong variants of the definition that follows
them; no specification uses them. `PROJECT.json` pairs each property with one
that breaks it.

### Lease

A claim is known by the token `newHolder` mints for it, so `Holder` is the set
of claims, not of processes. `stage` is where the claim's caller is: inside
`Claim` (`claiming`, `inserting`, `reading`), inside `Run` with the work running
(`holding`, `lost`, `failing`), inside `Release` (`releasing`), or past it.
`last`, `attempted` and `lostAt` are the times `Hold` and `Run` keep;
`term` is the handle's.

Each statement is sent in one step, executed by the database in another
(`ExecuteClaim`, `ExecuteInsert`, `ExecuteRenew`, `ExecuteRelease`, whose guards
are the WHERE clauses) and answered in a third. A statement its sender no longer
waits for stays in `sent` and may be executed at any later point, or never: this
covers timeouts, lost answers, cancelled contexts and crashes. `answer` is what
the caller knows, and `Awaited` is the driver matching an answer to its call.

Time is the database clock, in ticks; monotonic clocks run at the same rate. A
process is `prompt` while its timers fire in the tick they are due; it may be
`paused` at any point, for any time, and is `late` from then on. `Tick` waits for
running processes to serve their timers, nothing else, so promptness is about
timers only: statements take any time.

`FailNow` and `Exit` are `lifecycle.FailNow` seen from the lease: the process
starts to fail, and dies at some later point.

### CronSlot

Instants are 1, 2, ...; `now` is the last one the database clock reached, and a
replica reads a clock at most `Skew` off. The lease is reduced to its promise: a
claim makes the row `live`, and the row may stop being live at any point
(`Expire`), with the holder's knowledge of it (`lost`) arriving at any point, or
never. A holder token is identified with the term its claim starts, both being
written in one statement.

`pc` follows the loop: `starting` (`catchUp`'s read), `waiting` (the select),
`reading` and `writing` (`ClaimSlot`, or `ClaimRerun` straight to `writing`),
`running` (the job), `settling` (`Finish` or `Release`). `ReadSlot` and `Claim`
are two steps, as the code's are two statements. `Execute` is the database;
`astray` holds the statements given up on. `found` is the channel from the sweep,
one place. `claims` and `settled` are history: the claims executed, and the
instants recorded finished.

`Finish` is two statements when the first finds the name gone: `Settle` then
stays in `settling` with the second (`"record"`).

### Shutdown

`phase` is where the main goroutine is in `Bootstrap` and `Run`; the other
variables are what it shares with the workers' goroutines, the watch for a second
signal and the goroutine that unwinds the cleanups. `failure` and `failedNow` are
the causes of the two contexts of the lifecycle; `FailNow` is two steps, as it is
two calls. `listen` says which channels a signal goes to, and with none the
process is killed. `unwinding` walks the cleanup stack (`listeners`, then the
lifecycle: `lifecycle` and `stop`, then `clients`), `stopping` is what `Stop` has
left, and `window` is its context. Work, a provider's `Stop` and a client's
`Close` return if and when they like. `signals`, `hurried` and `broke` are
history.

### Transaction

One request is a stack of frames: the handler, the functions of its transactions
and the actions run after a commit, each of which may write, register actions,
open transactions, fail or panic. A frame's context names a transaction per
instance and one boundary, as `WithTx` and `boundaryContextKey` do. A boundary
has the actions registered, what its function returned and what its caller was
told. `database/sql` is modelled by what the code reckons with: a context that
ends rolls back open transactions at a point of its own, statements and commits
after that fail with the ending or with `ErrTxDone`. A joined transaction is its
function called in place, so it is no step. An error of an action is marked
`ErrAfterCommit` and still found under the mark (`Marked`): one that holds
`ErrTxDone` is told as the ending by an outer boundary. `Crossing` says whether a body
registers actions for rows it wrote in another than the innermost transaction.

### DCache

An event is the write it announces; `store` holds the number of the write whose
value the instance has. `Stamp` and `Advanced` are `stampLocked` and
`advanceWatermarkLocked` over a clock that may read anything of `Readings`.
`pool` and `inbox` are sets, so events pass each other; the faults drop, repeat
or fail them, let the listener end or the cache start deaf, expire an entry or
evict a watermark. `heard` and `saw` are history: the writes an instance made or
received since its watermark was last evicted, and the writes it knew of as it
made this one.

### Policies

`store` is what is committed, `rules` the set in memory and `index` what
decisions were last rebuilt from. A batch goes through its statements, its number,
its commit and the replay, one step each, and holds the lock `mu` between
`TakeLock` and the last `Replay`. Every reload is `Load` (lock and read) and
`Install`, by the batch that recovers, the retry goroutine or the periodic one. A
transaction sees what is committed and what it wrote, and waits for the rules
other transactions hold. `LocksNamed` says whether a statement holds every rule it
names (InnoDB's index locks) or only the rows it changes. `blind` says that rules
were stored of which no replay tells (another replica, a commit whose answer was
lost) and that no reload has read since with nothing in flight.

## Runs

| Run | Instance | Shows |
|---|---|---|
| `lease` | 2 claims, lease 4, renewal 2, deadline 3, grace 1, time 6 | exclusion, the guard, fencing, release, promptness, and `OneHolder` |
| `cron_faults` | 2 replicas, 2 instants, 1 fault | claims in order, finished instants final, the mark's meaning, and `OneRoundEach` |
| `cron_skew_live` | 2 replicas, 2 instants, skew 1 | the same with clocks off, nothing still to come recorded as skipped, a round cut short is resolved |
| `cron_record_back` | 3 instants | finding 1 (a violation) |
| `dcache` | 3 caches of 2 types, 3 writes, pool of 1, 2 faults | newest heard held, causal stamps, agreement, types apart |
| `dcache_tie` | 3 caches of one type, clocks that read 1, 2 and 4, 3 writes, no faults | finding 2 (a violation) |
| `shutdown` | 2 providers, 2 workers, 2 signals | failures reported, clean signals, order of the stop, nothing left running, the process goes |
| `shutdown_hurry` | the same | finding 3 (a violation) |
| `policies` | 2 batches, 2 rules, 2 faults, named rules locked | in step, no uncommitted grant, settles |
| `policies_gap` | the same with 1 fault | finding 4 (a violation) |
| `transaction` | 2 instances, 3 transactions, 2 rows, 4 frames, 1 failed commit, crossing | no stale context, actions in order and after their boundary's commit whichever transaction their row is of, true answers, what is over stays so |
| `tx_crossing` | 2 transactions, 1 row, crossing | finding 5 (a violation) |

Bounds. For leases two claims are what a conflict takes, and six ticks are a
whole lease with two renewals' worth of slack after it: long enough to claim,
renew, lose, expire and be succeeded. For the scheduler two replicas race, and
three instants are what it takes for an overrun to pass a claimed instant (1 runs,
3 is recorded, 2 is claimed). For the cache three writes are a write, one that
knew of it and one that did not, over a pool that one event fills. For the
process two components per stage make order visible, and two signals are all that
it tells apart. For the policies two batches overtake each other, and two faults
are a failed recovery of something that went wrong. For transactions four frames
are a transaction in a transaction with an action under it, or an action that
opens a transaction; registration across instances is allowed, so that an action's
boundary and the transaction of its row can differ. The proofs cover the safety
properties for every bound; liveness rests on the runs.
`CHECK_DEADLOCK FALSE` throughout: time, writes and faults are bounded, and a
system with nothing left to do, or a process that has gone, is done.

Fairness. *`CutShortResolved`.* A deployment restarts its processes
(`Start`); a goroutine that can go on does (`LoopStep`; one condition, since the
loop is one goroutine), and the sweep's ticker fires (`Sweep`); `Hold` finds a
lease that is gone by its deadline at the latest (`Gone(r) /\ Lose(r)`), and
`Run` fails the process when the work does not return (`FailNow`). Not assumed:
that a round ends, that time goes on, that a statement astray is executed, that
a lease expires.

*`ShutdownEnds`, `HurryEnds`.* The main goroutine, the teardown's and the watch
for a second signal go on when they can, and the timers fire (`WindowOver`,
`GiveUp`, the drain delay in `AwaitDrain`). Not assumed: that work returns, that a
provider's `Stop` or a client's `Close` does, that anybody sends a signal. The
violation of `SecondSignalEnds` is under the same fairness.

*`Settles`.* A call once begun goes on, the retry goroutine and the ticker are
scheduled. Strong fairness where a goroutine waits for the policy lock
(`TakeLock`, `RecoverLoad`, `PeriodicLoad`): Go's mutex turns to handing the lock
to its first waiter once that has waited for a millisecond. Not assumed: that a
batch is ever made; failures are bounded, which is what "once the database
answers" means.

## Findings

1. `lease.go:212` calls `slot_ms` "the last instant claimed, never decreasing", and
`slot.go:147` says of the instants `Finish` takes along that "they stay skipped,
every later claim of them refused". `ClaimSlot` refuses by the value it read and
then writes under a condition on term and expiry; `Finish` raises `slot_ms`
without a new term. A `Finish` that runs after its lease expired, between the
read and the write of another replica's claim, is overwritten: 1, then 3 by the
`Finish`, then 2 by the claim (`cron_record_back`). An instant recorded as
skipped then runs after all. Theorem `ClaimOrder` shows the limit of it: no
instant is claimed twice, and `FinishedFinal` that none that finished runs again.

2. `dcache/doc.go:35` says that two instances writing one key before either has
seen the other's event "are still separated by their clocks alone". After both
have applied an event from a clock ahead of theirs both stamp their write with the
watermark plus one: equal stamps, and each drops the other's event as stale and
keeps its own value until it expires (`dcache_tie`). Theorem `Agreement` shows
that equal stamps are the only way to disagree about writes both have heard of.

3. `bootstrap.go:201` says that a second signal drops the waits. When the first
one came during the start, `Run` returns before the goroutine that reads a second
one exists; the channel swallows it, and a hanging client holds the process
(`shutdown_hurry`). A process that had come to serve does go (`HurryEnds`).

4. `permission.go:93` says that a concurrent decision sees the old permissions or
the new ones "and never the gap between them". A replay that stops at a removal
whose counts differ (`mutation.go:286`) leaves the removal in the set and gives up
the lock before the recovery; a batch replayed in between rebuilds the decisions
from that set (`policies_gap`). `InStepHeld` shows that the recovery closes it.

5. `transaction_boundary.go:63` says that the innermost boundary "is the
transaction the caller is actually writing in". In a transaction on one instance
nested in one on another, a chain on the outer instance writes in the outer one,
and an action registered for that row runs when the inner one commits
(`tx_crossing`). When actions are registered for what the innermost transaction
wrote, `ActionsFollowData` holds (theorem `DataBeforeActions`); what holds in any
case is that an action waits for the boundary it was registered with
(`ActionsFollowBoundary` in the run `transaction`, theorem
`ActionsAfterTheirCommit`).

Two limits of the policy set are not runs of their own. (a) `mutation.go:171` says
that row locks make the numbers of overlapping batches "run the same way storage
settled it". On PostgreSQL an insert with `ON CONFLICT DO NOTHING` (`adapter.go:112`)
holds no row that is already there. With `LocksNamed = FALSE` in `MCPolicies.cfg` TLC
finds `InStep` violated: one call adds a rule that is stored and holds nothing; a
second removes the rule, is numbered, commits and replays; the first is numbered
after it, commits and replays its addition, and memory has a rule that storage has
not until the next periodic reload, a minute at most. (b) `scheduleReloadRetry` "keeps
retrying ... until the process agrees with storage again"; a divergence recorded while
the last retry goroutine is returning (`RetryEnds`) finds it still counted as running
and starts none. `Settles` holds by the periodic reload, and would without the retry.

## Proofs

Everything in the six `...Proofs` modules is checked by TLAPS, from the
named assumptions of the specifications only. For leases and slots: the timings are positive and
`LocalDeadline + StepDownGrace <= LeaseDuration` (`lease.go` has 10 + 5 <= 15
seconds), `NoHolder` is no holder, the bounds are naturals. `Holder` and
`Replica` are arbitrary sets.

*Lease.* Exclusion is not inductive: two claims in charge are excluded only
because the row names one of them. `IInv` says for every claim that may believe
it won (`Won`) that the row is its own for `LeaseDuration` after the send of the
last renewal it knows of (`OwnsInv`). This needs that a claim's statement runs
once and its token is unknown before (`SentInv`, `FreshInv`), that sends are in
the past (`ClockInv`), and for fencing that handles' terms trail the row's
(`TermInv`). `ReleaseInv` and `PromptInv` carry the release and the timers.
From `IInv`: `TypeCorrectness`, `MutualExclusion`, `Verification`, `Fencing`,
`ReleaseFinal`, `PromptSafety`, `PromptExclusion`, and `Refinement`: with the
row's holder and term and the claim in charge as the abstract state, every step
is a step of `OneHolder` or a stutter.

*CronSlot.* `ClaimsInOrder` looks back over the whole history, and a claim
already sent may be executed when the record has moved on. `SlotInv` adds
`RecordInv` (the term counts the claims; the record is at or past the last
instant claimed, `Last`, and past it only up to the database clock; the mark, if
any, is `Last`) and `FlightInv`: everything in flight, astray statements
included, names a term that was started and, if that term is still current,
fits `Last`: a first claim is later, everything else is equal (`Fits`,
`OfTerm`). The record itself is deliberately not what statements are compared
with: it can go back. `ExecuteFacts` is the central lemma: a statement that fits
leaves the record in order and claims nothing finished. One lemma per action
follows. From `SlotInv`: `SlotTypeCorrectness`, `ClaimOrder`, `UnfinishedMark`,
`SkipSafety`, and the action property `FinishedFinal`.
`OneRoundEachRefinement` puts them together: with the last claim and the recorded
ends of the history as the abstract state, executing a statement that fits is
one step of `OneRoundEach` or a stutter (`ExecuteAbstract`), and no other step
changes either. That adds what no invariant says, that an end is only ever recorded
for the latest instant claimed. The abstract state cannot be read off the row: by
finding 1 its `slot` may go back.

*Shutdown.* From `RankAssumption` (providers start before workers, ranks differ).
None of the properties is inductive, since each speaks of how the process left.
`ProcessInv` says what the error rests on before the process has left: an error
or a failure means that something broke, and a `FailNow` past its second call that a
failure is recorded (`Reported`); that the teardown comes after everything else, in
its order, with `stopLifecycle` registered for as long as anything may fail
(`Ordered`); and that an open client is one `Stop` has still to close, and running
work one it still waits for or has given up (`Held`). From it: `ProcessTypeCorrectness`, `FailureReporting`,
`CleanSignals`, `FailNowReporting`, `ProvidersLast`, `NothingLeftRunning`.

*DCache.* From `InstanceAssumption`; clocks, losses and instances are arbitrary.
`CacheInv` adds to the properties that writes are numbered as they are made and
know only of earlier ones (`Numbered`), that an instance queues its own events and
keeps those of its type, and that it has heard of nothing while it has no watermark
(`Routed`). From it: `CacheTypeCorrectness`, `NewestHeardHeld`,
`CausalStamps`, `TypeSeparation`, `Agreement`.

*Policies.* `InStep` is about quiet states only, so everything is in the invariant
that carries it through the others. `StepInv` has eight parts: what open
transactions hold, and how they find it (`Locks`); that two of them hold the same
rule only while it is not there (`Shared`); that of two batches that overlap the one
committed first is numbered first, unless both only remove (`Numbered`); that the
newest batch on its way to memory has the last word on what it names (`LastWord`);
what a replay has done so far (`Halfway`); and, unless a rebuild is owed, that the
set agrees with storage on every rule no batch is on its way for (`RulesAgree`), as
does the set a reload has read (`SnapAgrees`), and that the decisions follow the set
(`IndexFollows`). `InStepHeld` assumes `LocksNamed`: without it TLC finds `InStep`
violated, two batches being numbered against the order of their commits (see (a)
above); the code's comment at `mutation.go:171` relies on these locks.
`RemovesFirst`, which every caller of `mutate` respects, is the other assumption. `PolicyTypes`, `PolicyTypeCorrectness`
and `NoUncommittedGrants` need neither.

*Transaction.* From `TransactionAssumption`: the bounds are naturals, and there is
room for the handler. `Instance` is any set. The actions rewrite records inside
functions, which the provers take badly, so every action is first shown to be one of
a few flat steps that state the fields they change (`Wrote`, `Called`, `Registered`,
`Opened`, `Closed`, `Committed`, ...; lemma `Steps`), and the invariants are shown
from those alone. They come in three layers.

- `StackInv`: the frames lie on one another (`Stack`: the function of a transaction
  is upon a body, an action upon whatever called it, no transaction is the own one of
  two frames). With it `NoStaleContext` is inductive, and a registration always meets
  a boundary whose function still runs (`RegisteredWithBody`), so a list once taken
  stays empty: `TypeCorrect`, `ContextsFresh`.
- `FateInv`: a transaction on the stack has not answered and is committed exactly
  while its actions run; one that answered is settled (`Fates`): `AnswersAreTrue`,
  and the action property `OverStaysOver`.
- `LedgerInv`: a row has one action, which is in the hand of the body that wrote the
  row, or registered once, or has run (`Entries`); the actions on the stack have run
  and not failed (`Acts`); and before the commit a boundary's list is all that was
  registered and none of it ran (`Waiting`), after it the list is what is left of a
  run that has done `n` actions, the last of them still on the stack or the first to
  fail (`Progress`, `Lists`). `RunInOrder` itself looks at the whole history and says
  nothing of where a run stands, which is why it needs these: `ActionsRunInOrder`,
  `ActionsAfterTheirCommit`.

`DataBeforeActions` assumes `~Crossing`, the premise the violation of `tx_crossing`
shows to be needed, and adds that a boundary holds actions for rows of its own
transaction only (`OwnRows`).

Only model-checked: `CutShortResolved`, `ShutdownEnds`, `HurryEnds` and `Settles`,
since liveness under fairness is outside the prover's reach. Every invariant and
action property of the passing runs is proved, and so are both refinements. The
properties of the violation runs are false of the code as it is;
`ActionsFollowData` is proved under `~Crossing`, without a run of its own.

## Not modelled, and what that leaves out

- Database clock jumps; the protocol assumes the database clock.
- Name validation, SQL dialects, the reader/primary split (reads go to the primary).
- Per-instance jobs: they take no lease.
- The 24-hour lookback of the scheduler and its count of skipped instants (only
  logged); the bisection over a cron expression (`previousInstant`) appears as the clock it
  computes from.
- The transaction guard beyond the row it reads (`VerifyPasses`) and the error it
  returns; goroutines that share one transaction's context.
- In `Shutdown`, what `Bootstrap` does before the providers start, the listeners'
  own shutdown beyond its bound, and a worker's goroutine after the process has
  given up on it.
- In `DCache`, keys beside the one modelled (they meet only in the bounds), the
  length of a ttl, and how the consumer recovers from failed polls.
- In `Policies`, what the rules mean and how a decision is made from the index. A
  removal by values is one statement, the code's is one per rule; its callers name one.
- Crashes and failed statements together with liveness: `cron_skew_live` has leases
  that lapse and processes that fail over them, `cron_faults` the rest.
- The startup lock, the campaign loop of `leader`, the outcome `lock.TryRun`
  reports, the IAM session store and the SSE hub: in the plan.
- The code generator, the HTTP surface, query building, configuration, logging,
  the providers and `ds`, which are most of the repository's lines: sequential
  transformations of text, requests or queries, or thin wrappers, with no protocol
  between actors. A model of them would restate the code.

## Plan

Done: the lease and its refinement, the scheduler and its refinement, the process,
transactions, the cache and the policies, each with its proofs. Left, in order:
(1) `Campaign`: `leader`'s loop and `lock.TryRun` over a lease, with takeover as a
liveness property; (2) `StartupLock`; (3) the session store; (4) the SSE hub.
Refinements worth stating: "last writer wins" for `DCache`, and a boundary that
commits and then runs its list as one process for `Transaction`.
