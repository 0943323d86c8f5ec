# A verification project for the airdrop queue

The repository is a Next.js service that pays large lists of recipients from a set of
distributor wallets. Jobs are split into recipient rows in PostgreSQL; queue workers, inside
the web process or standalone, claim rows, send one EVM transfer per row and record the
outcome, while HTTP routes and the `queue-admin` script change the same rows and jobs. What
must not go wrong is money: paying twice, two transfers of one wallet in flight on the same
nonce, a job that says it is done while it is not, a row that nobody will ever pay.

This directory models the system in TLA+, from the queue to the pages of the console, checks the
models with TLC on small instances and proves every safety property that the runs check with
TLAPS for every instance. Paths below are relative to the repository's root; `lib/` stands for `src/lib/`.

## 1. Inventory

| component (code) | state | operations | hard behaviour | what makes it correct |
|---|---|---|---|---|
| **Wallet queue** `lib/queue/job-queue-repo.ts`, `queue-worker.ts`, `claim-select-sql.ts`, `config.ts`, `lib/evm-send-transfer.ts` | `job_wallets`, `jobs`; per worker its batch | claim, wave of sends, record success or failure, stale reset, two reconciliations of job statuses | many workers; crashes with rows in hand; lost receipts and lost commit answers; retry caps on both sides of an off-by-one; statuses computed on one snapshot and written on another | one transfer in flight per signer; no second payment without a fault that hid the first; completed means paid; every row settles; job status and counters agree with the rows |
| **Job lifecycle** `lib/normalized-job-db.ts`, `lib/job-service.ts`, `app/api/airdrop/jobs/**`, `scripts/queue-admin.ts` | `jobs.status`, `paused`, counters | create, start, start now, pause, resume, cancel, edit, queue, loop rerun, admin commands | routes read, decide and write the whole record; loop reruns race with workers and with cancel; requeues that hit rows in flight | a stopped job stays stopped; nothing takes a row from a live worker; a requeued row can be claimed |
| **Fund transfer queue** `lib/queue/fund-transfer-queue-repo.ts` | `fund_transfer_queue` | create from a batch range, claim, record, retry failed, stale reset | shares signers, and so nonces, with the wallet queue | one transfer in flight per signer over both tables |
| **Send rate limiter** `lib/queue/tx-rate-limiter.ts`, `lib/redis.ts` | per-minute counters in Redis or a cached count over PostgreSQL | acquire a slot | check-then-act across loops, clock buckets, lost calls, give-up after 90 s | Redis grants a signer no more sends of a minute than its limit, and exceeds the global one by lost calls at most; no leaked slots; the fallback overshoots by a bounded number; every call ends |
| **Runtime settings, embedded workers** `lib/queue/queue-runtime-settings.ts`, `embedded-queue-lifecycle.ts`, `queue-worker-liveness.ts` | settings row, Redis copy, cache per process; loop handles | read, change, refresh; start, stop, restart loops; heartbeat, watchdog | stale caches, a fallback to defaults on errors, requests that merge with a cache, start racing stop, deaths | a lasting pause reaches every worker; an open queue is always looked at; the loops the row asks for run; requests one after another lose nothing |
| **Wallet batches** `lib/generated-wallet-repo.ts`, `generated-wallet-generation-runner.ts`, `generated-wallet-embedded-lifecycle.ts` | `generated_wallet_batches`, `generated_wallets`; per loop its batch and next index | create, claim, generate in chunks, complete, fail, resume | several generators; deaths between two transactions; resume as check-then-write | indexes without gap or repetition; a completed batch is full; every batch ends |
| **Legacy runner** `lib/run-job.ts`, `lib/job-queue.ts`, `lib/job-runners.ts`, `lib/job-db.ts`, `lib/job-file-store.ts`, `lib/job-persistence.ts` | one JSON record per job, a set of running jobs per process | tick, claim, run waves, save, requeue stale jobs | whole-record saves from several owners, several processes | a recipient recorded as paid was paid; no second payment without a fault or an overlap; a job that runs ends |
| **Migration** `lib/migrations/migrate-legacy-jobs-to-queue.ts` | both stores | copy jobs to rows | a legacy run in progress | nothing is paid in both stores |
| **Wallet store** `lib/distributor-wallet-store.ts` | a JSON file of encrypted keys | load, add, remove, derive the next HD wallet | two processes rewriting a file | what a caller was told is in the file; no wallet is handed out twice |
| **Amounts** `lib/split-amounts.ts`, `random-bigint.ts`, `client-random-amounts.ts`, `mix-rotation.ts` | the list of a page, the rows of a job | split over several requests, draw, rotate, assign signers | remainders over request boundaries, random parts that must leave room for the rest, rounding to four decimals and to the token | the sum is the total, bounds hold, signers share the rows, nobody pays itself |
| **RPC selection** `lib/rpc-health.ts`, `rpc-retry.ts`, `chain.ts` | health scores | choose a URL, retry | lost and repeated sends | covered where it changes the queue: resends, lost receipts |
| **Requests for jobs** `app/api/airdrop/jobs/route.ts`, `jobs-v2/route.ts`, `jobs/[jobId]/route.ts`, `fund-transfer-jobs/route.ts` | an open transaction and a copy of the job per request | create in chunks, start, replace the recipients of a draft, save | overlapping requests, lost answers, servers that die between two statements, saves of stale copies | a visible job has all rows of one list; a list wanted once is paid twice only for a reason |
| **Console** `components/MakaluAirdropSuite.tsx`, `MixDropSuite.tsx`, `DashboardJobDetail.tsx`, `lib/session.ts`, `app/api/auth/**` | what a page shows, the browser's storage, requests in flight | verify, switch accounts, wallets, selection, create and start jobs, commands, polls | answers in any order, an account that changes meanwhile, lost answers, handlers that fail half-way, jobs that run again by themselves or from another tab, a token that expires | what is shown is what the server stores for the session and what was asked for, and ends up current |
| **Database bootstrap, metrics, settings panel** | none | DDL, pooling, rendering | - | not modelled |

How they interact: routes and admin commands write rows and jobs; workers claim them (`FOR UPDATE
SKIP LOCKED`, a snapshot test for processing rows of the same signer in both queues, a signer
advisory lock, a partial unique index per table); the limiter delays sends; the runtime settings
gate claims; a completed wallet batch is the source of the rows of a job or of fund transfers; the
migration feeds the wallet queue from the legacy store. `PROJECT.json` lists, with their lines, the
hazards this code is exposed to, the properties that watch them, and what of each hazard a property
excepts because the code does not keep it.

## 2. Modules

| module | what it is |
|---|---|
| `WalletQueue` | the wallet queue and the job lifecycle: rows, jobs, workers, operators, chain, faults |
| `WalletQueueProofs` | types and the retry cap; one transfer in flight, no second payment, completed means paid and stays so; statuses and counters of jobs |
| `SignerLease` | abstract: a claim takes in one step at most one row of each free key |
| `ClaimProtocol` | the claim transaction of both queues, statement by statement |
| `ClaimProofs` | the invariant of the claim and the refinement of `SignerLease` |
| `WalletBatches` | generation of wallet batches |
| `TxBudget` | the send rate limiter: Redis buckets, the PostgreSQL fallback, the escape |
| `TxBudgetProofs` | caps of Redis, slots given back, the bound of the fallback |
| `RuntimeFlags` | runtime settings, worker loops and processes, heartbeats, watchdog |
| `RuntimeFlagsProofs` | no field lost without an overlap, as many loops as the row asks for |
| `JobRequests` | requests that create, edit and start jobs, against the workers |
| `JobRequestsProofs` | visible jobs have all their rows, no second payment without a reason |
| `LegacyRunner` | the legacy runner of one job, the owner's routes, the migration |
| `LegacyRunnerProofs` | recorded as paid means paid, no second payment without a fault or an overlap |
| `WalletStore` | the JSON file of distributor wallets under several processes |
| `WalletProofs` | both modules of wallets: contiguous indexes, full completed batches, no collisions; what callers were told is in the file, found, and not handed out again |
| `RecipientPlan` | lists of recipients, rotations, and the rows of jobs made of them |
| `Console` | one page of the console and the server behind it |
| `Pages` | `Console` with the lists of `RecipientPlan` made on its pages |
| `PagesProofs` | sums, bounds and shares of lists of any length; what a page shows is stored and was asked for |

Every `MC...` module gives one of them its small instances; `MCPages` has those of `Console`,
`RecipientPlan` and `Pages`.

### WalletQueue

One action is one committed statement or transaction, one event on the chain, or one step of a
worker between two of them.

- `row[r]`: `status`, `retry_count`, whether `next_attempt_at` is ahead (`backoff`), whether
  `updated_at` is older than the stale threshold (`stale`). `job[j]`: `status`, `paused`,
  `processed_wallets`, `failed_wallets`.
- `hand[w][r]`: what worker `w` did with a row it claimed: `claimed`, `sent` (the chain has the
  transfer), `erred` (the catch block will record a failure). `prev[w][r]` is the `retryCount` it
  read when it claimed, which `recordWalletFailure` builds on.
- `at[p]`: control state and locals of worker or operator `p`. Statements that compute on a snapshot
  and write later are two actions: `ReadStatuses`/`WriteStatuses` (`reconcileJobStatusesFromWallets`
  and the global variant), `ReadAggregates`/`WriteAggregates` (`refreshJobAggregates`),
  `LoopCheck`/`Rerun` (`maybeAutoRerunLoopJob`), a route's read and its `Save`.
- `paid[r]`, `doubt[r]` are history: transfers the chain accepted, and faults that hid one. A rerun of
  a loop job starts a new cycle and clears them.
- Faults: `crash` (worker dies with rows in hand), `receipt` (transfer accepted, answer or receipt
  lost), `resend` (a send repeated on the next RPC), `ack` (commit of a success applied and reported
  as an error), `dbError` (a reconcile step throws), `slow` (a live worker holds a row longer than
  the stale threshold). A run names the kinds it allows.

Abstractions. The claim is one step here; `ClaimProtocol` opens it. A wave is not modelled as a unit:
rows of a batch go on independently, in any order, and a rejected `Promise.all` with siblings in
progress is the fault `crash`. Creating a job, and replacing the recipients of a draft, are the
initial state here and the subject of `JobRequests`. `scheduled_at` and other metadata are left out. `recover-stalled-queue` promotes
drafts by separate `PromoteDraft` commands. Amounts, tokens, gas and addresses do not matter to the
properties. Global pause and the runtime flags only ever suppress a claim.

### ClaimProtocol and SignerLease

`Snapshot` is what the claim's statement sees when it starts: pending rows of its table whose signer
has no processing row in either table. `Visit` is `FOR UPDATE SKIP LOCKED`: a candidate locked by
another transaction or no longer pending is passed over, but the `NOT EXISTS` is not evaluated on
newer rows. `TryKey` is `pg_try_advisory_xact_lock` on the signer; `Pick` is `DISTINCT ON` and
`LIMIT`; `Update` meets the partial unique index of its own table, waiting for an uncommitted entry
and rolling back on a duplicate (23505); `Commit` publishes and gives every lock back. `Rollback`
and `Crash` are database errors and deaths; `Reset` is the stale reset of rows whose worker is gone.
The worker alternates between the two queues and starts with `job_wallets` after an exception.
Retry caps, backoff and job states, which `WalletQueue` covers, do not appear.

`SignerLease` promises the same in one step per claim. `ImplementsLease` is the refinement: a
`Commit` is a `Take` with the table and the signer as the key, all that precedes it stutters.

### WalletBatches

Names that `WalletStore` has too carry the prefix `Batch` (`BatchInit`, `BatchNext`, `BatchSpec`), so that
one module of proofs extends both. `status`, `inserted`, `wallets` are the tables (`wallets[b]` is the set
of stored `wallet_index`); `lock` is the session advisory lock; `pc`, `batch`, `next` are each loop's
position in `walletGenerationPollLoop`. `Claim` takes interrupted batches before pending ones and passes
over a batch whose row is locked by a chunk transaction (`InTransaction`). The resume route is two steps,
`Ask` and `Requeue`, because its UPDATE does not repeat the test of its SELECT. `Die` covers a dead process
and an error that leaves the loop; `Restart` is a supervisor or `startEmbeddedWalletGenerationIfEligible`.

### TxBudget

`minute` is the clock, `count` the counters in Redis, `snaps` the snapshot objects of
`pgBudgetSnapshot`, of which `current` names the ones the module of a process keeps. A loop's `pc`
goes through `acquireTxSendBudget`, one step per await: `GlobalKey` and `SignerKey` (made one after
the other, so a minute may pass between them), `GlobalTry`, `SignerTaken` or `SignerRefused`, `Release` (the DECR of the
captured key), then `Reuse`, `BeginCount`, `Store` or `CountFails`, `GlobalCheck`, `SignerFull` and
`Reserve`. The check of the signer and both reservations are one step because the code has no await
between them; the check of the global count is a step before, and that is where the overshoot comes
from. `Release` may be lost. `Resend` is a command that took effect without an answer: ioredis sends it
again when it has reconnected, so that an INCR or a DECR may be applied twice. `lost[m]` counts these faults
on the global key of minute `m`. Left out: the key's end of life of 120 s, and a command that takes effect
after its call gave up. `granted`, `softly`, `dropped` and `lost` are history. `dropped` counts the reservations no snapshot knows
any more: those made in a snapshot that was replaced, and those a refresh of the minute does not take
over (`Forgotten`), be it that a newer one was stored since it looked or that an older one comes late.

### RuntimeFlags

An actor is a process starting up, a worker loop or a PATCH request; all of them refresh the cache
through the same steps `Get`, `Select`, `Apply` or `Defaulted`, and go on at `back`. `Merge` writes the
whole row from the cache of the process, `Drop` clears the copies, `Answer` starts or stops loops.
`armed` are the loops of a process that were not aborted; a loop that drains is in a slot outside
`armed`, beside those that are: a change of their number needs slots for the old ones and the new ones. `Gone` is `process.exit` and death. `Silent`, `BeatAges` and `Watchdog` are the heartbeat's
age: it may pass the window only while nothing in the process is quicker than a batch that takes too
long. The parallelism settings, which only tune throughput, are left out.

### JobRequests

A slot is a request being handled: `pc` names its next statement, `on` the job, `seen` the status of
its copy, `fresh` the rows its open transaction inserted. `Unlocked` is the row lock of
`SELECT ... FOR UPDATE`. `CreateCommit` may lose the answer of COMMIT; `Broken` is a failed statement
or a dead server. `page` waits for the answer to the list it sent, and may send the list again if it
did not get the job: `doubts` counts the creations that were not answered with their job. Workers
claim, pay and reconcile in one step each; their failures are `WalletQueue`'s subject. A fund
transfer job is created by the same steps and has no status but its rows'.

### LegacyRunner

`db` is the record of one job; a runner (`executeJob`) and a route hold copies of it (`mem`,
`request`) and save them whole. `old` says that `updatedAt` is past the stale threshold; only a save
renews it. `TickStep` is the tick of a process: `ListStale`, `Requeue`, `Claim`. `RunStep` follows
`executeJob` from await to await, the final save of its `finally` block, `Last`, included. `Migrate` is
the transaction of the migration, after which the queue pays (`QueuePays`). History: `doubts` (faults
that hid a payment), `overlap` (two runners, or a runner and the queue, may have sent at once) and
`undone` (a save took back a success or a pass).

### WalletStore

`file` is the JSON file with its modification time, `mem` and `loaded` are the copy of a process and
the time it was read. Operations run from `Stat` and `Read` to `Truncate`, `Write`, `RecordTime` and
`Answer`; synchronous file calls of one process do not interleave with each other, those of two
processes do. `Crash` leaves a truncated file when it strikes between `Truncate` and `Write`
(`torn`). `overlap` and `spoilt` are history: two operations met, a write was lost. One assumption: a write
always changes the modification time. `hydrateIfNeeded` compares times, and two writes within one tick of the
file system's clock would look like one.

### RecipientPlan, Console, Pages

`RecipientPlan` has the list of the page, the generation that fills it over several requests and the
rows of the job made of it. The arithmetic of `split-amounts.ts` is in operators; a random split is
drawn part by part (`DrawPart`), so that all outcomes are explored. Amounts count the finest unit;
`Step` is the last of the four decimals shown and `Unit` the smallest unit of the token.

`Console` is one mounted page. A line is a chain of requests: the handler of a click (`hand`; the
console is busy meanwhile), the restoring of a session, the rows of a job, a poll. `Serve` answers the
next request of a line as the routes do, `Arrive` shows the answer and goes on; both may happen in any
order between lines, and `Lose` loses a request or an answer. `crossed` and `unshown` are
history: what changed while a request for it was in flight, a handler that ended without its list.
The properties use them as their exceptions, and each exception is needed: the configurations below
show what happens without `crossed`. Jobs move on the server by `Run` (workers), by `Rerun` (a loop
job that is completed or failed is set to queued in a later statement, which may never come if the
process dies) and by `Elsewhere` (pause, start, resume, retry and cancel of other tabs). `Expire` is the end of the token after
24 hours: the page keeps its session, but every request made under the old token, those on their way
included (`stale`), is refused as having none. `ViewsCatchUp` says what polling achieves: once the jobs change no
more, a status that the page still waits for is the server's in the end. A status that was shown as
completed or failed is not waited for, even if the job runs again (`RunningIsPolled`, which is not kept).

`Pages` conjoins the two: recipients are worked on under a session, with wallets selected and no
handler running.

## 3. Runs

| run | instance | shows |
|---|---|---|
| `queue_safety` | 2 rows of one signer, 2 workers, 1 operator with every command that does not seize rows in flight, 2 attempts, 1 fault of any kind but `slow`, 3 commands | `OneInFlightPerSigner`, `PaidOncePerDoubt`, `CompletedWasPaid`, `CompletedIsFinal` |
| `queue_resets` | 1 row of a loop job, 2 workers, every command, `crash` and `slow` | `ProcessingRecoverable`, `FailedIsExhausted`: no interleaving of resets, reruns and late outcomes strands a processing row or gives up too early |
| `queue_liveness` | 2 rows of 2 signers, 2 workers, a started job, 1 `crash` or `receipt` | `TerminalJobHasNoOpenRow`, `CountersMatchRows`, `RowsSettle`, and `JobsSettle` when nothing failed |
| `claim_protocol` | 2 wallet rows and 1 fund transfer of a signer, 1 row of another, 2 workers, 2 candidates, batches of 2, 1 fault | `OneProcessingPerKey`, `RowHeldOnce`, `ImplementsLease`, `RowsGetDone` |
| `wallet_batches` | 2 batches of 3 and 2 addresses, chunks of 2, 2 loops, 2 faults, 2 resumes | `IndexesContiguous`, `CompletedIsFull`, `NoCollision`, `WalletsMaterialize` |
| `tx_budget` | 2 loops of a process, 1 signer, a global cap of 1 and a signer's of 2, 2 minutes, 3 calls, 2 Redis commands lost or sent again, 3 counts | `RedisWithinLimit`, `NoSlotLost`, `FallbackOvershoot`, `AcquireEnds` |
| `legacy_runner` | 2 processes with a runner each, 1 recipient, 2 passes, 1 command (the migration included), 1 fault | `SuccessWasPaid`, `PaidOncePerDoubt`, `JobEnds` |
| `runtime_flags` | 1 app with 3 slots for loops and up to 2 armed, 2 requests at a time, no fault | `LostOnlyByOverlap`, `LoopsFollowRow` |
| `queue_polling` | an app and a standalone worker with a loop each, 1 request, 1 fault | `PauseReachesLoops`, `QueueIsPolled` |
| `wallet_store` | 2 processes, 3 indexes (one the owner's own wallet), 1 imported wallet, 3 operations, 1 fault | `AnsweredIsStored`, `GeneratedIsNew` |
| `job_requests` | 2 jobs, a list of 2 recipients, 2 requests at a time and 5 in all, 2 edits, 1 worker, 1 fault | `JobHasAllItsRows`, `PaidOncePerReason` |
| `console_pages` | 2 owners with up to 3 wallets, 2 jobs, one poll in flight beside a handler, 2 clicks or a click and a fault; lists of up to 9 recipients in requests of 4, rotations of up to 3 wallets and 2 loops, batches of 5 | `WalletsAreStored`, `ShownIsAsked`, `ViewsCatchUp`; `ListKeepsTotal`, `SplitNeverGivesUp`, `DrawnNearRange`, `RowsAreShared` |

Every state predicate `TypeOK` held in these instances; the runs do not repeat it.

The following configurations are not runs of the project: each checks one rule (one has two) that a comment or a
document of the repository states, or that its reader would expect, and TLC finds it broken by what
the code does. `PROJECT.json`, "findings", quotes the lines.

| configuration | module | what happens |
|---|---|---|
| `MCLoopRace.cfg` | `MCWalletQueue` | two workers finish the last rows of a loop job, both decide to rerun it, and the second rerun resets a row that a worker already claimed in the new cycle: two transfers of a signer in flight |
| `MCSlow.cfg` | `MCWalletQueue` | nothing refreshes `updated_at` while a row is processed, so the row of a slow but live worker is reset and sent a second time |
| `MCQueueRoute.cfg` | `MCWalletQueue` | `requeueIncompleteWallets` keeps `retry_count`, so a failed row becomes pending and is never claimed |
| `MCAutoRerun.cfg` | `MCWalletQueue` | a cancel or pause between the check and the rerun of `maybeAutoRerunLoopJob` is undone |
| `MCCrossQueue.cfg` | `MCClaim` | a fund claim whose snapshot precedes the commit of a wallet claim gets the signer lock that this commit releases; each unique index covers one table: two transfers of a signer in flight |
| `MCBatchEnds.cfg` | `MCWalletBatches` | a generator dies after the last chunk and before `markBatchCompleted`: the batch stays running with all its addresses, no claim takes it and resume refuses it. The resume route reaches the same state without a death |
| `MCLegacyUnpaid.cfg` | `MCLegacyRunner` | a resume stored while a paused run stops ends the job as completed with recipients queued |
| `MCBudgetResent.cfg` | `MCTxBudget` | a DECR that took effect unanswered is sent again and gives back a slot of another loop: Redis grants more sends of a minute than the global cap |
| `MCRuntimeCleared.cfg` | `MCRuntimeFlags` | while a request has cleared the cache, a loop of the same process claims from a paused queue |
| `MCStoreReuse.cfg` | `MCWalletStore` | the wallet of the largest index, once removed, is generated again |
| `MCReopened.cfg` | `MCJobRequests` | a PATCH that read a draft saves it over a job that was started or done |
| `MCPagesAmounts.cfg` | `MCPages` | `NeverOverpays`: a list split in 18 decimals moves more than its total when a token with fewer is paid. `DrawnInRange`: an amount drawn from a range is cut to four decimals below its minimum. TLC stops at the one it meets first; each is broken without the other |
| `MCPagesExport.cfg` | `MCPages` | keys generated for a session arrive after its logout and are offered for download |
| `MCPagesSelection.cfg` | `MCPages` | verifying another account stores the old owner's selection under the new one |
| `MCPagesRows.cfg` | `MCPages` | the rows of an earlier choice of page arrive last and are shown |
| `MCPagesCreated.cfg` | `MCPages` | a poll of the earlier job arrives after a creation and is shown in its place |
| `MCPagesRerun.cfg` | `MCPages` | a poll shows a job as failed or completed, which stops the interval; a retry from another tab, or the rerun of a loop job, makes it run again, and the page does not ask any more |

Bounds. Two workers (loops, processes, requests) and two rows of one signer are what a race over a row
or a signer needs; a second signer lets a batch have two rows. Two attempts give a first failure, a
last one and the boundary between them. One fault leaves every single failure at every point of the
protocol, two in `wallet_batches` and `tx_budget`; three commands allow a command to follow another
that raced with a worker. In `MCBatches` a chunk of two with totals of three and two gives a full, a
partial and an exactly full last chunk. The candidate limit of two is smaller than the number of
rows, so that limits bite. In `tx_budget` the global cap is below the signer's and below the number
of loops, so that two loops that pass the check together overshoot, and a change of minute can fall
between any two steps. Two passes in `legacy_runner` make a success of the first pass distinct from
one of the second. In `wallet_store` one of the indexes is the owner's own wallet, which the code
skips. The forms of `console_pages` have totals that divide and that do not, totals too small to
split at random, lists that fill one, two and three requests exactly or in part, and a range whose ends
are no multiples of the last decimal.

In `runtime_flags` the app has one slot more than the loops it may arm: a change of the number of loops is
answered while the one loop that ran drains beside the two that are started (TLC reaches such states, and from
them the request that switches the two off). It has no fault, since both of its properties are about behaviours
without one; `queue_polling` has the deaths and the failed calls.

More bounds of the console. Reruns and the commands of other tabs count as clicks (`MaxClicks`), the end of
the token as a fault, and `MaxMoves` bounds clicks and faults together, by two: what a rerun or a retry
elsewhere after a creation needs, or a fault after a click. With three TLC finds that the six invariants hold, too
(1.7 million states), but the temporal property takes too long; `WalletsAreStored` and `ShownIsAsked` are proved
for every bound. A
poll begins only when there is something new to show, or when it will be refused: a poll
that would show the same changes nothing, but polls would otherwise be started without end. What is
done to recipients is explored on a page where nothing else has been done, for one owner
(`Untouched`): no action on recipients reads what the clicks and answers of the session change but the
selection, and those actions change nothing else. Owners are alike, so a session that is restored at
the start is of one of them (`One`).

Worker, process and request symmetry is used only in runs without liveness. `CHECK_DEADLOCK FALSE` is
set because a finished queue, or a console whose user has no clicks left, really stops.

Fairness. Weak fairness on a worker's or loop's steps: they poll for ever and are restarted by their
supervisor or by the embedded lifecycle. Weak fairness on the passing of time: backoffs elapse, the
rows of dead workers and the record of a job nobody runs get older than the threshold, the Redis copy
expires, minutes pass. In `RuntimeFlags` the watchdog is scheduled and exited processes are started
again; a batch that hangs is not a step of its loop and is never forced to end. In `TxBudget`
`SendAnyway` is strongly fair: the deadline is tested at the top of every iteration, the minute of the
model may be over before the 90 s are, and a call that goes on testing finds them over in the end. In `LegacyRunner` ticks, runners
and the save of a route proceed. In `Console` the server answers, answers arrive and timers fire:
`Progress` is weakly fair as a whole, that is, the system never stands still for ever while it could
move. Operators, users, faults and the choice between outcomes are never forced; nor are `Resend`, and in
`Console` the rerun of a loop job (its process may die before it) and the end of the token.

## 4. Proofs

All theorems are for every value of the constants that satisfies the named assumptions: finite rows
and, in `JobRequests`, finite jobs, slots and workers, since rows and requests are counted; total maps
from rows to jobs and signers; positive limits; a value for "nothing" that is no number, row, request or record
(`NoneAssumption`, `NothingAssumption`); in `RuntimeFlags`, disjoint kinds of actors and requests that ask
for values of the right kind; in the pages, accounts whose keys the server has apart from the others, room for
one wallet besides the owner's, forms that ask for at least one recipient, and imported lists that are lists
of recipients (`ConsoleAssumption`, `PlanAssumption`). TLC evaluates them in the runs.

| theorem | property | restriction |
|---|---|---|
| `WalletQueueProofs`: `TypeCorrect`, `ProcessingAlwaysRecoverable`, `FailedAlwaysExhausted` | types, `ProcessingRecoverable`, `FailedIsExhausted` | none |
| `OneInFlight`, `NoDoublePayment`, `CompletionImpliesPayment`, `CompletedStaysCompleted` | `OneInFlightPerSigner`, `PaidOncePerDoubt`, `CompletedWasPaid`, `CompletedIsFinal` | `NoSeizure` |
| `TerminalMeansSettled` | `TerminalJobHasNoOpenRow` | `NoReopening` |
| `CountersAreExact` | `CountersMatchRows` | `NoRecount` |
| `ClaimProofs`: `OneProcessingAlways`, `RowHeldOnceAlways`, `ClaimRefinesLease` | `OneProcessingPerKey`, `RowHeldOnce`, `ImplementsLease` | none |
| `WalletProofs`: `IndexesAlwaysContiguous`, `CompletedAlwaysFull`, `NeverCollides` | `IndexesContiguous`, `CompletedIsFull`, `NoCollision` | none |
| `AnsweredStays`, `GeneratedStaysNew`, `LookupsFind` | `AnsweredIsStored`, `GeneratedIsNew`, `LookupsFindStored` | none |
| `TxBudgetProofs`: `RedisKeepsLimit`, `SlotsComeBack`, `FallbackBound` | `RedisWithinLimit`, `NoSlotLost`, `FallbackOvershoot` | none |
| `LegacyRunnerProofs`: `SuccessIsPaid`, `PaidOnce` | `SuccessWasPaid`, `PaidOncePerDoubt` | none |
| `RuntimeFlagsProofs`: `NothingLost` | `LostOnlyByOverlap` | none |
| `LoopsAlwaysFollow` | `LoopsFollowRow` | `OneApp`, `SwitchLeft` |
| `JobRequestsProofs`: `AllRowsThere`, `PaidForAReason` | `JobHasAllItsRows`, `PaidOncePerReason` | none |
| `PagesProofs`: `ListsKeepTotals`, `SplitsNeverGiveUp`, `DrawsNearRange`, `RowsStayShared` | `ListKeepsTotal`, `SplitNeverGivesUp`, `DrawnNearRange`, `RowsAreShared` | none |
| `WalletsShownAreStored`, `JobShownIsAsked` | `WalletsAreStored`, `ShownIsAsked` | none |

Every proof module but `PagesProofs` also shows `TypeOK` of its component (the invariants of the pages have
the types they need as conjuncts). `ListsAlone` and `ConsoleAlone` state the six properties of the pages
once more, of `Plan!Spec` and of `Spec` of `Console`: without the bound `Untouched` of section 3, which
keeps the two apart. `LookupsFindStored` is proved without being checked by a run. A restriction is on which
commands, faults and jobs there are, never on how they interleave, and each is needed:

- `NoSeizure` (no loop jobs, no `slow` fault, neither the queue route nor requeue-incomplete): what
  `MCLoopRace`, `MCSlow` and `MCQueueRoute` of section 3 show to break the properties.
- `NoReopening` adds that no row with an outcome becomes open again: not the fault `ack`, after which the
  worker sends a completed row again, nor `retryFailed`. With either, a status computed before the row
  was opened is written after it. `MCLiveness.cfg` satisfies it.
- `NoRecount` adds that there is no admin pause, promotion of a draft or `reconcileJob`: their
  `refreshJobAggregates` counts the rows in one statement and writes the counts in another, over the
  increments of outcomes in between. The error stays until the next refresh.
- `OneApp` and `SwitchLeft`: a second app is not told of a request the first one serves, and a request
  that changes only `normalizedQueueV2` starts and stops no loop (a finding of `PROJECT.json`).

The arguments:

- `WalletQueueProofs`. `TypeInv` is `TypeOK` with the fact that a process about to save has a record to
  save. `AttemptsInv`: `prev` is below `MaxAttempts` because a claim requires it, a failure writes
  `prev + 1` or gives up, and every reset lowers or keeps the count. `LeaseInv` says that a row in hand
  is processing, fresh, still has the claimed retry count, and is in one hand only, and that a signer
  has one processing row. `PayInv` counts payments against doubts by whether the row is sent but
  unrecorded, recorded, or neither. `StatusIsSound`: what a process is about to write as the status of a
  job (`SnapOK`) was true of a snapshot and is still, because a row in hand is open and outcomes stay
  (`OutcomesStay`); a snapshot may miss an outcome, never see one that is gone. For the counters, an
  outcome adds one row to one status and one to its counter (`OneMore`), all else keeps both (`SameCount`).
- `ClaimProofs`. `ClaimInv`: a locked row is pending and its transaction open (`LockInv`), a held row
  is processing and held once (`HoldInv`), an updated claim has entered the index (`IndexInv`). From
  it the two invariants and, with the mapping `owner`, the refinement.
  The proof does not use the advisory locks: they spare the index conflicts, the index gives the
  safety. Across the two tables neither does: `MCCrossQueue.cfg` of section 3.
- `WalletProofs`, the batches. `BatchInv`: a generating loop holds the lock of its batch (`LockInv`) and its
  next index follows the counter (`NextInv`).
- `TxBudgetProofs`. The global counter of a minute differs from what was granted and what calls hold by at
  most `lost`, to either side: a lost DECR leaves it higher, a repeated one lower. The counter of a signer
  is never below its grants, and every INCR passes the test. For the fallback, a snapshot knows every reservation of its
  minute but the dropped ones, and a process exceeds the global cap only by loops that stand between
  the test of the global count and the reservation, all of them but one.
- `LegacyRunnerProofs`. `HonestInv`: every copy of the record, in a runner, a route or a tick, calls
  paid only what was paid in the pass it names. `OnceInv`, for the second theorem: as long as no two
  runners overlapped and no save took a success back, one runner is at work (`OneRunner`), whom it or the
  queue has still to pay was paid in this pass only where a fault hid it (`RunnerInv`, `RowsInv`), and
  every other transfer is known to the record, to a save under way or to the queue (`PaidInv`).
- `RuntimeFlagsProofs`. `FreshInv`: without overlap and fault one request is under way at a time, and the
  copy it merges with is the row. `LoopInv`: an app that is up then has the loops the row asks for,
  unless a request stands between its write and its answer (`Changing`).
- `JobRequestsProofs`. `ListInv`: a creation works on a job nobody sees, and a replacement on a draft that
  its row lock keeps a draft and keeps to it alone, so that what they publish is a whole list. `OwedInv`
  counts what was paid to a recipient and what may still pay it (a claim, a job, a creation, the page)
  against the reasons: one, and one more per doubt and stale save.
- `WalletProofs`, the store. As long as operations are apart (`Apart`) one process works at a time
  (`Solo`); a copy whose time is that of the file has the file's wallets and the changes of its own
  operation (`CopyOK`); every look at the map follows a look at the time (`FreshOK`); and what was
  acknowledged stays in the file until the operation that removes it takes it back (`WorkOK`).
- `PagesProofs`, the lists. The theorems speak of sums over lists of any length. `Induction` is proved from
  finite sets: were a number missing from a set that has 0 and is closed under successor, the missing ones up
  to it would be mapped into themselves by the predecessor, one to one and so onto, and no one is mapped to
  the largest. With it `Running` is the sequence of partial sums of the fold `Sum`, and what a sum is
  after `Append` and `\o`, that sums of bounded parts are bounded, and how many of n numbers have a given
  remainder are lemmas. `ListInv`: what is gathered so far are the even shares of the recipients counted
  over all requests (`Shares`), the shares of a total sum to it, and a split that runs leaves the
  recipients after it between the least and the greatest they may have together (`SplitFits`), which is
  what makes `Low <= High` and lets the rest fit the last. `RowsInv`: row k is signed by `(k - 1) % m + 1`, and
  the rows of a rotation follow shuffles, from which the shares and the turns are counted (`Turned`).
- `PagesProofs`, the console. The properties say what holds when no answer is on its way, so the invariant has
  to say what the answers on their way are. `StateFits` and `CallsFit` are the types, and the shape of a
  handler: which request it makes last, and that an answer is one to its request. `ListsFit`: unless a session
  or a store changed under it, a list still to come was asked for the session shown, is what the server
  stores if it was answered, and if none is to come the wallets shown are that already. `JobsFit`: whatever
  is asked or started on a line is `asked`. `RowsFit`: rows on their way are of the page chosen, and other
  rows stay shown only while some are on their way.

What the proofs changed in the models. The bound of the fallback was not inductive: with five counts TLC
found a run in which two refreshes, stored one after the other, forget reservations that `dropped` did
not count; `Forgotten` counts them now. The proofs of `RuntimeFlags` and `WalletStore` needed the
assumptions named above, and showed which requests `LoopsFollowRow` is about. In `Console` the proof met a
request that removes the owner's own wallet, which no page offers and the route refuses, as `WalletRefused` now does;
removal takes the wallet out of the list where it stands (`Place`), as the map of the code does; the requests,
answers and calls have types (`Requests`, `Answers`, `Calls`). `Sum` of `RecipientPlan` folds a
sequence from the left.

Only model-checked:

- liveness and fairness (`RowsSettle`, `JobsSettle`, `RowsGetDone`, `WalletsMaterialize`, `AcquireEnds`,
  `JobEnds`, `PauseReachesLoops`, `QueueIsPolled`, `ViewsCatchUp`): out of the prover's reach;
- what the configurations of the second table of section 3 show.

## 5. Plan

Every component of the inventory that keeps state has a module, and every invariant and step property
that a run checks is proved. What could come next: the hazards of `PROJECT.json` without a property, each
a rule the code does not keep (the configurations of the second table of section 3 show five of them); a
fair scheduler for `Console` finer than `Progress` as a whole; and the settings panel and the fund form, should
they come to keep state of their own.

## 6. Not modelled, and why

- DDL, connection pooling, metrics, diagnostics and repair scripts (`scripts/*.mjs`), queue statistics and
  snapshots: they read, print, or have no protocol of their own.
- `app/api/distributor-wallets/distribute`: it sends from a request and keeps nothing; the fund form,
  balances, the settings panel and the batches dashboard of the console render what they read.
- The handlers of the airdrop page that no page can reach (`pauseBatchJob` and its neighbours: their
  buttons need the dashboard inside a card that the dashboard does not render), and the mode of the job
  page for servers without the normalized store.
- The file variant of the legacy job store (`lib/job-file-store.ts`), for one process.
- The retry cap of fund transfers and `adminRetryFailedFundTransfers`, which repeat the rules of wallet rows;
  their claim, record, reset and creation are in `ClaimProtocol` and `JobRequests`.
- The choice of an RPC URL and its scores: only its effects on sends, lost and repeated ones.
- `bumpBatchInserted` in `lib/generated-wallet-repo.ts` has no caller.

## 7. Running

    tlc -workers 2 -config MCSafety.cfg MCWalletQueue     # and the other pairs of section 3
    tlapm WalletQueueProofs.tla                           # and the other *Proofs modules

The configurations of the first table of section 3: `MCSafety`, `MCResets`, `MCLiveness` with
`MCWalletQueue`; `MCClaim`; `MCBatches` with `MCWalletBatches`; `MCBudget` with `MCTxBudget`; `MCLegacy` with
`MCLegacyRunner`; `MCRuntime` and `MCPolling` with `MCRuntimeFlags`; `MCStore` with `MCWalletStore`;
`MCRequests` with `MCJobRequests`; `MCPages`.
