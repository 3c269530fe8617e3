# EvalFlow: a TLA+ model of the evaluation system

EvalFlow runs LLM evaluations as jobs in a PostgreSQL table. Workers claim jobs under a lease, run a
pipeline of tool calls and one model call, and write the result; a reaper recovers jobs whose worker
went silent; reports, comparisons and a regression gate are computed from what is in the table, and a
command line and a page in the browser show them. This directory models the parts where steps of several
actors meet, or where arithmetic and classification decide what a user is told. TLC checks the models on
small instances; TLAPS proves the most important properties for every instance.

## 1. Inventory

All paths are relative to `server/src/` of the repository unless they say otherwise.

| Component | State it keeps | Operations | Talks to |
| --- | --- | --- | --- |
| Job store (`jobs.ts`, `prisma/schema.prisma`) | rows of `jobs`, `evals`, `traces` | createJob, claimNextJob, renewJobLease, completeJob, failOrRetryJob, reapExpiredJobs, retryJob, addTrace, queries | PostgreSQL: row locks, READ COMMITTED statements, the database clock |
| Worker process (`worker.ts`, `workerMetrics.ts`) | slots, `active` map, `stopping`, `abandoning`, timers, the outcome of each attempt | workerLoop, runOnce, processJob, requestShutdown, abandonAndExit, finalize | job store, heartbeat, provider permit, LLM |
| Heartbeat (`heartbeat.ts`) | `lost`, an abort signal, the renewal in flight | startHeartbeat, assertActive, stop | job store; one per attempt |
| Reaper process (`reaper.ts`) | an abort signal | the scan loop | job store |
| Queue wakeup (`queueWakeup.ts`, migration `20261018000000`) | generation, waiters, the listener connection | version, wake, wait, startQueueListener | worker loop, a trigger on `jobs` |
| Provider rate limit (`providerRateLimit.ts`) | rows of `provider_rate_limits` (token buckets) | tryAcquireProviderPermit, waitForProviderPermit | bucket row lock, then job row lock |
| Job tracing (`jobTracing.ts`) | none | queueWaitTiming, spans | columns the claim returns |
| Runs and reports (`runs.ts`, `caseComparison.ts`) | rows of `runs`; reports are derived | createRun, getRunReport, listRuns, compareRuns, getRunBaseline | job store |
| Baseline gate (`gate.ts`, `gateSummary.ts`, `baseline.ts`) | none | compareBaselines, renderGateSummary | baselines from files or runs |
| Command line (`cliRun.ts`) | the run being waited for, a deadline | run, baseline export | the API |
| Datasets (`datasets.ts`) | rows of `datasets`, `dataset_cases` | loadDataset | database |
| LLM selection (`llmConfig.ts`, `llm.ts`) | `input.llm` of a job, settings of a process | resolveLlm, claimNextJob, provider calls | API and worker environment |
| Evaluator (`evaluator.ts`, `llm.ts`) | none | parsing, checks, score, the mock provider | the pipeline |
| Frontend (`frontend/src/RunsDashboard.tsx`, `App.tsx`) | polled views, selection, filter, details, forms | refresh effects, loadSelectedJob, submit, retry | the API |
| HTTP API (`api.ts`) | a stopping flag | handlers, request validation, metrics, bounded shutdown | everything above |
| Health checks, analytics tools, generated database client, benchmarks, scripts, deployment | none that jobs depend on | presentation and measurement | read-only |

What makes each hard, and what makes it correct:

* **Job store.** Every operation may be called concurrently, from processes that lost their lease
  without knowing it, and may be rolled back. Correct means: at most one accepted result per job, no
  claim handed out twice, budgets of attempts neither exceeded nor lost, rows whose columns agree, and
  no job stuck.
* **Worker process.** Within one attempt the pipeline, the heartbeat and the shutdown interleave at every
  `await`; database answers may be lost; the process may die anywhere. Correct means: after the deadline no
  attempt passes another check of its pipeline, every claim is settled in the end, the process ends, and what it
  counts is what happened.
* **Reaper process.** Scans step around locked rows and may fail after they took effect. Correct means:
  lapsed leases are recovered for as long as the process runs, and the process ends when it is told to.
* **Queue wakeup.** A notification may fall between an empty claim and the wait, or into a reconnect.
* **Provider rate limit.** A shared bucket refilled by a clock that may be set back, two row locks, and
  permits asked for by attempts that must stop. Correct means: tokens are earned before they are spent, the
  charged attempt still owns its job, and nobody waits for ever.
* **Job timing.** Millisecond columns, a finer clock, truncation in one place and rounding in another.
  Correct means: waits add up and are never negative, retries are held back as the backoff says.
* **Runs and reports.** Several queries without a snapshot while jobs move. Correct means: a finished report
  is exact, an unfinished one never claims more than is true, comparisons and exports stay true.
* **Command line.** Lost answers and a deadline. Correct means: the exit code tells the truth about the two
  runs, and a failing request never makes a second run.
* **Datasets.** Find-then-create. Correct means: what is reported is true of what is stored, for good.
* **Selection and evaluation.** Workers of one queue with different settings, redeployed between attempts.
  Correct means: one job is sent to one model, and its score is what the documented rules give.
* **Frontend.** Late, lost and failing answers to polls of views that have changed meanwhile, polls that fail in
  part, and effects that run some time after the state they depend on was set. Correct means: only what is chosen
  is shown, nothing shown goes back in time, polls are awaited one by one and go on.

`PROJECT.json` lists the hazards at their lines, with the properties that cover them.

## 2. Modules

| Module | Models | Role |
| --- | --- | --- |
| `JobLifecycle` | the promise of the job table | abstract specification: jobs, attempts and how each ended |
| `JobStore` | `jobs.ts`, `createRun` | detailed specification; refines `JobLifecycle` |
| `ReaperProcess` | `reaper.ts` | extends `JobStore` by the loop that calls its reaper |
| `Worker` | `worker.ts`, `heartbeat.ts`, `finalize` of `workerMetrics.ts` | one worker process |
| `QueueWakeup` | `queueWakeup.ts`, the claim loops, the notification trigger | how idle loops learn of queued jobs |
| `ProviderPermit` | `providerRateLimit.ts`, the way to a call in `worker.ts` | the shared token bucket |
| `JobTiming` | the time columns of `jobs.ts`, `jobTracing.ts` | backoff and waits, with the rounding of the columns |
| `CaseComparison` | `baseline.ts`, `caseComparison.ts`, `gate.ts`, counts of `gateSummary.ts` | pure operators |
| `RunReport` | `runs.ts` | extends `CaseComparison`: queries over moving jobs |
| `CliRun` | `cliRun.ts` | extends `RunReport`: one command against the server |
| `DatasetLoad` | `datasets.ts`, the dataset part of `createRun` | concurrent loaders and clients |
| `SavedSelection` | `llmConfig.ts` and its uses in `runs.ts`, `api.ts`, `jobs.ts`, `worker.ts` | which model a job is sent to |
| `CaseEvaluation` | `evaluator.ts`, the mock of `llm.ts` | extends `SavedSelection`: what becomes of an answer |
| `PolledView` | the polling effect of the dashboards | operators on one polled view |
| `RunsDashboard`, `JobDashboard` | `RunsDashboard.tsx`, `App.tsx` | the two dashboards |
| `Dashboards` | the page in `App.tsx` | composes the two (`INSTANCE ... WITH`) |
| `JobStoreProofs`, `WorkerProofs`, `QueueWakeupProofs`, `ProviderPermitProofs`, `CliRunProofs`, `RunContentProofs`, `JobTimingProofs`, `DashboardProofs` | | TLAPS proofs |
| `MC...` | | instances for TLC; `MCRunRecords` has those of `DatasetLoad`, `CaseEvaluation` and `JobTiming` in one run |

### JobLifecycle

Four variables per job: its phase, the attempts charged, how every attempt ever made ended, and the number
of stored evaluations. There are no leases, tokens, locks or transactions: this is what the rest of the
program relies on. Its actions are `Submit` (jobs appear, a run's at once), `Start`, `Accept`,
`EndWithoutResult` (released by its holder one by one, or recovered in a batch) and `Redrive`.

### JobStore

*State.* `jobs[j]` is the row; timestamps are replaced by what the code asks of them (a lease is live or
expired by the database clock, `run_after` is due or delayed). `claims[j]` is a history variable: the
t-th claim of j, its worker, and how it ended; the lease token of a claim is its index. `tx[s]` is the
transaction of a database session: which operation, with which lease, and how far it got.

*Actions.* A single SQL statement (`claimNextJob`, `reapExpiredJobs`, inserts) is one action. Operations
inside `prisma.$transaction` are several:

| Code | Actions |
| --- | --- |
| `SELECT ... FOR UPDATE` in `ownsLease` and `retryJob` | `Lock`, which waits until nobody else holds the row |
| the checks after it | `Check`: on to write, or return false / null / not_dead_letter |
| the updates and the commit | `RenewJobLease`, `CompleteJob`, `FailOrRetryJob`, `RetryJob` |
| any error, disconnect or death before the commit | `Abort` |
| `clock_timestamp()` moving on | `LeaseExpires`, `RunAfterPasses`, at any time, also between two steps of a transaction |

`FOR UPDATE SKIP LOCKED` is the conjunct `Unlocked` in `ClaimNextJob` and `ReapExpiredJobs`. Callers are
not trusted: `Begin` may use any lease ever handed out, any number of times, so the model contains stale
workers, duplicate calls, concurrent use by heartbeat, pipeline and shutdown, and retries after an
unseen commit. `MaxRequeues` bounds manual retries (the only thing that would make the model infinite).

### ReaperProcess

`reaper.ts` calls the reaper, sleeps, and goes on until a signal aborts it. The module adds `loop` and
`aborted` to the variables of `JobStore`. A scan that recovers something is `ReapExpiredJobs` together with
the step of the loop (`ScanRecovers`); `ScanInVain` is one that finds nothing, finds only locked rows, or
fails; `SleepEnds` starts the next scan, or leaves the loop when the sleep was cut short; `Signal` and `Close`
are the shutdown. Everything else that happens to the table is `Next` of `JobStore`.

### Worker

*State.* `slot[s]` is where loop s is and its attempt: the claim, the pipeline step, the heartbeat
(`off`, `sleeping`, `renewing`), whether the lease is believed lost, the answer of the final write in
flight, and the outcome recorded. `active`, `mode` (running, stopping, abandoning, exited, failed) and
`cleanup[s]` (the release task of `abandonAndExit`) are the process; `job` and `ending` are the table,
through the atomic effects that `JobStore` justifies. `due` is a history variable: the step each attempt was at
when the deadline came.

*Checks.* `processJob` asks `assertActive` before it writes a trace, before it calls the model and before it
completes, and not when a trace has been written. A step is what one `await` waits for, the writing of a trace
included, and `Checked` are the steps after which the check comes: leaving one of them, an attempt that must stop
unwinds (`StoppedByCheck`, `LeaseLostIn`); leaving any other, it goes on (`NextStep`).

*Actions.* One per stretch of code between two awaits. A database call is a send, an effect at the
database, and an answer; an error answer (`unconfirmed`) may hide an effect, and effects may still happen
after the process is gone. Other workers appear as `ClaimElsewhere` and `CompleteElsewhere`.

| Code | Actions |
| --- | --- |
| `workerLoop`, `runOnce` to the claim | `ClaimSend`, `ClaimCommits`, `ClaimReturns`, `ClaimReturnsNothing`, `LoopEnds` |
| `processJob` | `NextStep`, `CompleteSend`, `PipelineFails`; `LeaseLostIn` where `assertActive` throws, after a step in `Checked` |
| `completeJob`, `failOrRetryJob` | `CompleteTakesEffect`/`CompleteReturns`, `ReleaseTakesEffect`/`ReleaseReturns` |
| a claim that came after the signal | `GiveBack` |
| the `finally` block of `runOnce` | `Unwind` |
| `heartbeat.ts` | `RenewSend`, `RenewReturns`; `stop` is `Stopped` and `Drained` |
| `requestShutdown`, `abandonAndExit` | `Signal`, `Deadline`, `CleanupSend`, `CleanupTakesEffect`, `CleanupReturns`, `CleanedExit`, `HardStop` |
| end of the module, SIGKILL | `DrainedExit`, `Kill` |

`finalize` serialises the final writes of one attempt: `CleanupSend` waits for a completion or release in
flight, `GiveBack` for a cleanup in flight. The retry delay is left out (a queued job may be claimed at
once): the behaviours with a delay are among those without.

### QueueWakeup

*State.* The queued rows (`row`, and `lock` for a transaction that makes `SKIP LOCKED` step around one), the
connection as the server sees it (`conn`, `inTransit`) and as the client does (`listener`: connecting, subscribing,
listening, closing, pausing, closed; off in poll mode), `generation`, and each loop with the version it captured.
`announced` is a history variable: the due rows somebody was told of and that no lock has hidden since.

*Actions.* `QueueJobs` is a commit with its notification; `RunAfterPasses` and `UnlockRow` make a row claimable
without one. A claim is `ClaimSend` (which captures `wakeup.version()`), an effect (`ClaimFinds`,
`ClaimFindsNothing`) and `ClaimReturns`, which waits or not (`MustWait`). `Wake` is `wake()`: a new generation,
and the waiters return to their loops. `Timeout` is the idle check and the end of the pause after a failed claim.
`Connects`, `ListenTakesEffect`, `ListenReturns`, `SetupFails`, `BreakNoticed`, `StopListening`, `Closed` and
`PauseEnds` are the body of `startQueueListener` from await to await; a connection breaks (`ConnectionBreaks`)
before the client notices. `MaxBreaks` bounds failures, and each row is queued and locked once; together they bound
`generation`.

### ProviderPermit

*State.* One bucket row (`exists`, `tokens`, `refilledAt`) and one attempt per job (`lease`, `busy`, `told`,
`pc`). Balance and time are counted in one unit, the tick: a permit costs `Period` ticks, so that the
fractions of `tokens + elapsed * refill_per_second` stay exact. `opened` and `spent` are history variables.

*Actions.* One per statement of `tryAcquireProviderPermit`: `LockBucket` (with the insert of a missing row),
`LockJob` and `CheckLease` (`ownsLease`), `ReadBucket` and `WriteBucket`, then `Answered`; `Abort` at any
point before. Reading and writing are two steps because the `UPDATE` computes from a materialized CTE. `Spend`
is the granting commit; `SpendUnseen` one whose answer is lost. `Ask`, `SleepEnds` and `CallLlm` are
`waitForProviderPermit` and the call in `processJob`, which `Tell` may forbid at any time. The job row
is also locked by others (`OtherLocks`), its lease may lapse or be taken (`LeaseExpires`, `LeaseLost`). The
clock ticks and may be set back.

### CaseComparison, RunReport, CliRun

`CaseComparison` has no state: documents are functions from case names to sides (outcome and score), and
`ClassifyChange`, `Valid`, `CompareBaselines` are the functions of the code on them.

`RunReport` adds jobs of runs that move through their statuses (`JobMoves`), dead letters that are retried
(`Redrive`), and the requests that read them. A report takes its queries one by one (`CountJobs`,
`CountPasses`, `AggregateTotals`, `ReadLatencies`), and a comparison reads one run after the other, while jobs
move in between. Evaluations of completed jobs never change (`CompletedIsFinal` of `JobStore`), so a query
that reads only those is exact whenever it runs. One request is answered at a time: requests change nothing,
so no request can tell whether another is in progress.

`CliRun` is the command: read the baseline (a file, or a run to be exported), create a run, poll, export,
judge, exit. Each request is a send (`PostRun`, `AskReport`, ...), a step of the server and an answer;
`RequestFails` and `Deadline` may come at any point, also after the server has acted. A command without a
baseline lets other clients export and compare instead (`OthersAsk`).

### DatasetLoad

Loaders find a dataset (with its cases: two queries), compare it and create it in one transaction; the unique
key refuses the second of two creators. Clients read the dataset and create a run from what they read.
A case is a value and the order of the keys of its JSON: `jsonb` does not keep the order, so the comparison has
to ignore it (`CanonicalJson`).

### JobTiming

One row against a clock of half milliseconds. The columns are `TIMESTAMP(3)`: `Trunc` where the SQL truncates
and `Round` where PostgreSQL rounds on assignment. `FailOrReap` computes the backoff (`Ceiling`, `Jitter`),
`ClaimNextJob` the recorded wait (`QueueWait`), `RetryJob` is the manual one. The clock may be set back.

### SavedSelection, CaseEvaluation

A job carries the provider and model it is to be sent to, checked against the settings of the API when it is
created; an old job has none, and the claim saves the run's or the worker's default in it. Workers differ in
their settings and are redeployed (`Deploy`) between attempts, leases lapse (`Lapse`).

`CaseEvaluation` goes on where a call is made: the provider answers (`MockAnswer` with the failures it is
configured for, `OtherAnswers` for any text), the answer is parsed, checked and scored (`Evaluate`). From
there on nothing of the selection matters, so it is forgotten. A text is the set of numbers in it.

### PolledView, RunsDashboard, JobDashboard, Dashboards

`PolledView` is the effect the dashboards use four times: ask, show, set a timer; abort and clear on cleanup.
A request that was aborted may still be served and answered. A poll is one fetch, or several under `Promise.all`
(three for the list of runs, two for that of jobs). It is answered when all of them are, and fails with the first
that fails (`Failed`): the timer is set although others may still be on their way (`StillOnTheirWay`), which only
a later cleanup aborts. `leftOver` counts them, up to `MaxLeftOver`; nothing they bring is ever shown.

`RunsDashboard` has the list, the selected run and the comparison, next to a form; `JobDashboard` the list with its
filter, the details of the selected job (loaded again with every list that arrives), a form, and the requeue
button, whose answer is always shown and takes the selection back to its job. `Dashboards` mounts one of the two, the
first with the list and either the selected run or the comparison (`OnPage(Parts)`); the server goes on while the
other is away.

*Rendering.* React renders clicks, menu choices and submissions, and runs the effects they cause, before the
next event: such a handler and its effects are one step. Setters that follow an `await` (a list, or the answer to a
POST) are rendered in a later task, and the cleanup of the effect of the old state runs only then. In
`JobDashboard` that is visible: between `Answered` and `Render`, or the next click, the load of the job selected
before is not cancelled and may still bring its details. `effect` says what the effects have not seen yet: the
selection the details were last loaded for, a new list, a new `refreshVersion`; `EffectsRun` brings it up to date. A
load that was cancelled changes nothing and is forgotten. In `RunsDashboard` no effect reads what another handler set
without a rendering, so the step of the answer to the form (`Submitted`) is its rendering, up to which the page is
what it was. What a setter was given counts as shown from then on.

## 3. Runs

| Run | Instance | Distinct states | Shows |
| --- | --- | --- | --- |
| `contention` | 1 job, 2 attempts, 1 worker, 3 sessions, 1 manual retry | 118,339 | the invariants of `JobStore` and its refinement of `JobLifecycle`, when three transactions of any kind meet on one row |
| `queue` | 2 jobs (budgets 1 and 2), 1 worker, 1 session, reaper batch 1, fair | 15,738 | queued jobs are claimed, lapsed leases recovered until the reaper is told to stop, and it then stops |
| `slots` | 2 slots, 1 job, 2 attempts, 2 pipeline steps, the second checked | 2.45 million | truthful outcomes, exclusive release, no attempt passes a check after the deadline |
| `settling` | 1 slot, 1 job, 2 attempts, 3 steps, all but the second checked, timers fair | 34,632 | the deadline releases every attempt, every claim is settled, the process ends |
| `deadline_two_slots` | as `slots` | | **violated**: see the first finding below |
| `deadline_between_checks` | 1 slot, 1 job, 1 attempt, 2 steps, the second checked | | **violated**: see the second finding |
| `wakeup` | 2 slots, 1 row, 1 broken connection, fair | 298,656 | no wakeup is lost, every due row is claimed, loops and listener end |
| `permits` | 2 attempts, a permit costs 2 ticks, the bucket holds 3, clock 0 to 1 and set back once, fair | 242,564 | tokens are earned, permits go to owners, every wait ends |
| `command` | 2 runs, 2 cases, scores 0 and 100, 1 manual retry | 1.93 million | reports, exports, comparisons and the exit code are true, at most one run is created |
| `records` | three parts that share no state. Datasets: 2 keys, 2 case names, 2 values, 3 loaders, 1 client. Selections: 1 job, 2 workers, 2 Gemini models, 1 redeployment. Times: backoff 2 to 7 ms, 4 attempts, clock 0 to 10 ms in half milliseconds | 1.55 million | answers about datasets are true of what is stored, runs keep their cases; one selection per job, the one its run names; the mock is judged by its rules; waits add up, retries are held back as they should be |
| `dashboards` | 2 runs, 2 jobs, 2 changes of each, 2 filters, 1 fetch left over at a time | 1.76 million | polls are awaited one by one and go on, only the chosen is shown, in order |
| `overlapping_polls` | 3 runs, 1 job, as `dashboards` otherwise | | **violated**: see the third finding |

*Why the bounds are enough.* Locks, leases and claims are per row, and no transaction touches two rows,
so the contention of one row is explored with one job; three sessions let one hold the lock while two
wait with different operations. One worker is the harder case for ownership: with two, `locked_by` alone
would often tell claims apart; with one only the token does. Two attempts with one manual retry give four
claims, stale leases of earlier budgets included. Batches and claim order need several rows but no contention
beyond one locked row: with a batch of one and two rows, the second lapsed lease needs a second scan. A stale
attempt and a newer one on the same job need two slots; what one attempt does against its heartbeat and the
shutdown needs one. Two pipeline steps have one that ends without a check, three have it between two that are
checked; the real pipeline repeats that pattern.

A lost wakeup needs one loop and one row; two loops also take the row from each other, and one broken
connection lets the row be queued before, between and after two subscriptions. Two attempts are enough
to spend a token twice or to refill a bucket twice, and one step back of the clock to earn the same time twice:
a bucket of three ticks pays for the second permit only with the tick that the clock earns. The proofs cover the
rest. A report is wrong only about jobs that move between two of its queries: two
cases let one move each way, two runs are what a command compares. A loader that interferes with another one
while a third holds an older file needs three. The wait and the backoff are linear in the clock except for
rounding and the ceiling, which four attempts reach. Workers that disagree are two. A view can go back in time
when two answers about the same thing cross: two changes and two things to choose from. One fetch that is left over
is enough to overlap with the next poll; it holds nothing that is ever shown.

*Symmetry* is used for workers, sessions, slots, cases, runs, jobs, datasets and models that no
property names, in runs without liveness properties. In `records` dataset keys and workers are the same model
values, and so are case names and Gemini models, which never meet. *Deadlock* is not checked where the system comes to an end
or the bounds end it (a process that exited with its jobs settled, a command with an exit code, loaders that are
done, jobs that are finished); everywhere else it is.

*Fairness.* `queue`: a transaction that holds a row or waits for its turn ends, by itself or by the transaction
timeout (`Proceed` includes `Abort`); retry times are reached; the loop of the reaper goes on (weak), and a
scan that could recover something does not fail every time (strong). A scan steps around locked rows, so the
recovery of a lease also needs that rows are not locked in step with the scans (`LocksAreNotInStep`, the
antecedent of that property). No holder of a lease is required to do anything. `settling`: the specification
assumes the two shutdown timers only, so `ShutdownTerminates` holds even if no call is ever answered;
`EveryClaimIsSettled` has `CallsReturn` as its antecedent: awaited calls return, successfully or not, which for
the model call is an assumption about the provider, since the code sets no timeout on it. `wakeup`: timers fire,
queries are answered, locks are released, and a claim that could succeed does not fail every time;
notifications need never arrive. `permits`: the clock ticks (weak), statements are answered (weak), and the two
row locks are not withheld for ever (strong, as others lock the rows again and again). Signals, kills, lost
answers and the success of a call are never required.

*Findings.* `deadline_two_slots`: the `active` map is keyed by job id (`worker.ts:39`). Attempt 1 of a job
loses its lease (or its release commits) while slot 1 still unwinds; slot 2 claims the job again and
registers attempt 2 under the same key; slot 1's `finally` deletes that entry (`worker.ts:361`). If the
shutdown deadline comes now, `abandonAndExit` does not know attempt 2: its heartbeat is not stopped, its claim
is not released, no outcome is recorded, and the process exits with code 0. `README.md:320-321` promises
that unfinished attempts are stopped, drained and released. Nothing is lost for good, because the lease
expires and the reaper recovers the job (`EveryClaimIsSettled` holds). With one slot the promise holds
(`settling`).

`deadline_between_checks`: the same sentence says that unfinished attempts "stop starting further pipeline steps" at
the deadline. An attempt that is writing a trace then (`worker.ts:153`, 164, 175, 186, 238) goes on with the next tool,
the prompt, or the parsing, the validation and the score, since the next check comes with the next trace, the
call of the model or the completion. Nothing of it is kept: what holds, and is proved, is
`DeadlineStopsAtNextCheck`, by which no trace, no call and no completion follows.

`overlapping_polls`: a comment says that the next poll is scheduled "after completion so a slow API cannot accumulate
overlapping polls" (`RunsDashboard.tsx:49`). `Promise.all` fails with its first failure, and `finally` then sets
the timer while the other fetches are still on their way: with one endpoint that fails and another that is slow,
fetches of successive polls accumulate. Nothing wrong is shown (`ViewsNeverGoBack` holds).

## 4. Proofs

The assumptions of every proof are the named ones on the constants, which TLC evaluates in the runs.

### JobStoreProofs

For all finite sets of jobs (numbered in claim order), any workers, sessions and budgets, any batch size and any
bound on manual retries: `TypeOK`, each safety invariant that `contention` checks, that settled claims and
completed jobs never change, and that `JobStore` implements `JobLifecycle`.

None of the invariants is inductive alone: whether a completion keeps the row consistent depends on what the
transaction found under its lock still being true, which depends on the lock being exclusive, and on every
other writer respecting it. The inductive invariant `IInv` is the conjunction of

* `TypeOK`;
* `LockIsExclusive`: two sessions never hold the same row;
* `CheckedTransactionStillOwns`: a session about to write still faces the state it checked;
* `JobInv(j)` for each job: ownership, outcome columns, budget, claims in order, the one accepted completion
  and the accounting of attempts, as one statement about the row and its claims.

The argument has one lemma per action: `ClaimNextJob` and `ReapExpiredJobs` respect locks by `Unlocked`, so they
cannot invalidate a checked transaction; a write by one session cannot because its lock is exclusive; each
write turns a consistent row into a consistent row, the accounting being the only place where arithmetic is
needed. The step properties and the refinement then follow step by step from `IInv`: an open claim is
always the newest one, so settling "the claim of the token" in `JobStore` is settling "the newest attempt" in
`JobLifecycle`.

The module also covers `ReaperProcess`: every step of the table next to the reaper process is a step of
`JobStore` or leaves the table alone, so `ReaperSpec` implements the `Spec` of `JobStore` and inherits all of the
above; `TypeOK` and `RowsAreConsistent` are stated for it.

### WorkerProofs

`TypeOK`, `OutcomeIsTruthful`, `ReleaseRunsAlone` and `DeadlineStopsAtNextCheck`, for any number of slots, jobs,
attempts and pipeline steps, whichever of them are checked as long as the last one is. `OutcomeIsTruthful` relates what an attempt records to what the database did to its
claim, maybe long before, and is far from inductive. The invariant `IInv` adds

* `JobInv(j)`: a lease is on an open claim of its job, and names its holder;
* `SlotInv(s)`, `CompletionKnown(s)`: an answer on its way, or recorded, is what happened to the claim, and an
  accepted completion is recorded, on its way, or was hidden by an error;
* `CleanupInv(s)`: when the release of the shutdown may be under way, and what it will answer;
* `ClaimsAreDistinct`: no two slots hold the same claim;
* `ActiveInv`: what is registered for a job is an attempt on it.

The first lemmas say what each kind of change of the table (a lease, a claim, an end) leaves true for an attempt
that takes no part in it (`SeenBy`): its claim is as it was, or was open and did not get completed. `Bystander`
turns that into the invariant of such an attempt, and `OneMoves` combines it with the slot that acts; then there
is one lemma per action. A completion is no such change for its own slot only, which is where `ClaimsAreDistinct`
is needed, or, from elsewhere, for a claim that no slot of this process holds.

`DeadlineStopsAtNextCheck` is inductive with little more (`DeadlineInv`): a step that is not stopped leaves the
checks behind an attempt as they were at the deadline, or adds an unchecked step to them (`StaysOnCourse`).

`DeadlineReleasesEveryAttempt` is false with two slots (the finding) and a theorem with one, `Slots = {x}`: then the
attempt of the slot stays registered until it unwinds, so whatever runs at the deadline gets a release of its own
(`OneSlotInv`). The finding is thus exactly about `WORKER_CONCURRENCY` above 1.

### QueueWakeupProofs

`TypeOK` and `NoWakeupLost` for any slots, rows and number of broken connections. A slot goes
to sleep on an answer it got earlier, so the invariant (`SleepersMissNothing`) also covers a slot that was told
"empty" and whose version is still current: an announcement that arrives in between makes the version a past one,
because versions never exceed the generation (`VersionsArePast`).

### ProviderPermitProofs

`TokensAreEarned`, `CallsStayWithinRate`, `ChargedAttemptHasItsJob`, the type invariant and `NoCallOnceTold`, for
any number of attempts, any capacity and any number of steps back of the clock. The invariant says what the row
amounts to (`BucketOK`: what was spent and what is left is covered by what was earned since the bucket was
opened), what each attempt may be doing (`AttemptsOK`, at most one of them past the bucket's lock), and that what
an attempt read under that lock is still in the row when it writes (`SeenIsCurrent`): this is where a second
refill for the same time would show. That permits are paid for (`EveryPermitIsPaid`) comes on top.

### CliRunProofs

For any runs, scores and manual retries and any finite set of cases: each invariant that `command` checks.

* `GateIsRight` and its two halves rest on lemmas about the comparison of any two documents: exit code 0 exactly
  when nothing that passed fails now, and the four counts account for every case.
* `ReportsAddUp`, `ExportsStayTrue` and `ComparisonIsSettled` are about answers put together from several
  queries, or kept by the client, while jobs move. What they have in common is that jobs only go forward: a right job
  stays right for good, any finished one until somebody retries one (`Progress`, proved for every step).
  `ServerInv` says of each answer what follows from that for the parts read so far: what an exported document
  says (`ExportInv`), what each side of a comparison says of the cases that were finished when it was read
  (`ComparisonInv`), and, once all jobs of a reported run are finished, that every count read so far counts
  the same set of jobs (`ReportInv`). Counts are cardinalities of finite sets, so that a run's
  statuses add up is a lemma (`StatusesDivideTheCases`).
* `VerdictIsTrue` is about the exit code, long after the document it was computed from was read. While the command
  compares, what it holds is a true export of its run (`VerdictInv`, on top of `ServerInv`).
* `OneRunAtMost`: a command sends at most one request to create a run, which is served at most once, and nothing
  else creates one (`OneRunInv`).

### RunContentProofs

What runs are made of, for any number of loaders, clients, jobs, workers and models.

* `DatasetLoad`: `AnswersAreTrue` and `RunsKeepMeaning`. The invariant adds to the types what a loader and a client
  know at each step (`LoaderInv`, `ClientInv`): a dataset once read stays as it was read, because no action
  changes the cases of a key that has a row.
* `SavedSelection`: `OneSelectionPerJob` and `RunsAreWhatTheySay`, which say that all calls for a job are
  to one model, and to the one its run names. `SelectionInv` is what carries them over redeployments, retries and
  workers with different defaults: the selection saved with a job is that of its run, and every attempt, also one
  that has lost its lease, and every call made agrees with it.
* `CaseEvaluation`: `MockIsJudgedByItsRules`. The evaluator and the mock each have a copy of the rules of risk; the
  theorem says that the copies agree for any snapshot. It is stated for the selection and the evaluation together,
  since the selection decides which calls go to the mock.

### JobTimingProofs

`WaitAddsUp` and `RunAfterIsRight` for any backoff, number of attempts and length of time, also when the clock
is set back, from what each column was written from (`Columns`, `QueuedInThePast`, `ClaimedAfter`).

### DashboardProofs

All four properties of `dashboards`, for any sets of runs, jobs and filters and any number of changes of each.
The first part is about one polled view, with any keys, any data and any order on the data (`Sound`): the one
poll that counts is for what is chosen, it excludes a pending timer, and what it brings lies in the order between
what is shown and what the server has by now. Each operation of `PolledView` keeps that, whatever aborted
requests still bring and however many fetches a failed poll leaves over; and each says whether the view is `Busy`
afterwards, so that a view in use is never without a poll and without a timer. The list, the run and the comparison are then three such views, each with its key,
data and order (`RunKeys`, `RunData`, `Order`), and one lemma (`PageStep`) takes any set of parts through every step
of the dashboard. `JobPageInv` is its counterpart for the dashboard of jobs, where a load that counts is of the job the
effects last ran for, and what it brings is no older than the details of an earlier load (`LoadFits`), unless the answer to a retry, which carries no traces of its
own, came in between (`Merged`). `Inv` joins them for whatever is mounted.

### Only model-checked

Every safety property that a passing run checks is a theorem, with one restriction: `DeadlineReleasesEveryAttempt`
is one for a single slot and false otherwise. Liveness (`EveryQueuedJobIsClaimed`,
`ExpiredLeaseIsRecovered`, `ReaperEnds`, `EveryClaimIsSettled`, `ShutdownTerminates`, `EveryDueJobIsClaimed`,
`ShutdownDrains`, `EveryWaitEnds`) depends on fairness and thereby on `ENABLED`, which is outside of what the prover
handles, and stays with TLC.

## 5. Not modelled, and why

* *Generated code.* About 14,600 of the 19,900 lines of the implementation are the Prisma client in
  `generated/`, a product of the schema; the schema itself is what the models describe. It has no behaviour
  of this program.
* *Read-only queries and trace rows.* `getJobCounts`, `getMetrics`, `addTrace` (whose foreign-key lock is `LockRow` of
  `QueueWakeup`) and trace context columns. Nothing else reads what they write.
* *The call to Gemini*, prompts, token counts and costs, and the contents of the analytics tools: a step succeeds or
  fails, and an answer is any text.
* *Parsing and rendering.* Command-line arguments, request validation, Markdown, list limits (50 runs, 100 jobs), and
  the mode of the command that only exports a baseline, which is one request and a file.
* *Presentation, measurement and deployment.* Metrics, spans, health checks, benchmarks, scripts. The bounded
  shutdown of the API drains requests that have no effect beyond their own transaction.
* *A dataset loaded twice at the same time* makes one command fail on the unique key: the model has this failure
  (`LoaderFails`), the user sees it as an error and may run the command again.
* The database is taken to do what its documentation says of row locks, `SKIP LOCKED`, rollback, `jsonb` and
  `LISTEN`/`NOTIFY`.

## 6. Plan

Done, in this order: `JobLifecycle`, `JobStore`, `Worker`, `QueueWakeup`; then `ProviderPermit`, `CaseComparison`,
`RunReport`, `CliRun`, `DatasetLoad`, `JobTiming`, `SavedSelection`, `CaseEvaluation`, `ReaperProcess` and the
dashboards, with the proofs above. What would come next:

1. `Worker` as a refinement of the holder of a lease in `JobStore`, so that its table is no longer a module of its own.
2. The permit wait inside of the pipeline of `Worker`: `ProviderPermit` checks it with `Tell` in the place of the
   shutdown and the heartbeat.
