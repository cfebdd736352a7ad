# Verification of go-queue-sqlite

TLA+ models of the job queue in `src/`, TLC configurations that check them on
small instances, and theorems that TLAPS checks for every instance. Line
numbers refer to the sources in `src/`. `PROJECT.json` maps every definition
to the lines it models, and lists hazards, findings and the mutant of the code
that each property detects.

    tlc -workers 2 -config dispatch_lifecycle.cfg WsDispatchMC
    tlapm WsDispatch_proofs.tla          (and each other *_proofs.tla)

## 1. The system

One Go process, one SQLite database opened with a single connection, a set of
goroutines. Clients submit jobs over HTTP. Jobs are executed by remote workers
connected over WebSocket, or by goroutines of a dynamic pool inside the process.

| Component | Source | State | Operations |
| --- | --- | --- | --- |
| Job table | `main.go` 330-690 | rows of `jobs` and `failed_jobs` | insert, reserve, finish, retry, dead-letter, cancel |
| Write path | `main.go` 40-330 | three channels, two pending slices, one open transaction | insert coalescer, done coalescer, DB arbiter |
| WebSocket dispatch | `main.go` 700-1260 | the hub (ring of workers, `idle`, `currentJob`), per connection a send, a result and a kick channel | one dispatcher goroutine per queue, one handler and one read goroutine per connection |
| Stale job reaper, timeouts | `main.go` 577-622, 1507-1577 | three settings | puts back jobs whose lease is too old; limits executions |
| Start of dispatchers | `main.go` 855-890, 1025-1064 | a map of its own | starts a dispatcher for each queue that has none |
| Shutdown | `main.go` 624, 2238-2267 | `workerWg`, `stopGoWorker` | waits for pool goroutines |
| Heartbeats, kick | `p2.go` 165-280 | last time each worker was seen | unregister silent workers, disconnect one |
| Rate limiter | `p2.go` 20-160 | a window of time stamps per job type | allow or refuse a reserved job |
| Chains and batches | `p2.go` 340-740 | `next_job`, `batch_id`, `job_batches` | dispatch what follows a finished job |
| Dynamic pools | `autoscale.go` | one pool per queue: limits, worker count, semaphore | spawn, execute, adjust |
| Cron | `p3.go` 127-772 | `cron_jobs`, `cron_run_logs` | scan, fire; create, replace, patch, delete, trigger |
| Queue pausing | `p3.go` 20-72 | a set of queues | pause, resume |
| Dead-letter administration, reset | `main.go` 1880-1927, `backend.go` 130-164 | the tables | requeue, clear, reset |
| VACUUM, WAL checkpoints | `main.go` 1300-1505 | one flag, statistics | periodic and manual runs |
| Cache, event stream | `cache.go`, `main.go` 1932-2001 | entries, subscribers | read, write, expire, broadcast |
| Dashboard sessions | `auth.go` | tokens with an expiry | log in, log out, admit a request, expire |
| Go worker | `examples/goworker/main.go` | one connection at a time, a semaphore | dial, read jobs, execute, answer, ping; a process of its own |
| WebSocket framing | `ws.go` | none: a frame is one `Write` to the connection, without a lock | read and write frames |
| Tags, lists, statistics, pages | `p4.go`, `dir.go`, `frontend.go`, ... | none of their own | queries and HTML |

### How they interact

* Every write goes through the DB arbiter, one at a time. Inserts and
  successes reach it in batches cut by the coalescers; all other statements
  are sent to it directly and may overtake a success that waits in a batch.
* A dispatcher counts the idle workers of its queue under `hub.mu`, reserves
  that many jobs in one transaction, asks the rate limiter about each, and
  gives each to a worker through the hub (round robin, `rrIdx`) or puts it
  back. Between these steps it holds no lock.
* A handler goroutine writes a job to its connection, waits for the result, a
  timeout, a kick or the end of the connection, and then frees the worker
  before it deals with the result. The read goroutine offers results to a
  channel of capacity one and drops what does not fit.
* Pool goroutines reserve one job each and run the follow-up of a success
  (chain, then batch). WebSocket handlers call `markDone`, which has none.
* The cron scheduler works through a copy of the due rows, statement by
  statement, while HTTP handlers change the table. Its only link to earlier
  jobs is the tag it writes to them in a statement of its own.
* At start, `initDB` puts all running jobs back.
* On a signal, `main` closes `stopGoWorker`, which ends the dispatchers'
  scan, the reapers, the cron scheduler, the pool goroutines and the coalescers,
  and waits for the pool goroutines only.

### What is hard about it

Dispatcher, handler, read goroutine, reapers and administrators meet at the
same job and the same worker record, under three kinds of mutual exclusion
(`hub.mu`, the arbiter, channels), never more than one at a time. State read under one is
used under another: idle counts, `currentJob`, the attempts of a loaded job,
copies of cron rows, counts of a batch. A success is durable only after a
coalescer, a channel and a commit. Submitting a job with a chain, tags or a
batch takes several statements, during which the job is already executed. A
crash may fall between any two of them.

### What makes each component correct

* Job table: every status change is one that the job's life allows; a final status is
  final; a job is dead-lettered only when its attempts are used up, and exactly once.
* Dispatch: a job is with at most one connection, and then it is running; a
  worker believed idle is free; a result is awaited by the handler it is for; a
  success that was received is not undone; no job and no worker is forgotten.
* Write path: every request is answered with its own row; one row per
  `dedup_key`; reported successes reach the table.
* Chains, batches: callbacks and chained jobs once each, at the right time,
  and not never.
* Cron: runs agree with `run_count`, limits hold, no overlap, no due or
  expired cron is left behind.
* Timeouts: an executor that is within its time keeps its job.
* Shutdown: one that ends by itself leaves no job half done.
* Go worker: each job gets its one answer, on its own connection.

## 2. Modules

    JobTable <--- WsDispatch <--- WsDispatchRefinement <--- WsDispatchMC
       ^              ^   ^             |
       |              |   |         JobLifecycle (abstract)
    Completion        |   +--- WsDispatchHistory <--- WsDispatchHistoryMC
       ^              |
    CompletionMC   WsDispatch_proofs
                                    WriteArbiter <--- WriteArbiterMC
                                    Cron         <--- CronMC

    RateLimiter, EventStream, Pools, Heartbeats,
    Vacuum, CacheStore, TableAdmin, Frames,
    Leases, GoWorker, Sessions, Shutdown         <--- Services <--- ServicesMC
    Leases <--- LeasesMC

**JobTable** has the columns of `jobs` that the queue decides by (status,
attempts, whether the job is due) and one operator for each SQL statement. Job
ids are 1, 2, ... and their order is the `ORDER BY priority DESC, id ASC` of
`reserveBatch`. A statement `WHERE id=?` without a condition on the status is
an operator without that condition; this is what the models are about.

**WsDispatch** is the core. Each action is one atomic section of one goroutine:
one statement of the arbiter, one critical section of `hub.mu`, or one channel
operation. The program counters `dpc` (dispatcher) and `hpc` (handler) name
the places between them.

| Action | Code |
| --- | --- |
| `Wake`, `CountIdle`, `ReserveBatch`, `RefuseByRate`, `HandToWorker`, `NoTaker`, `PutBackUntaken`, `EndBatch` | the loop of `startWsDispatcher`, with `reserveBatch`, `checkRateLimit`, `dispatchToWs` |
| `Connect`, `WriteJob`, `WriteFails`, `SeeKick`, `SeeDone`, `JobTimeout`, `TakeResult`, `ReportSuccess`, `ReadCachedJob`, `LookupJob`, `RetryLater`, `MarkFailed`, `InsertDeadLetter`, `Reschedule`, `Exit` | `handleWorkerWS`, with `handleJobFailure` and `rescheduleCurrentJob` |
| `SendResult`, `Disconnect` | the remote worker and the read goroutine |
| `FlushDone` | the done coalescer's transaction, any prefix of what waits |
| `ReapStale`, `ReapEarly` | the stale job reaper: on a job without a live worker, and on one whose worker is slower than the reaper's limit |
| `KickWorker`, `HeartbeatExpire`, `PauseQueue`, `ResumeQueue`, `Cancel`, `Dispatch`, `BecomeDue`, `CrashRestart` | administrators, heartbeat reaper, clients, time, a crash with `initDB` |

`currentJobID` and `currentJob` are always written together and are one field.
Notification channels are left out: a dispatcher also polls every 10 ms, so
it may wake at any time. Time is left out: a delay may end, a job time out and
a heartbeat lapse at any point. The rate limiter may refuse at any point.

**JobLifecycle** is the abstract specification of the queue's promise about a job, in terms of status
and attempts alone; **WsDispatchRefinement** states that WsDispatch implements
it. **WsDispatchHistory** adds the number of rate-limit refusals of each job.

**WriteArbiter** has the two coalescers, the arbiter and their channels, with
capacities and batch sizes, the answer of each request *before* the commit as
in the code, the handlers that run follow-up statements on the ids they were
given, failing `BEGIN`, statement and `COMMIT`, the shutdown that closes
`stopGoWorker`, and a crash. A behaviour plays one of the `Scenarios`: which requests are
made and which faults may happen.

**Completion** has the submission of a batch and of a chained job, statement by
statement, pool goroutines and WebSocket workers that execute them, and
`checkBatchCompletion` with its separate queries.

**Cron** has one row, the scheduler's local copy of it, the two statements of
`fireCronJob`, the handlers that change the row meanwhile, the jobs the cron has
dispatched, and a crash. The clock counts scan intervals. A schedule is a period, 0 if it
is less than a second, or `NoDate` for an expression that no date matches, or `Invalid` for one that `calcNextRun`
rejects; `NextRun` is what the callers of `calcNextRun` get in each case.

**Services** puts together twelve components that share no state with each
other or with the modules above, apart from what those leave to chance. A
behaviour exercises one of them, named by the variable `under`; the rest stay
in their initial state. Each is a module of its own:

| Module | State | What it models |
| --- | --- | --- |
| **RateLimiter** | `limit`, `window` as a set of numbered times (the code never uses their order), and as history `granted` | `Allow` (`Grant`, `Refuse`), `SetLimit`, `RemoveLimit` for one job type. WsDispatch lets a refusal happen at any time; this is when it does |
| **EventStream** | a counter of changes, owed broadcasts, the fill of each channel, the version each page shows | `subscribe`, `unsubscribe`, `Broadcast`, delivery |
| **Pools** | all pools ever started, which of them `globalPools` has, the backlog | `handleAutoScale` in its steps, `spawnWorker`'s semaphore, `adjust` in two steps |
| **Heartbeats** | hub membership, `seen`, the reaper's local list | `updateHeartbeat`, the scan and, for each silent worker, `unregister` and `removeHeartbeat` |
| **Vacuum** | `running`, `totalRuns`, the vacuumer's `idleCount`, a program counter for each runner | `startIdleVacuumer`, `handleAdminVacuum`, `runVacuum` with failing steps; the unlocked `totalRuns++` is a read and a write |
| **CacheStore** | the expiry of one key's row, what each GET has read | SET, the three steps of GET, DELETE, cleanup |
| **TableAdmin** | `jobs` with ids and timestamps, `failed_jobs`, executors' jobs, requests | the two statements of `handleRetryFailed` and of `handleClearFailed`, `handleDBReset`, beside executors that report |
| **Frames** | frames on the wire, what `ReadMessage` has returned, pongs written; as history the frames sent and how many were read | `ReadMessage`, `WriteMessage`: headers as bytes, payloads as lengths of up to four bytes |
| **Leases** | the three timeouts, one job's row with `updated_at`, what each executor does and until when | `initTimeouts`, reservation, the handler's timer, `processJobInternal`'s context, the reaper's comparison, in seconds |
| **GoWorker** | the loop of `runWorker`, its connection, job goroutines with their connection, the ping ticker | `runWorker`, `handleJob`, `sendResult` and the signal handler of `main`; the server, the network and what the WebSocket library does with two writers are external |
| **Sessions** | expiry of each token, requests with what they found; as history expiries given, logouts | `newSession`, `deleteSession`, `getSession` in its two steps, `requireLogin`, the reaper |
| **Shutdown** | `main`'s place, each pool goroutine's, `workerWg` as the set it counts, the follow-ups in `insertCoalesceCh` | the end of `main`, `spawnWorker` with `markDoneWithChain`, the coalescer's return |

Their assumptions on constants are the definitions `ConstantsOK`, which
`Services` assumes of all of them.
Fairness of Services is stated once for all components: as only one of them moves in a behaviour, the
i-th condition is the one of the moving component's i-th process (`StepOf`).

The module *X*`MC` gives constants of *X* their values for TLC, and *X*`_proofs`
has the theorems about *X*: for WsDispatch, WriteArbiter, Completion, Cron, Leases,
Sessions, Shutdown and Services.

## 3. Runs

| Run | Instance | What it shows |
| --- | --- | --- |
| `dispatch_lifecycle` | 2 jobs of different priority, 2 attempts, 2 connections, one queue; disconnects, heartbeat losses, cancellations, crashes | types, `OneHolder`, refinement of `JobLifecycle`, `SuccessIsFinal` |
| `failure_single` | 1 job, 2 connections; failures, pauses, delays, disconnects, kicks, cancellation, rate-limit refusals | `DeadLetterAgrees`, and again refinement of `JobLifecycle`, now with failures: no job is dead-lettered with attempts left |
| `dispatch_live` | 2 jobs, 2 connections; disconnects, reaping of live jobs; fairness | `NoJobStuckRunning`, `WorkConserving`; `IdleMeansFree`, `ResultIsAwaited` |
| `wrong_job_failed` | 2 jobs, 1 connection | finding: a failure may be charged to the next job |
| `ratelimit_exhausts` | 1 job, 1 connection | finding: a refusal uses up an attempt |
| `arbiter` | 3 requests, two of them with one key; batches and channels of 2; without faults or with failing statements, and 2 requests with failing commits, shutdown, a crash and repetition; fairness | `AnsweredIdIsUsable`, `OneRowPerKey`, `EveryRequestAnswered`, `DoneReachesTable` |
| `completion` | 2 jobs in a batch, 1 with a chain, 2 pool goroutines, 1 WebSocket worker; five sets of conditions; fairness | callbacks and chains at most once and at the right time (`FollowUpsOnce`, `ThenMeansAllDone`), and not never (`FinallyFollows`, `ChainFollows`) |
| `then_too_early` | 2 jobs, 1 goroutine | finding: a batch ends while it is being submitted |
| `callbacks_not_for_ws` | 2 jobs, 1 WebSocket worker | finding: WebSocket workers never end a batch |
| `cron` | 8 rules, 3 intervals, 2 requests, five sets of events; fairness | `RunsAreCounted` (`RunCountAgrees` and `LimitsRespected`), `NoOverlap`, `DueIsHandled`, `ExpiredIsDisabled` |
| `services` | for each component two clients (requests, readers, dashboards, workers, executors); fairness of each | one or two properties of each: `AtMostLimit`; `DashboardCatchesUp`; `BacklogScalesUp`; `SteadyStay`, `SilentAreForgotten`; `StateTellsTruth`; `LiveEntriesStay`; `FailedHasLetter`, `ExecutorsKeepTheirJob`; `FramesAgree`; `LiveLeaseIsKept`; `AnswersAsAsked`, `EveryJobAnswered`; `SessionsEndOnTime`; `BegunAreAwaited` |
| `long_job_reaped` | 1 job, 1 remote worker | finding: the reaper takes a long job from a worker that is in its time |

### Bounds

* Two connections are what a race for a job needs, and two jobs what a race for
  a worker needs: each action touches one connection or one queue, plus the ring, and two entries
  make the round robin wrap. Charging a failure to the wrong job already needs
  only one connection and two jobs.
* `EnvBudget` counts the events that could go on for ever (connections made,
  refusals, early reaps). Two of them let a connection be lost and
  replaced; three let this happen beside a refusal.
* `Limit` is 2 so that a job is retried once and then buried; 1 where only liveness is checked.
* `MaxBatch` 2 for 32 in `reserveBatch` and 50 in the coalescers, `ChanCap` 2 for 4096: with three requests, full
  batches, partial batches and full channels all occur.
* `Scenarios`, `Conditions`, `Events` pick, for each behaviour, the events that
  may happen in it. Combinations that are left out are those whose properties speak
  of neither; each kind of event is in some set.
* A crash may cut the submission of a batch short; the batch then ends, with `then_job`, when
  the jobs submitted so far are done. `ThenMeansAllDone` is about batches whose jobs have all been submitted.
* At most one crash for a behaviour of WriteArbiter, Completion and Cron: each
  crash resets all that is in memory, so a second one finds a state the first one could
  have found, with other table contents. Crashes of WsDispatch are unbounded.
* `MaxTime` 3, a rule of period 3, one of period 0 and one without a date give crons that are never, once, twice
  and always due within the bound; the event `"unscheduled"` lets clients give schedules without a period, which
  `DueIsHandled` excepts; `MaxEdits` 2 lets two requests hit one scan.

* `services`: windows, timeouts and lifetimes are 2 seconds and clocks run for 4 or 5, so that
  things expire, are renewed and expire again (administration needs two
  different seconds only). Channels hold 2 events for 4 changes, so that events
  are dropped. A backlog may be below, at and above `scale_up_at`. Pools are
  asked for with more goroutines than their limit, too. Two jobs with two
  attempts and two administrative requests let a job fail, be re-queued or
  cleared, and fail again. Frame lengths 125, 126 and 65536 have the three forms
  of a header; two frames and one cut-off frame follow each other. Timeouts are
  in the proportions of the code (300, 300, 60 seconds), settings raise each of
  them or leave it, the job's own is none, shorter or longer than all, and the
  clock runs until each has passed. Two leases let a job be put back and taken
  again with its first executor still at work. The Go worker has two jobs, two
  connections and one place in its semaphore, so that a job of the first
  connection blocks the second. Two jobs, one with a follow-up, and two
  goroutines let a shutdown meet one that executes and one that has reserved.

### Fairness

Weak fairness of goroutines that can run: dispatchers (they poll), handlers
(their job timer fires), coalescers and arbiter (they loop over channels), pool
goroutines (executions end by their timeout), the reaper and the cron scheduler
(tickers), and of time. In `services`, of the handlers and goroutines that have
begun something, the tickers of pools and reaper, and the browsers that stay
subscribed; of the Go worker's loop, handlers (they have a timeout) and writes;
`SteadyStay` is about workers that beat in time by definition. Nothing is
assumed of clients, administrators, remote workers or the network: a worker may
hang for ever, and `NoJobStuckRunning` holds by the timer and the reaper alone.
No strong fairness is used.

## 4. Theorems

Every invariant and every safety property that a passing run checks is also a theorem.
None of them is inductive. Each rests on an inductive invariant, described here, and on lemmas that each
action, or each group of actions, preserves it. For the components of Services there is one each; for
each other module it is `IInv`, the conjunction of `TypeOK` with what is described, and what extends it.
The theorems hold for every value of the
constants that satisfies the assumptions. These are the `ASSUME`s of the modules (ids are positive numbers,
sets are finite, functions have their domains), or `ConstantsOK` for the components
of Services, which `Leases`, `Sessions` and `Shutdown` have as a hypothesis of the theorem.

| Module | Theorem | What holds | For every |
| --- | --- | --- | --- |
| `WsDispatch_proofs` | `TypeCorrect`, `IdleFree`, `ResultAwaited` | `[]TypeOK`, `[]IdleMeansFree`, `[]ResultIsAwaited` | number of jobs, queues, connections; batch size; environment |
| | `HeldOnce`, `Refines`, `SuccessFinal` | `[]OneHolder`, `ImplementsLifecycle`, `SuccessIsFinal` | as above, without early reaps, in behaviours with `[]FailureChargedToReported` |
| | `DeadLettersAgree` | `[]DeadLetterAgrees` | as for these three, without crashes |
| | `ChargeStays` | `[]ChargeStaysWithWorker` | as for types |
| `WriteArbiter_proofs` | `OneRow`, `AnswersUsable` | `[]OneRowPerKey`, `[]AnsweredIdIsUsable` | set of requests and keys, batch size, channel capacity, scenario |
| `Completion_proofs` | `FollowedOnce`, `ThenAfterAll` | `[]FollowUpsOnce`, `[]ThenMeansAllDone` | number of jobs, goroutines, WebSocket workers; set of conditions |
| `Cron_proofs` | `RunsCounted`, `ExpiredDisabled`, `RunsDoNotOverlap` | `[]RunsAreCounted`, `[]ExpiredIsDisabled`, `NoOverlap` | set of rules, bound on time and on requests; set of events |
| `Leases_proofs` | `LeaseKept` | `[]LiveLeaseIsKept` | value of the timeouts, number of executors, number of reservations |
| `Sessions_proofs` | `SessionsJudged` | `SessionsEndOnTime` | number of tokens and of requests at once, lifetime |
| `Shutdown_proofs` | `NoneLeftHalfDone` | `[]BegunAreAwaited` | number of jobs and of goroutines |
| `Services_proofs` | `LeaseKeptInServices`, `SessionsJudgedInServices`, `NoneLeftHalfDoneInServices` | the last three for `Services!Spec` | as above |
| | `TypesInServices` | `[]TypeOK` of all twelve components | value of the constants |
| | `AtMostLimitInServices` | `AtMostLimit` | set of limits, length of the window |
| | `SteadyStayInServices` | `[]SteadyStay` | set of workers, timeout |
| | `StateTruthInServices` | `[]StateTellsTruth` | number of manual requests |
| | `LiveEntriesStayInServices` | `LiveEntriesStay` | times to live, number of readers |
| | `FailedHasLetterInServices`, `ExecutorsKeepTheirJobInServices` | `[]FailedHasLetter`, `[]ExecutorsKeepTheirJob` | number of jobs, attempts, executors, requests |
| | `AnswersAsAskedInServices` | `[]AnswersAsAsked` | number of jobs, connections, places in the semaphore |
| | `FramesAgreeInServices` | `[]FramesAgree` | set of lengths below 2^32, number of frames |

**WsDispatch.** `dispatchToWs` never finds the channel of an idle worker full and never overwrites a job the
worker has; the read goroutine never drops a result and a handler never takes
one for another job. `IdleMeansFree` breaks without
knowing that a handler that waits for a result has an empty send channel (else
freeing the worker would leave a message in it), and `ResultIsAwaited` without
knowing which handlers may have an executing client at all. `HandlerShape(w)`
says this for one connection: an idle worker has nothing; a waiting handler has taken its message;
a message is the current job; a client that executes or has answered has a
handler that waits or is on its way out, and client, message and current job
agree.

`Placement` is about jobs: each is in at most one place (`Places`: a dispatcher's batch, a connection, a report
on its way to the table, the queue of successes), and a job that is in one is running. Every
statement `WHERE id=?` without a condition on the status is right only because of this, so it is what
`OneHolder`, `SuccessIsFinal` and the refinement of `JobLifecycle` need. It is preserved on three conditions, none of
which can be dropped:

* `"earlyreap" \notin Env`: the stale job reaper's setting covers executions, as the repository's
  README asks. Without it the reaper creates a second holder; this is the finding of `long_job_reaped`.
* `[]FailureChargedToReported`: this is what the finding of `wrong_job_failed` breaks. A failure charged to
  another job puts back a job that a worker is about to be sent. The theorems therefore are about the behaviours in which
  this does not happen. `ChargeStays` bounds the mistake itself, for every environment, early reaps and crashes included:
  the wrong job is always the one in the send channel of the same worker (`ChargeShape`). No run repeats it.
* For the dead letters, `"crash" \notin Env`: the two statements of a burial are not one transaction (`LetterInv`:
  a failed job's row in `failed_jobs` is there or one handler is about to write it).

**WriteArbiter.** The rows of the open transaction have distinct keys, as do those committed (`Distinct`);
the transaction starts as a copy of the table and a commit replaces
the table by it. An `INSERT OR IGNORE` looks into the transaction, so requests with
one key in one batch, in two batches, or sent again after a restart all find the row.
For `AnsweredIdIsUsable`, `UsableInv` adds that the transaction only extends the table, and only in
an insert (`TxShape`), and that an id on its way to a handler, or held by one, is the handler's own row of the
transaction, and its follow-up carries that id (`AnswersShape`). The second part is only claimed where commits do not
fail: the answer is sent before the commit. Crashes are allowed, as they take handlers and
transaction together.

**Completion.** `JobsHeld`: a running job has one worker and a
done job is never reserved again, so only one worker comes to chain it. `OneCaller`: the
worker whose `UPDATE` ended the batch is the only one that goes on to the callbacks, and before it
none is dispatched. For `ThenMeansAllDone`, `TotalLags` says that `batch.total` counts
no more than the jobs linked to the batch, short of those between the two statements
of the submission, and `CountsRight` that of a batch submitted as a whole
a worker has read the right total, and has counted no more jobs as done than are. Without it the
equality of two numbers read at different times would say nothing about the table.

**Cron.** `CopyCounts` relates the scheduler's copy of `run_count` to the jobs dispatched,
by stage; a crash between dispatch and count loses one run, which is where the tolerance in
`RunCountAgrees` comes from. `CopyDecides`: while no request replaces or patches the
rule, the copy decides by the rule in force. `OneTimeOpen`: a one-time cron that is still
enabled has not run. `JobsTagged`: without a crash the only jobs without a tag are
the one the scheduler and the one a handler is dispatching, so that the overlap check misses at most the handler's.
`NoOverlap` is about the decision: a pending job that starts between the COUNT and the dispatch overlaps all the same.

**Leases.** `Held`: while the stale timeout fits, an executor at work has the latest lease,
nobody else is at work, and its limit is within the stale timeout
of the `updated_at` its own reservation wrote. **Sessions.** `VisitRight`: what a request has found may be
out of the store again, but says no more and no less than the store did when it looked.
**Shutdown.** `BegunInHands`: what is left to do for a job that was in execution at the signal is in the hands of a goroutine
which `workerWg` counts; `HandRight` and `Exclusive` say what a goroutine has at each of its places.

**Services.** The last three are about the `Spec` of their component. A step of Services is a step of each of
these components or leaves its variables alone (`StepOfComponents`), so that the theorems
carry over to `Services!Spec`. `LeaseProof`, `LoginProof` and `StopProof` instantiate the modules that have the proofs; two lemmas
for each say that they have the same `Init` and `Next` as `Lease`, `Login` and `Stop`.

The other components move only by themselves, too (`StepOfOthers`, `StepOfTheRest`), and are proved about in place.

* Heartbeats, `SteadyInv`: no scan's list has a worker that beats in time; it has
  been heard of within the timeout at every tick since it connected.
* Cache, `CacheInv`: a GET about to delete has read an expired row.
* Vacuum, `VacInv`: with the runs that have succeeded and are not yet counted (`Uncounted`), `totalRuns`, and each copy of it
  read for an increment, leave room for all increments to come. Without overlap nothing is lost.
* TableAdmin, `AdminInv`: as long as no reset came in between, an executor's id is not above the last one given, so no
  later INSERT gets it.
* GoWorker, `InOnePlace`: what the server has asked over the current connection and not
  been answered is on the wire, before the semaphore or with one goroutine. Jobs
  of earlier connections have goroutines only, which answer there.
* RateLimiter, `RateInv`: the window has every grant that is not too old, however
  limits changed, and only grants.
* Frames, `FrameInv`: what is on the wire is what was sent and not read (`OnTheWire`), then a frame that was cut
  off, and the logs have one entry for each frame read, in order (`Answered`). Headers are taken apart
  for any length of four bytes: `BytesOfLength` says that the bytes make up the length, `NumberOfTwo` and `NumberOfEight`
  unfold the recursive function that puts them together.

Types that need more than themselves have bounds of their own (`VacBounds`, `AdminBounds`, `ClientBounds`,
`WireBounds`).

Only model-checked: liveness under fairness, which is beyond the prover. These are `NoJobStuckRunning`,
`WorkConserving`, `EveryRequestAnswered`, `DoneReachesTable`, `FinallyFollows`, `ChainFollows`, `DueIsHandled`,
and of Services `DashboardCatchesUp`, `BacklogScalesUp`, `SilentAreForgotten` and `EveryJobAnswered`.

## 5. Where code and documentation disagree

The five findings are in `PROJECT.json` with the lines quoted. While modelling
we also met, without a run of their own:

* A paused queue: the flag is read before the dispatch loop (`main.go` 974)
  and not in it, so a busy dispatcher goes on (`README.md` 364 says no job is
  handed out).
* A job the stale job reaper puts back keeps the attempt its lost lease was
  counted as; the comment at `main.go` 1519 says it does not.
* `dedup_key` has a unique index over all rows (`main.go` 370), finished ones
  too; `README.md` 161 and 1215 speak of pending jobs only.
* A batch whose last job fails or is cancelled gets no `catch_job` and no
  `finally_job`, as only a success calls `checkBatchCompletion` (`README.md` 347, 348).
* `next_job` is written after the job is visible (`main.go` 1784): a goroutine that
  is fast enough finds none. `ChainFollows` therefore assumes workers
  that come after the submission.
* The comment at `p3.go` 114 lets pending jobs block a cron
  without overlapping; only running ones do (`p3.go` 684).
* A cron that is not due is fired in the second in which it expires: the SELECT
  takes it (`p3.go` 648) for rows "expired and to be disabled" (`p3.go` 641), but the
  loop disables only when `now > expires_at` (`p3.go` 669).
* A crash between the two statements of a burial (`main.go` 675, 676) leaves a failed job without a dead letter.
* A cron replaced or patched during a scan gets its `next_run_at` overwritten
  with one computed from the copy.
* `every` below a second is accepted and counts as 0 seconds (`p3.go` 257, 260), so the cron runs in every scan; an
  expression that no date matches (30 February) is accepted too and never runs. PATCH
  stores an invalid one as well (`p3.go` 540, 543), where POST and PUT answer 400. The next scan ignores the error of
  `calcNextRun` (`p3.go` 698, 710, 717) and writes the 0 that comes with it, and only rows with
  `next_run_at > 0` are scanned (`p3.go` 648): the cron is enabled but never due again, although
  `README.md` 1686 says that it fires. That is so even if a second PATCH has corrected it during that scan, as the scheduler
  works with its copy. `DueIsHandled` excepts just these.
* The overlap check precedes the dispatch, so a job of the cron that was pending may start in between; likewise a
  job triggered by hand runs untagged, and so unseen, until `fireCronJob`'s second statement (`p3.go` 684-759).
* The reset deletes from `batches` and `job_chains`, which do not exist, and
  ignores the error (`backend.go` 138); `job_batches` and `failed_jobs` keep their rows, although it
  answers that all batches were cleared. Ids start over while executors hold
  old ones, so a late report may finish a new job.
* `vacuumState.totalRuns` is commented as the number of times VACUUM was
  triggered (`main.go` 33); it counts successes.
* Raising `max_workers` of a pool adds goroutines but no places in `sem`
  (`autoscale.go` 74, 225), so no more jobs are executed at once; two first
  requests for one queue start two pools.
* `README.md` 609 announces an event for every change of a job's status; only
  successes and failures are announced (`main.go` 212, 680).
* Shutdown: `main` waits for all running jobs, for a limited time (`main.go` 2246). A
  goroutine that has finished a job with a `next_job`, or the last one of a batch, dispatches what follows
  through the insert coalescer, which the same signal has stopped; it waits for an answer for ever, `main`
  loses patience after `DEFAULT_JOB_TIMEOUT_SEC` + 5 s, and the follow-up is lost, as the job is
  done. HTTP handlers that submit a job in that time hang likewise, and a WebSocket worker's success goes to a done
  coalescer that has returned, so the job is executed again after the restart.
  A job with a longer timeout of its own is cut off too. A goroutine that has reserved a job but not yet called
  `workerWg.Add` (`autoscale.go` 109, 119) is not waited for. `BegunAreAwaited` is what
  holds: if `main` has not lost patience, nothing of this happened to a job in execution.
* A pool grows when `scale_up_at` jobs wait (`autoscale.go` 163), as the dashboard has it (`frontend.go` 1093);
  `README.md` 556 says more than `scale_up_at`. `BacklogScalesUp` is what both promise.
* Workers without a queue: the hub has code for them (`main.go` 869-887, 909), but `handleWorkerWS` puts them on
  `"default"` (`main.go` 1079-1081), so that it never runs.
* The stale job reaper knows no per-job timeout, which is a finding; with `LiveLeaseIsKept` the
  setting that is enough is the longest `timeout_sec` plus the delay between reservation and start.
* The Go worker writes pings and results to a connection without a lock
  (`examples/goworker/main.go` 138, 238), which the library forbids: it may panic or mix up the messages. It looks at `stopCh` only
  between connections, so a signal does not end it while it is connected, and when it does end, running jobs are cut
  off. While the semaphore is full it reads nothing and does not see the connection break.
* `startGoWorker` (`main.go` 1623) is never called.
* A GET of an expired cache entry may delete a fresh one (`cache.go` 174), and an entry in the
  second it expires is served but counted as expired by `cache-stats`
  (`cache.go` 173, 269).

## 6. What is not modelled

* WAL checkpoints, which change nothing the program reads; payloads of frames.
* Time in WsDispatch: rate limits, heartbeats and pauses are left to chance there; the modules of
  Services have their clocks.
* The start of dispatchers: one goroutine, which keeps what it has started in a map of its own; WsDispatch has a dispatcher
  for each queue.
* Queries, statistics, logging, pages: they change no state of the queue. The Python and
  JavaScript workers, which do as the Go worker does or less, and the benchmarks.
* In Shutdown, HTTP handlers and WebSocket handlers: `main` does not wait for what they do to jobs.
* Contents of jobs: payloads, types, tags other than the one cron looks for.
* Statements that fail outside the write path: most of the code ignores the
  error (`//nolint`), and the arbiter fails a statement without touching the table.

## 7. Plan

Done, in this order: JobTable, WsDispatch, JobLifecycle and the refinement,
proofs of the dispatch invariant, WriteArbiter, Completion, Cron, the
components of Services, of which Leases, GoWorker, Sessions and Shutdown came last, the
proofs for WriteArbiter, Completion, Cron, Leases, Sessions and Shutdown, then `Placement` with the refinement,
`UsableInv`, and the proofs for the other components of Services.

Next:

1. RetryPolicy: the back-off of `handleJobFailure` (`main.go` 645-668) as operators: capped,
   growing, index in range.
2. TableAdmin beside WsDispatch: a reset or re-queueing while WebSocket workers
   hold jobs, with the JobTable operators.
3. Fewer abstractions in Completion: failing INSERTs of chained jobs, `catch_job`
   for a batch that is cancelled.

Theorems to prove next: an abstract specification of the write path (a request is answered
with its row, atomically) that WriteArbiter implements where commits succeed, and one
of a batch (jobs, then each callback once) for Completion.
