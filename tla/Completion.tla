----------------------------- MODULE Completion -----------------------------
(***************************************************************************)
(* What follows when a job is finished: chains (next_job) and batches with *)
(* their then, catch and finally callbacks. Jobs are created by HTTP       *)
(* handlers in several statements; goroutines of an autoscale pool reserve *)
(* and execute them and run the follow-up; WebSocket workers finish jobs   *)
(* through markDone, which has no follow-up.                               *)
(***************************************************************************)
EXTENDS JobTable

CONSTANTS
    BatchJobs,   \* the jobs of POST /api/batches, dispatched in the order of ids
    Chained,     \* the jobs POSTed with a next_job
    PoolWorkers, \* goroutines of the autoscale pool
    WsWorkers,   \* WebSocket workers
    Conditions   \* the sets of conditions considered, one of them in each behaviour

ASSUME BatchAssumption ==
    /\ BatchJobs \subseteq Jobs /\ IsFiniteSet(BatchJobs)
    /\ Chained \subseteq Jobs \ BatchJobs
ASSUME WorkersAssumption == PoolWorkers \cap WsWorkers = {}
ASSUME ConditionsAssumption ==
    Conditions \subseteq SUBSET {"early", "ws", "fail", "cancel", "crash"}

Workers == PoolWorkers \cup WsWorkers

VARIABLES
    job,        \* the jobs table
    inBatch,    \* the jobs whose batch_id is set
    hasNext,    \* the jobs whose next_job is set
    batch,      \* the row in job_batches
    submit,     \* how far the HTTP handler of each job is
    wpc,        \* where each worker is
    wjob,       \* worker local: the reserved Job
    wnext,      \* worker local: whether it read a next_job
    count,      \* checkBatchCompletion's locals total, done, failed
    fired,      \* how often each callback job was dispatched
    chained,    \* how often each job's next_job was dispatched
    env         \* what may happen in this behaviour: "early", workers are there
                \* before the jobs are submitted; "ws", there are WebSocket
                \* workers; "fail", "cancel", "crash" (once, then "crashed")

submitVars == <<inBatch, hasNext, submit>>
workerVars == <<wpc, wjob, wnext, count>>
firedVars  == <<fired, chained, env>>
vars == <<job, submitVars, batch, workerVars, firedVars>>

Callbacks == {"then", "catch", "finally"}
BatchEnd  == {"done", "failed"}
NoJob     == [id |-> 0, attempts |-> 0]
NoCount   == [total |-> 0, done |-> 0, failed |-> 0]

Init ==
    /\ job = EmptyTable
    /\ inBatch = {}
    /\ hasNext = {}
    /\ batch = [status |-> "none", total |-> 0]
    /\ submit = [j \in Jobs |-> "new"]
    /\ wpc = [w \in Workers |-> "idle"]
    /\ wjob = [w \in Workers |-> NoJob]
    /\ wnext = [w \in Workers |-> FALSE]
    /\ count = [w \in Workers |-> NoCount]
    /\ fired = [c \in Callbacks |-> 0]
    /\ chained = [j \in Jobs |-> 0]
    /\ env \in Conditions

-----------------------------------------------------------------------------
(* HTTP handlers                                                           *)

(* createBatch *)
CreateBatch ==
    /\ batch.status = "none"
    /\ BatchJobs # {}
    /\ \A j \in BatchJobs : submit[j] = "new"
    /\ batch' = [batch EXCEPT !.status = "pending"]
    /\ UNCHANGED <<job, submitVars, workerVars, firedVars>>

(* handleBatches works through its jobs one at a time. *)
Turn(j) ==
    j \in BatchJobs =>
        /\ batch.status # "none"
        /\ \A k \in BatchJobs : k < j => submit[k] = "closed"

(* dispatchJobRaw: from here on a worker may reserve the job. *)
Dispatch(j) ==
    /\ submit[j] = "new"
    /\ Turn(j)
    /\ job' = InsertJob(job, j, TRUE)
    /\ submit' = [submit EXCEPT ![j] = "inserted"]
    /\ UNCHANGED <<inBatch, hasNext, batch, workerVars, firedVars>>

(* addJobToBatch, first statement *)
LinkJob(j) ==
    /\ j \in BatchJobs
    /\ submit[j] = "inserted"
    /\ inBatch' = inBatch \cup {j}
    /\ submit' = [submit EXCEPT ![j] = "linked"]
    /\ UNCHANGED <<job, hasNext, batch, workerVars, firedVars>>

(* addJobToBatch, second statement *)
CountJob(j) ==
    /\ submit[j] = "linked"
    /\ batch' = [batch EXCEPT !.total = @ + 1]
    /\ submit' = [submit EXCEPT ![j] = "closed"]
    /\ UNCHANGED <<job, inBatch, hasNext, workerVars, firedVars>>

(* handleDispatch writes next_job, if any, after the insert. *)
FinishDispatch(j) ==
    /\ j \notin BatchJobs
    /\ submit[j] = "inserted"
    /\ hasNext' = hasNext \cup (Chained \cap {j})
    /\ submit' = [submit EXCEPT ![j] = "closed"]
    /\ UNCHANGED <<job, inBatch, batch, workerVars, firedVars>>

(* handleCancelJob: the batch is not looked at. *)
Cancel(j) ==
    /\ "cancel" \in env
    /\ job[j].status = "pending"
    /\ job' = CancelIfPending(job, j)
    /\ UNCHANGED <<submitVars, batch, workerVars, firedVars>>

BecomeDue(j) ==
    /\ job[j].status = "pending"
    /\ ~job[j].due
    /\ job' = [job EXCEPT ![j].due = TRUE]
    /\ UNCHANGED <<submitVars, batch, workerVars, firedVars>>

-----------------------------------------------------------------------------
(* Workers                                                                 *)

At(w, pc) == wpc[w] = pc

Goto(w, pc) == wpc' = [wpc EXCEPT ![w] = pc]

WorkersThere == "early" \in env \/ \A j \in Jobs : submit[j] = "closed"

(* reserve, one job at a time *)
Reserve(w) ==
    /\ At(w, "idle")
    /\ w \in PoolWorkers \/ "ws" \in env
    /\ WorkersThere
    /\ \E q \in Queues : \E j \in FirstCandidates(job, q, 1) :
        /\ job' = SetRunning(job, {j})
        /\ wjob' = [wjob EXCEPT ![w] = [id |-> j, attempts |-> job[j].attempts + 1]]
    /\ Goto(w, "execute")
    /\ UNCHANGED <<submitVars, batch, wnext, count, firedVars>>

(* handleJobFailure with attempts to spare. No rate limit is configured.   *)
Retry(w) ==
    /\ "fail" \in env
    /\ At(w, "execute")
    /\ MayRetry(wjob[w].id, wjob[w].attempts)
    /\ job' = PutBackAt(job, wjob[w].id, FALSE)
    /\ Goto(w, "idle")
    /\ UNCHANGED <<submitVars, batch, wjob, wnext, count, firedVars>>

(* handleJobFailure with none: nothing follows, the batch is not looked at.*)
Fail(w) ==
    /\ "fail" \in env
    /\ At(w, "execute")
    /\ ~MayRetry(wjob[w].id, wjob[w].attempts)
    /\ job' = SetFailed(job, wjob[w].id)
    /\ Goto(w, "idle")
    /\ UNCHANGED <<submitVars, batch, wjob, wnext, count, firedVars>>

(* Execution succeeded. A pool goroutine reads next_job before it marks    *)
(* the job done.                                                           *)
Succeed(w) ==
    /\ At(w, "execute")
    /\ wnext' = [wnext EXCEPT ![w] = w \in PoolWorkers /\ wjob[w].id \in hasNext]
    /\ Goto(w, "markdone")
    /\ UNCHANGED <<job, submitVars, batch, wjob, count, firedVars>>

(* Slip: nothing follows. *)
MarkDoneOnly(w) ==
    /\ At(w, "markdone")
    /\ job' = SetDone(job, {wjob[w].id})
    /\ Goto(w, "idle")
    /\ UNCHANGED <<submitVars, batch, wjob, wnext, count, firedVars>>

(* markDoneWithChain's UPDATE, or markDone for a WebSocket worker, after   *)
(* which nothing follows.                                                  *)
MarkDone(w) ==
    /\ At(w, "markdone")
    /\ job' = SetDone(job, {wjob[w].id})
    /\ Goto(w, IF w \in WsWorkers THEN "idle" ELSE IF wnext[w] THEN "chain" ELSE "lookup")
    /\ UNCHANGED <<submitVars, batch, wjob, wnext, count, firedVars>>

(* dispatchChainedJob *)
DispatchChained(w) ==
    /\ At(w, "chain")
    /\ chained' = [chained EXCEPT ![wjob[w].id] = @ + 1]
    /\ Goto(w, "lookup")
    /\ UNCHANGED <<job, submitVars, batch, wjob, wnext, count, fired, env>>

(* checkBatchCompletion: batch_id and three counts, each a query of its own*)
LookupBatch(w) ==
    /\ At(w, "lookup")
    /\ Goto(w, IF wjob[w].id \in inBatch THEN "total" ELSE "idle")
    /\ UNCHANGED <<job, submitVars, batch, wjob, wnext, count, firedVars>>

InBatchWith(S) == Cardinality({j \in inBatch : job[j].status \in S})

CountTotal(w) ==
    /\ At(w, "total")
    /\ count' = [count EXCEPT ![w].total = Cardinality(inBatch)]
    /\ Goto(w, "done")
    /\ UNCHANGED <<job, submitVars, batch, wjob, wnext, firedVars>>

CountDone(w) ==
    /\ At(w, "done")
    /\ count' = [count EXCEPT ![w].done = InBatchWith({"done"})]
    /\ Goto(w, "failed")
    /\ UNCHANGED <<job, submitVars, batch, wjob, wnext, firedVars>>

CountFailed(w) ==
    /\ At(w, "failed")
    /\ count' = [count EXCEPT ![w].failed = InBatchWith({"failed", "cancelled"})]
    /\ Goto(w, "decide")
    /\ UNCHANGED <<job, submitVars, batch, wjob, wnext, firedVars>>

(* Slip: total is taken for the index of the last job. *)
AllFinishedOffByOne(w) == count[w].done + count[w].failed >= count[w].total - 1

AllFinished(w) == count[w].done + count[w].failed >= count[w].total

(* UPDATE ... SET status='running' WHERE status='pending' *)
LeaveRunning(w) ==
    /\ At(w, "decide")
    /\ ~AllFinished(w)
    /\ batch' = [batch EXCEPT !.status = IF @ = "pending" THEN "running" ELSE @]
    /\ Goto(w, "idle")
    /\ UNCHANGED <<job, submitVars, wjob, wnext, count, firedVars>>

(* Slip: nobody looks whether the batch has ended already. *)
EndBatchAgain(w) ==
    /\ At(w, "decide")
    /\ AllFinished(w)
    /\ batch' = [batch EXCEPT !.status = IF count[w].failed > 0 THEN "failed" ELSE "done"]
    /\ Goto(w, "callback")
    /\ UNCHANGED <<job, submitVars, wjob, wnext, count, firedVars>>

(* UPDATE ... WHERE status NOT IN ('done','failed'): only the goroutine    *)
(* whose UPDATE hit the row goes on to the callbacks.                      *)
EndBatch(w) ==
    /\ At(w, "decide")
    /\ AllFinished(w)
    /\ IF batch.status \in BatchEnd
       THEN Goto(w, "idle") /\ UNCHANGED batch
       ELSE /\ batch' = [batch EXCEPT
                            !.status = IF count[w].failed > 0 THEN "failed" ELSE "done"]
            /\ Goto(w, "callback")
    /\ UNCHANGED <<job, submitVars, wjob, wnext, count, firedVars>>

Fire(c) == fired' = [fired EXCEPT ![c] = @ + 1]

(* Slip: then_job is the last callback of a batch that succeeded. *)
ThenOrCatchAndReturn(w) ==
    /\ At(w, "callback")
    /\ Fire(IF count[w].failed > 0 THEN "catch" ELSE "then")
    /\ Goto(w, IF count[w].failed > 0 THEN "finally" ELSE "idle")
    /\ UNCHANGED <<job, submitVars, batch, wjob, wnext, count, chained, env>>

ThenOrCatch(w) ==
    /\ At(w, "callback")
    /\ Fire(IF count[w].failed > 0 THEN "catch" ELSE "then")
    /\ Goto(w, "finally")
    /\ UNCHANGED <<job, submitVars, batch, wjob, wnext, count, chained, env>>

Finally(w) ==
    /\ At(w, "finally")
    /\ Fire("finally")
    /\ Goto(w, "idle")
    /\ UNCHANGED <<job, submitVars, batch, wjob, wnext, count, chained, env>>

(* A crash and the restart after it: handlers and goroutines are gone.     *)
CrashRestart ==
    /\ "crash" \in env
    /\ env' = (env \ {"crash"}) \cup {"crashed"}
    /\ job' = PutBackIfRunning(job, Jobs)
    /\ submit' = [j \in Jobs |-> "closed"]
    /\ wpc' = [w \in Workers |-> "idle"]
    /\ wjob' = [w \in Workers |-> NoJob]
    /\ wnext' = [w \in Workers |-> FALSE]
    /\ count' = [w \in Workers |-> NoCount]
    /\ UNCHANGED <<inBatch, hasNext, batch, fired, chained>>

SubmitStep(j) == Dispatch(j) \/ LinkJob(j) \/ CountJob(j) \/ FinishDispatch(j)

WorkerStep(w) ==
    \/ Reserve(w)     \/ Retry(w)      \/ Fail(w)     \/ Succeed(w)
    \/ MarkDone(w)    \/ DispatchChained(w)
    \/ LookupBatch(w) \/ CountTotal(w) \/ CountDone(w) \/ CountFailed(w)
    \/ LeaveRunning(w) \/ EndBatch(w)  \/ ThenOrCatch(w) \/ Finally(w)

Next ==
    \/ CreateBatch
    \/ \E j \in Jobs : SubmitStep(j) \/ Cancel(j) \/ BecomeDue(j)
    \/ \E w \in Workers : WorkerStep(w)
    \/ CrashRestart

Spec == Init /\ [][Next]_vars

(* Goroutines run, and every execution ends: the pool bounds it by the     *)
(* job's timeout.                                                          *)
FairSpec ==
    /\ Spec
    /\ WF_vars(CreateBatch)
    /\ \A j \in Jobs : WF_vars(SubmitStep(j)) /\ WF_vars(BecomeDue(j))
    /\ \A w \in Workers : WF_vars(WorkerStep(w))

-----------------------------------------------------------------------------
(* Properties                                                              *)

(* Every variable has the type its Go or SQL counterpart has; the batch    *)
(* never counts more jobs than were linked to it.                          *)
TypeOK ==
    /\ job \in [Jobs -> Row]
    /\ inBatch \subseteq BatchJobs /\ hasNext \subseteq Chained
    /\ batch \in [status : {"none", "pending", "running", "done", "failed"},
                 total  : 0..Cardinality(inBatch)]
    /\ submit \in [Jobs -> {"new", "inserted", "linked", "closed"}]
    /\ wpc \in [Workers -> {"idle", "execute", "markdone", "chain", "lookup", "total",
                            "done", "failed", "decide", "callback", "finally"}]
    /\ wjob \in [Workers -> [id : Jobs \cup {0}, attempts : Nat]]
    /\ wnext \in [Workers -> BOOLEAN]
    /\ count \in [Workers -> [total : Nat, done : Nat, failed : Nat]]
    /\ fired \in [Callbacks -> Nat] /\ chained \in [Jobs -> Nat]
    /\ env \subseteq {"early", "ws", "fail", "cancel", "crash", "crashed"}

(* However many goroutines find the batch finished, each callback is       *)
(* dispatched at most once and then and catch exclude each other.          *)
CallbacksOnce ==
    /\ \A c \in Callbacks : fired[c] <= 1
    /\ fired["then"] + fired["catch"] <= 1

(* then_job is dispatched only when every job of the batch is done. It     *)
(* takes a batch that is submitted before its jobs are executed, and all   *)
(* of it: a crash may cut the submission short.                            *)
ThenMeansAllDone ==
    "early" \notin env /\ BatchJobs \subseteq inBatch /\ fired["then"] > 0 =>
        \A j \in BatchJobs : job[j].status = "done"

BatchFinished == \A j \in BatchJobs : job[j].status \in {"done", "failed", "cancelled"}

(* Once all jobs of the batch have finished, finally_job is dispatched. It *)
(* takes pool goroutines only and jobs that all succeed.                   *)
FinallyFollows ==
    env = {} /\ batch.status # "none" /\ BatchFinished ~> fired["finally"] > 0

(* A chained job is dispatched at most once, even if its predecessor was   *)
(* executed again after a crash.                                           *)
ChainOnce == \A j \in Jobs : chained[j] <= 1

(* What follows a job or a batch follows once; the variables keep their    *)
(* types.                                                                  *)
FollowUpsOnce == TypeOK /\ CallbacksOnce /\ ChainOnce

(* When a job is done its next_job is dispatched. It takes pool goroutines *)
(* only, and workers that come after the submission.                       *)
ChainFollows ==
    \A j \in Chained : env \cap {"early", "ws", "crash", "crashed"} = {} /\ job[j].status = "done" ~> chained[j] > 0

(* The same as the documentation has them, without their conditions.       *)
ThenAlwaysMeansAllDone ==
    fired["then"] > 0 => \A j \in BatchJobs : job[j].status = "done"

FinallyAlwaysFollows == batch.status # "none" /\ BatchFinished ~> fired["finally"] > 0
=============================================================================
