----------------------------- MODULE WsDispatch -----------------------------
(***************************************************************************)
(* Dispatch of jobs to WebSocket workers: the jobs table, the worker hub,  *)
(* one dispatcher goroutine per queue, one handler goroutine per           *)
(* connection, the remote worker behind it, the done coalescer, the stale  *)
(* job reaper, the admin operations that interfere (cancel, pause, kick,   *)
(* heartbeat unregistration) and a crash with the restart that follows.    *)
(*                                                                         *)
(* Each action is one atomic section of one goroutine: a statement of the  *)
(* DB arbiter, a critical section of hub.mu, or one channel operation.     *)
(* Dispatchers also wake by a 10 ms poll, so a wake-up is always possible  *)
(* and the notification channels carry no information the model needs.     *)
(***************************************************************************)
EXTENDS JobTable, SequencesExt

CONSTANTS
    Workers,        \* worker connections (one WsWorker each, reused when closed)
    WorkerQueue,    \* the queue each connection asks for
    MaxBatch,       \* reserveBatch's upper bound, 32 in the code
    Env,            \* what may happen to the system in this instance, see below
    EnvBudget       \* bound: connections, rate-limit refusals and early reaps

EnvEvents == {"fail", "disconnect", "kick", "heartbeat", "ratelimit", "delay",
              "cancel", "pause", "crash", "earlyreap"}

ASSUME WorkersAssumption     == IsFiniteSet(Workers)
ASSUME WorkerQueueAssumption == WorkerQueue \in [Workers -> Queues]
ASSUME MaxBatchAssumption    == MaxBatch \in Nat \ {0}
ASSUME EnvAssumption         == Env \subseteq EnvEvents
ASSUME BudgetAssumption      == EnvBudget \in Nat

VARIABLES
    job,        \* the jobs table
    dlq,        \* failed_jobs: how many rows each job has there
    rrKeys,     \* hub.rrKeys; hub.workers holds the same ids
    rrIdx,      \* hub.rrIdx, counted from 0 as in the code
    worker,     \* the WsWorker of each connection
    client,     \* the job the remote worker is executing, 0 if none
    hpc,        \* where each handler goroutine is
    hresult,    \* handler local: the result message being processed
    hjob,       \* handler local: the Job handed to handleJobFailure
    dpc,        \* where each dispatcher goroutine is
    idleCount,  \* dispatcher local: idle workers counted before reserving
    batch,      \* dispatcher local: reserved jobs not handed out yet
    dispatched, \* dispatcher local: whether this batch reached a worker
    doneCh,     \* ids on their way through the done coalescer
    paused,     \* queuePauseState
    spent       \* how much of EnvBudget is used

hubVars     == <<rrKeys, rrIdx>>
handlerVars == <<hpc, hresult, hjob>>
dispVars    == <<dpc, idleCount, batch, dispatched>>
vars == <<job, dlq, hubVars, worker, client, handlerVars, dispVars, doneCh,
          paused, spent>>

-----------------------------------------------------------------------------
JobId == Jobs \cup {0}

(* A *Job as goroutines pass it around: its id and the attempts it was     *)
(* loaded with. Nil is the nil pointer (and currentJobID = 0).             *)
JobRef == [id : JobId, attempts : Nat]
Nil    == [id |-> 0, attempts |-> 0]

Result   == [job : JobId, ok : BOOLEAN]
NoResult == [job |-> 0, ok |-> FALSE]

(* The fields of WsWorker that matter. currentJobID and currentJob are     *)
(* always written together and are one field here; send and result are     *)
(* channels of capacity 1, done is closed or not, kick full or not.        *)
WsWorker == [idle : BOOLEAN, currentJob : JobRef, send : JobId,
             result : Result, kick : BOOLEAN, done : BOOLEAN]

FreshWorker == [idle |-> TRUE, currentJob |-> Nil, send |-> 0,
                result |-> NoResult, kick |-> FALSE, done |-> FALSE]

Registered == Range(rrKeys)

HandlerPc == {"off", "outer", "inner", "report", "lookup", "failing", "bury",
              "resched", "exit"}
DispatcherPc == {"wake", "count", "reserve", "hand", "putback"}

Init ==
    /\ job = EmptyTable
    /\ dlq = [j \in Jobs |-> 0]
    /\ rrKeys = <<>>
    /\ rrIdx = 0
    /\ worker = [w \in Workers |-> FreshWorker]
    /\ client = [w \in Workers |-> 0]
    /\ hpc = [w \in Workers |-> "off"]
    /\ hresult = [w \in Workers |-> NoResult]
    /\ hjob = [w \in Workers |-> Nil]
    /\ dpc = [q \in Queues |-> "wake"]
    /\ idleCount = [q \in Queues |-> 0]
    /\ batch = [q \in Queues |-> {}]
    /\ dispatched = [q \in Queues |-> FALSE]
    /\ doneCh = <<>>
    /\ paused = {}
    /\ spent = 0

-----------------------------------------------------------------------------
(* HTTP API                                                                *)

(* handleDispatch: the row is inserted, with a delay or without. *)
Dispatch(j) ==
    /\ job[j].status = "absent"
    /\ \E due \in {TRUE, "delay" \notin Env} : job' = InsertJob(job, j, due)
    /\ UNCHANGED <<dlq, hubVars, worker, client, handlerVars, dispVars, doneCh,
                   paused, spent>>

(* The clock reaches available_at. *)
BecomeDue(j) ==
    /\ job[j].status = "pending"
    /\ ~job[j].due
    /\ job' = [job EXCEPT ![j].due = TRUE]
    /\ UNCHANGED <<dlq, hubVars, worker, client, handlerVars, dispVars, doneCh,
                   paused, spent>>

(* Slip: the UPDATE lost its AND status='pending'. *)
CancelAnyStatus(j) ==
    /\ "cancel" \in Env
    /\ job[j].status # "absent"
    /\ job' = [job EXCEPT ![j].status = "cancelled"]
    /\ UNCHANGED <<dlq, hubVars, worker, client, handlerVars, dispVars, doneCh,
                   paused, spent>>

(* handleCancelJob: only a pending row is touched. *)
Cancel(j) ==
    /\ "cancel" \in Env
    /\ job[j].status = "pending"
    /\ job' = CancelIfPending(job, j)
    /\ UNCHANGED <<dlq, hubVars, worker, client, handlerVars, dispVars, doneCh,
                   paused, spent>>

PauseQueue(q) ==
    /\ "pause" \in Env
    /\ q \notin paused
    /\ paused' = paused \cup {q}
    /\ UNCHANGED <<job, dlq, hubVars, worker, client, handlerVars, dispVars,
                   doneCh, spent>>

ResumeQueue(q) ==
    /\ q \in paused
    /\ paused' = paused \ {q}
    /\ UNCHANGED <<job, dlq, hubVars, worker, client, handlerVars, dispVars,
                   doneCh, spent>>

(* kickWorker: a non-blocking send on the kick channel of a known worker. *)
KickWorker(w) ==
    /\ "kick" \in Env
    /\ w \in Registered
    /\ ~worker[w].kick
    /\ worker' = [worker EXCEPT ![w].kick = TRUE]
    /\ UNCHANGED <<job, dlq, hubVars, client, handlerVars, dispVars, doneCh,
                   paused, spent>>

-----------------------------------------------------------------------------
(* The hub                                                                 *)

(* hub.register, the handler's first steps: a fresh worker joins the ring. *)
Connect(w) ==
    /\ hpc[w] = "off"
    /\ spent < EnvBudget
    /\ spent' = spent + 1
    /\ worker' = [worker EXCEPT ![w] = FreshWorker]
    /\ rrKeys' = Append(rrKeys, w)
    /\ hpc' = [hpc EXCEPT ![w] = "outer"]
    /\ UNCHANGED <<job, dlq, rrIdx, client, hresult, hjob, dispVars, doneCh,
                   paused>>

(* Slip: rrIdx follows the ids that move down, even from the first place. *)
RemoveFromRingShifting(w) ==
    IF w \in Registered
    THEN \E i \in DOMAIN rrKeys :
            /\ rrKeys[i] = w
            /\ rrKeys' = RemoveAt(rrKeys, i)
            /\ rrIdx' = rrIdx - 1
    ELSE UNCHANGED hubVars

(* hub.unregister: drop the id from the ring; rrIdx is reset only when it  *)
(* points past the end. A second unregister of the same id changes nothing.*)
RemoveFromRing(w) ==
    IF w \in Registered
    THEN \E i \in DOMAIN rrKeys :
            /\ rrKeys[i] = w
            /\ rrKeys' = RemoveAt(rrKeys, i)
            /\ rrIdx' = IF rrIdx >= Len(rrKeys) - 1 THEN 0 ELSE rrIdx
    ELSE UNCHANGED hubVars

(* startHeartbeatReaper: a worker that once sent a heartbeat and stopped   *)
(* leaves the ring; its connection and its handler are left as they are.   *)
HeartbeatExpire(w) ==
    /\ "heartbeat" \in Env
    /\ w \in Registered
    /\ RemoveFromRing(w)
    /\ UNCHANGED <<job, dlq, worker, client, handlerVars, dispVars, doneCh,
                   paused, spent>>

IdleWorkers(q) ==
    {w \in Registered : WorkerQueue[w] = q /\ worker[w].idle}

(* The worker i places after rrIdx on the ring. *)
RingAt(i) == rrKeys[((rrIdx + i) % Len(rrKeys)) + 1]

Takers(q) ==
    {i \in 0..(Len(rrKeys) - 1) :
        RingAt(i) \in IdleWorkers(q) /\ worker[RingAt(i)].send = 0}

-----------------------------------------------------------------------------
(* startWsDispatcher: one goroutine per queue                              *)

(* The pause check is made here, once per wake-up, and not in the loop. *)
Wake(q) ==
    /\ dpc[q] = "wake"
    /\ q \notin paused
    /\ dpc' = [dpc EXCEPT ![q] = "count"]
    /\ UNCHANGED <<job, dlq, hubVars, worker, client, handlerVars, idleCount,
                   batch, dispatched, doneCh, paused, spent>>

(* Slip: the last idle worker is not counted. *)
CountIdleSparingOne(q) ==
    /\ dpc[q] = "count"
    /\ LET n == Cardinality(IdleWorkers(q))
       IN  /\ idleCount' = [idleCount EXCEPT ![q] = IF n = 0 THEN 0 ELSE n - 1]
           /\ dpc' = [dpc EXCEPT ![q] = IF n <= 1 THEN "wake" ELSE "reserve"]
    /\ UNCHANGED <<job, dlq, hubVars, worker, client, handlerVars, batch,
                   dispatched, doneCh, paused, spent>>

(* hub.idleCountForQueue, then at most MaxBatch of them. *)
CountIdle(q) ==
    /\ dpc[q] = "count"
    /\ LET n == Cardinality(IdleWorkers(q))
       IN  /\ idleCount' = [idleCount EXCEPT
                                ![q] = IF n > MaxBatch THEN MaxBatch ELSE n]
           /\ dpc' = [dpc EXCEPT ![q] = IF n = 0 THEN "wake" ELSE "reserve"]
    /\ UNCHANGED <<job, dlq, hubVars, worker, client, handlerVars, batch,
                   dispatched, doneCh, paused, spent>>

(* reserveBatch: SELECT and UPDATE in one arbiter call; each Job leaves    *)
(* with the attempts it has after the increment.                           *)
ReserveBatch(q) ==
    /\ dpc[q] = "reserve"
    /\ LET S == FirstCandidates(job, q, idleCount[q])
       IN  /\ job' = SetRunning(job, S)
           /\ batch' = [batch EXCEPT ![q] =
                            {[id |-> j, attempts |-> job[j].attempts + 1] : j \in S}]
           /\ dpc' = [dpc EXCEPT ![q] = IF S = {} THEN "wake" ELSE "hand"]
    /\ idleCount' = [idleCount EXCEPT ![q] = 0]
    /\ dispatched' = [dispatched EXCEPT ![q] = FALSE]
    /\ UNCHANGED <<dlq, hubVars, worker, client, handlerVars, doneCh, paused,
                   spent>>

(* The batch is handed out in the order it was selected in. *)
IsNext(q, ref) ==
    ref \in batch[q] /\ \A other \in batch[q] \ {ref} : Before(ref.id, other.id)

(* checkRateLimit refuses the job: back to pending for another minute. *)
RefuseByRate(q) ==
    /\ "ratelimit" \in Env
    /\ spent < EnvBudget
    /\ dpc[q] = "hand"
    /\ \E ref \in batch[q] :
        /\ IsNext(q, ref)
        /\ job' = PutBackAt(job, ref.id, FALSE)
        /\ batch' = [batch EXCEPT ![q] = @ \ {ref}]
    /\ spent' = spent + 1
    /\ UNCHANGED <<dlq, hubVars, worker, client, handlerVars, dpc, idleCount,
                   dispatched, doneCh, paused>>

(* Slip: the worker that got the job is left idle. *)
HandToWorkerStillIdle(q) ==
    /\ dpc[q] = "hand"
    /\ \E ref \in batch[q], i \in Takers(q) :
        /\ IsNext(q, ref)
        /\ \A k \in Takers(q) : i <= k
        /\ worker' = [worker EXCEPT ![RingAt(i)].send = ref.id,
                                    ![RingAt(i)].currentJob = ref]
        /\ rrIdx' = (rrIdx + i + 1) % Len(rrKeys)
        /\ batch' = [batch EXCEPT ![q] = @ \ {ref}]
    /\ dispatched' = [dispatched EXCEPT ![q] = TRUE]
    /\ UNCHANGED <<job, dlq, rrKeys, client, handlerVars, dpc, idleCount,
                   doneCh, paused, spent>>

(* hub.dispatchToWs: the first fitting worker from rrIdx on gets the job. *)
HandToWorker(q) ==
    /\ dpc[q] = "hand"
    /\ \E ref \in batch[q], i \in Takers(q) :
        /\ IsNext(q, ref)
        /\ \A k \in Takers(q) : i <= k
        /\ worker' = [worker EXCEPT ![RingAt(i)].idle = FALSE,
                                    ![RingAt(i)].send = ref.id,
                                    ![RingAt(i)].currentJob = ref]
        /\ rrIdx' = (rrIdx + i + 1) % Len(rrKeys)
        /\ batch' = [batch EXCEPT ![q] = @ \ {ref}]
    /\ dispatched' = [dispatched EXCEPT ![q] = TRUE]
    /\ UNCHANGED <<job, dlq, rrKeys, client, handlerVars, dpc, idleCount,
                   doneCh, paused, spent>>

(* hub.dispatchToWs found nobody: the workers counted have left since. *)
NoTaker(q) ==
    /\ dpc[q] = "hand"
    /\ batch[q] # {}
    /\ Takers(q) = {}
    /\ dpc' = [dpc EXCEPT ![q] = "putback"]
    /\ UNCHANGED <<job, dlq, hubVars, worker, client, handlerVars, idleCount,
                   batch, dispatched, doneCh, paused, spent>>

(* ... so the dispatcher writes the row back, whatever its status is now. *)
PutBackUntaken(q) ==
    /\ dpc[q] = "putback"
    /\ \E ref \in batch[q] :
        /\ IsNext(q, ref)
        /\ job' = PutBack(job, ref.id)
        /\ batch' = [batch EXCEPT ![q] = @ \ {ref}]
    /\ dpc' = [dpc EXCEPT ![q] = "hand"]
    /\ UNCHANGED <<dlq, hubVars, worker, client, handlerVars, idleCount,
                   dispatched, doneCh, paused, spent>>

(* The batch is used up: go round again only if somebody took a job. *)
EndBatch(q) ==
    /\ dpc[q] = "hand"
    /\ batch[q] = {}
    /\ dpc' = [dpc EXCEPT ![q] = IF dispatched[q] THEN "count" ELSE "wake"]
    /\ dispatched' = [dispatched EXCEPT ![q] = FALSE]
    /\ UNCHANGED <<job, dlq, hubVars, worker, client, handlerVars, idleCount,
                   batch, doneCh, paused, spent>>

DispatcherStep(q) ==
    \/ Wake(q)          \/ CountIdle(q) \/ ReserveBatch(q)   \/ RefuseByRate(q)
    \/ HandToWorker(q)  \/ NoTaker(q)   \/ PutBackUntaken(q) \/ EndBatch(q)

-----------------------------------------------------------------------------
(* handleWorkerWS: the handler goroutine of one connection                 *)

(* Outer select takes the job message and writes it to the socket. On a    *)
(* closed socket the write may still appear to succeed.                    *)
WriteJob(w) ==
    /\ hpc[w] = "outer"
    /\ worker[w].send # 0
    /\ worker' = [worker EXCEPT ![w].send = 0]
    /\ client' = [client EXCEPT ![w] =
                    IF worker[w].done THEN @ ELSE worker[w].send]
    /\ hpc' = [hpc EXCEPT ![w] = "inner"]
    /\ UNCHANGED <<job, dlq, hubVars, hresult, hjob, dispVars, doneCh, paused,
                   spent>>

(* ... or the write fails and the handler gives up. *)
WriteFails(w) ==
    /\ "disconnect" \in Env
    /\ hpc[w] = "outer"
    /\ worker[w].send # 0
    /\ worker' = [worker EXCEPT ![w].send = 0]
    /\ hpc' = [hpc EXCEPT ![w] = "resched"]
    /\ UNCHANGED <<job, dlq, hubVars, client, hresult, hjob, dispVars, doneCh,
                   paused, spent>>

(* Either select may receive the kick, whatever else is ready. *)
SeeKick(w) ==
    /\ hpc[w] \in {"outer", "inner"}
    /\ worker[w].kick
    /\ worker' = [worker EXCEPT ![w].kick = FALSE]
    /\ hpc' = [hpc EXCEPT ![w] = "resched"]
    /\ UNCHANGED <<job, dlq, hubVars, client, hresult, hjob, dispVars, doneCh,
                   paused, spent>>

(* ... or notice that the read goroutine closed done. *)
SeeDone(w) ==
    /\ hpc[w] \in {"outer", "inner"}
    /\ worker[w].done
    /\ hpc' = [hpc EXCEPT ![w] = "resched"]
    /\ UNCHANGED <<job, dlq, hubVars, worker, client, hresult, hjob, dispVars,
                   doneCh, paused, spent>>

(* Slip: after a timeout the handler keeps the connection for the next job. *)
JobTimeoutGoesOn(w) ==
    /\ hpc[w] = "inner"
    /\ worker' = [worker EXCEPT ![w].idle = TRUE, ![w].currentJob = Nil]
    /\ job' = PutBackIfRunning(job, {worker[w].currentJob.id})
    /\ hpc' = [hpc EXCEPT ![w] = "outer"]
    /\ UNCHANGED <<dlq, hubVars, client, hresult, hjob, dispVars, doneCh, paused,
                   spent>>

(* The inner select's time.After(wsTimeout). *)
JobTimeout(w) ==
    /\ hpc[w] = "inner"
    /\ hpc' = [hpc EXCEPT ![w] = "resched"]
    /\ UNCHANGED <<job, dlq, hubVars, worker, client, hresult, hjob, dispVars,
                   doneCh, paused, spent>>

(* A result arrives: under hub.mu the worker becomes idle and forgets its  *)
(* job, before the result has been looked at.                              *)
TakeResult(w) ==
    /\ hpc[w] = "inner"
    /\ worker[w].result # NoResult
    /\ hresult' = [hresult EXCEPT ![w] = worker[w].result]
    /\ worker' = [worker EXCEPT ![w].result = NoResult, ![w].idle = TRUE,
                                ![w].currentJob = Nil]
    /\ hpc' = [hpc EXCEPT ![w] = "report"]
    /\ UNCHANGED <<job, dlq, hubVars, client, hjob, dispVars, doneCh, paused,
                   spent>>

(* The result is dealt with: its locals go out of scope. *)
BackToSelect(w) ==
    /\ hpc' = [hpc EXCEPT ![w] = "outer"]
    /\ hresult' = [hresult EXCEPT ![w] = NoResult]
    /\ hjob' = [hjob EXCEPT ![w] = Nil]

(* markDone: the id of the result goes to the done coalescer. *)
ReportSuccess(w) ==
    /\ hpc[w] = "report"
    /\ hresult[w].ok
    /\ doneCh' = Append(doneCh, hresult[w].job)
    /\ BackToSelect(w)
    /\ UNCHANGED <<job, dlq, hubVars, worker, client, dispVars, paused, spent>>

(* A failure: worker.currentJob is read now, after the worker went idle. *)
ReadCachedJob(w) ==
    /\ hpc[w] = "report"
    /\ ~hresult[w].ok
    /\ hjob' = [hjob EXCEPT ![w] = worker[w].currentJob]
    /\ hpc' = [hpc EXCEPT ![w] =
                IF worker[w].currentJob = Nil THEN "lookup" ELSE "failing"]
    /\ UNCHANGED <<job, dlq, hubVars, worker, client, hresult, dispVars, doneCh,
                   paused, spent>>

(* The fallback: load the job named in the result from the table. *)
LookupJob(w) ==
    /\ hpc[w] = "lookup"
    /\ hjob' = [hjob EXCEPT ![w] =
                    [id |-> hresult[w].job,
                     attempts |-> job[hresult[w].job].attempts]]
    /\ hpc' = [hpc EXCEPT ![w] = "failing"]
    /\ UNCHANGED <<job, dlq, hubVars, worker, client, hresult, dispVars, doneCh,
                   paused, spent>>

(* handleJobFailure with attempts to spare: pending again after a delay.   *)
RetryLater(w) ==
    /\ hpc[w] = "failing"
    /\ MayRetry(hjob[w].id, hjob[w].attempts)
    /\ job' = PutBackAt(job, hjob[w].id, FALSE)
    /\ BackToSelect(w)
    /\ UNCHANGED <<dlq, hubVars, worker, client, dispVars, doneCh, paused, spent>>

(* Slip: the INSERT into failed_jobs is forgotten. *)
MarkFailedOnly(w) ==
    /\ hpc[w] = "failing"
    /\ ~MayRetry(hjob[w].id, hjob[w].attempts)
    /\ job' = SetFailed(job, hjob[w].id)
    /\ BackToSelect(w)
    /\ UNCHANGED <<dlq, hubVars, worker, client, dispVars, doneCh, paused, spent>>

(* handleJobFailure with none left: first the status ... *)
MarkFailed(w) ==
    /\ hpc[w] = "failing"
    /\ ~MayRetry(hjob[w].id, hjob[w].attempts)
    /\ job' = SetFailed(job, hjob[w].id)
    /\ hpc' = [hpc EXCEPT ![w] = "bury"]
    /\ UNCHANGED <<dlq, hubVars, worker, client, hresult, hjob, dispVars, doneCh,
                   paused, spent>>

(* ... then, in a second statement, the dead-letter row. *)
InsertDeadLetter(w) ==
    /\ hpc[w] = "bury"
    /\ dlq' = [dlq EXCEPT ![hjob[w].id] = @ + 1]
    /\ BackToSelect(w)
    /\ UNCHANGED <<job, hubVars, worker, client, dispVars, doneCh, paused, spent>>

(* rescheduleCurrentJob: read currentJobID and put that job back if it is  *)
(* still running. A non-zero currentJobID cannot change in between, since  *)
(* only an idle worker is given a job, so the read and the write are one.  *)
Reschedule(w) ==
    /\ hpc[w] = "resched"
    /\ job' = PutBackIfRunning(job, {worker[w].currentJob.id})
    /\ hpc' = [hpc EXCEPT ![w] = "exit"]
    /\ UNCHANGED <<dlq, hubVars, worker, client, hresult, hjob, dispVars, doneCh,
                   paused, spent>>

(* The deferred hub.unregister and conn.Close. *)
Exit(w) ==
    /\ hpc[w] = "exit"
    /\ RemoveFromRing(w)
    /\ worker' = [worker EXCEPT ![w] = FreshWorker]
    /\ client' = [client EXCEPT ![w] = 0]
    /\ hresult' = [hresult EXCEPT ![w] = NoResult]
    /\ hjob' = [hjob EXCEPT ![w] = Nil]
    /\ hpc' = [hpc EXCEPT ![w] = "off"]
    /\ UNCHANGED <<job, dlq, dispVars, doneCh, paused, spent>>

HandlerStep(w) ==
    \/ WriteJob(w)      \/ WriteFails(w)    \/ SeeKick(w)    \/ SeeDone(w)
    \/ JobTimeout(w)    \/ TakeResult(w)    \/ ReportSuccess(w)
    \/ ReadCachedJob(w) \/ LookupJob(w)     \/ RetryLater(w) \/ MarkFailed(w)
    \/ InsertDeadLetter(w) \/ Reschedule(w) \/ Exit(w)

-----------------------------------------------------------------------------
(* The remote worker and its read goroutine                                *)

(* The worker finishes its job and sends one result for it; the read       *)
(* goroutine offers it to worker.result without blocking.                  *)
SendResult(w) ==
    /\ client[w] # 0
    /\ \E ok \in {TRUE, "fail" \notin Env} :
          LET r == [job |-> client[w], ok |-> ok]
          IN  worker' = [worker EXCEPT ![w].result =
                            IF @ = NoResult THEN r ELSE @]
    /\ client' = [client EXCEPT ![w] = 0]
    /\ UNCHANGED <<job, dlq, hubVars, handlerVars, dispVars, doneCh, paused,
                   spent>>

(* The connection breaks, or the 60 s read deadline passes: the read       *)
(* goroutine closes done. What the worker was executing is never reported. *)
Disconnect(w) ==
    /\ "disconnect" \in Env
    /\ hpc[w] # "off"
    /\ ~worker[w].done
    /\ worker' = [worker EXCEPT ![w].done = TRUE]
    /\ client' = [client EXCEPT ![w] = 0]
    /\ UNCHANGED <<job, dlq, hubVars, handlerVars, dispVars, doneCh, paused,
                   spent>>

-----------------------------------------------------------------------------
(* Background goroutines                                                   *)

(* Slip: flushing also forgets the ids queued after the batch was cut. *)
FlushDoneForgets ==
    /\ \E n \in 1..Len(doneCh) :
        job' = SetDone(job, {doneCh[i] : i \in 1..n})
    /\ doneCh' = <<>>
    /\ UNCHANGED <<dlq, hubVars, worker, client, handlerVars, dispVars, paused,
                   spent>>

(* startDoneCoalescer: a batch of queued ids becomes one transaction. The  *)
(* UPDATE does not look at the status the row has by then.                 *)
FlushDone ==
    /\ \E n \in 1..Len(doneCh) :
        /\ job' = SetDone(job, {doneCh[i] : i \in 1..n})
        /\ doneCh' = SubSeq(doneCh, n + 1, Len(doneCh))
    /\ UNCHANGED <<dlq, hubVars, worker, client, handlerVars, dispVars, paused,
                   spent>>

(* Somebody will still act on j's row within the waits of the code: a      *)
(* dispatcher, a handler whose select is pending, or the done coalescer.   *)
InHand(j) ==
    \/ \E q \in Queues : \E ref \in batch[q] : ref.id = j
    \/ \E w \in Workers :
        \/ hpc[w] # "exit" /\ worker[w].currentJob.id = j
        \/ hpc[w] \in {"report", "lookup"} /\ hresult[w].job = j
        \/ hpc[w] = "failing" /\ hjob[w].id = j
    \/ j \in Range(doneCh)

(* Slip: the age of the row is not asked for. *)
ReapAnyRunning(j) ==
    /\ job[j].status = "running"
    /\ job' = PutBackIfRunning(job, {j})
    /\ UNCHANGED <<dlq, hubVars, worker, client, handlerVars, dispVars, doneCh,
                   paused, spent>>

(* Slip: the row's updated_at is refreshed, its status is not. *)
ReapOnlyTouches(j) ==
    /\ job[j].status = "running"
    /\ ~InHand(j)
    /\ UNCHANGED <<job, dlq, hubVars, worker, client, handlerVars, dispVars, doneCh,
                   paused, spent>>

(* startStaleJobReaper: a row that has been running for longer than        *)
(* STALE_JOB_TIMEOUT_SEC goes back to pending. With a threshold no shorter *)
(* than every job's own timeout, which is the configuration the README     *)
(* asks for, nobody holds the job any more by then ...                     *)
ReapStale(j) ==
    /\ job[j].status = "running"
    /\ ~InHand(j)
    /\ job' = PutBackIfRunning(job, {j})
    /\ UNCHANGED <<dlq, hubVars, worker, client, handlerVars, dispVars, doneCh,
                   paused, spent>>

(* ... with a shorter one, or a job with a longer timeout_sec, the job may *)
(* be in hand.                                                             *)
ReapEarly(j) ==
    /\ "earlyreap" \in Env
    /\ spent < EnvBudget
    /\ job[j].status = "running"
    /\ InHand(j)
    /\ job' = PutBackIfRunning(job, {j})
    /\ spent' = spent + 1
    /\ UNCHANGED <<dlq, hubVars, worker, client, handlerVars, dispVars, doneCh,
                   paused>>

(* The process dies and starts again: everything but the database is gone, *)
(* and initDB puts every running row back to pending.                      *)
CrashRestart ==
    /\ "crash" \in Env
    /\ job' = PutBackIfRunning(job, Jobs)
    /\ rrKeys' = <<>>
    /\ rrIdx' = 0
    /\ worker' = [w \in Workers |-> FreshWorker]
    /\ client' = [w \in Workers |-> 0]
    /\ hpc' = [w \in Workers |-> "off"]
    /\ hresult' = [w \in Workers |-> NoResult]
    /\ hjob' = [w \in Workers |-> Nil]
    /\ dpc' = [q \in Queues |-> "wake"]
    /\ idleCount' = [q \in Queues |-> 0]
    /\ batch' = [q \in Queues |-> {}]
    /\ dispatched' = [q \in Queues |-> FALSE]
    /\ doneCh' = <<>>
    /\ paused' = {}
    /\ UNCHANGED <<dlq, spent>>

JobStep(j) ==
    Dispatch(j) \/ BecomeDue(j) \/ Cancel(j) \/ ReapStale(j) \/ ReapEarly(j)

QueueStep(q) == PauseQueue(q) \/ ResumeQueue(q) \/ DispatcherStep(q)

WorkerStep(w) ==
    \/ Connect(w)    \/ KickWorker(w) \/ HeartbeatExpire(w)
    \/ SendResult(w) \/ Disconnect(w) \/ HandlerStep(w)

Next ==
    \/ \E j \in Jobs : JobStep(j)
    \/ \E q \in Queues : QueueStep(q)
    \/ \E w \in Workers : WorkerStep(w)
    \/ FlushDone
    \/ CrashRestart

Spec == Init /\ [][Next]_vars

(* Goroutines that can run do run; time passes, so a delay ends, a job     *)
(* timer fires and the reaper's next scan comes. Nothing is assumed of     *)
(* remote workers, administrators or the network.                          *)
Fairness ==
    /\ \A q \in Queues : WF_vars(DispatcherStep(q))
    /\ \A w \in Workers : WF_vars(HandlerStep(w))
    /\ \A j \in Jobs : WF_vars(ReapStale(j)) /\ WF_vars(BecomeDue(j))
    /\ WF_vars(FlushDone)

FairSpec == Spec /\ Fairness

-----------------------------------------------------------------------------
(* Properties                                                              *)

(* Every variable has the type its Go counterpart has. *)
TypeOK ==
    /\ job \in [Jobs -> Row]
    /\ dlq \in [Jobs -> Nat]
    /\ rrKeys \in Seq(Workers)
    /\ rrIdx \in Nat
    /\ worker \in [Workers -> WsWorker]
    /\ client \in [Workers -> JobId]
    /\ hpc \in [Workers -> HandlerPc]
    /\ hresult \in [Workers -> Result]
    /\ hjob \in [Workers -> JobRef]
    /\ dpc \in [Queues -> DispatcherPc]
    /\ idleCount \in [Queues -> Nat]
    /\ batch \in [Queues -> SUBSET [id : Jobs, attempts : Nat]]
    /\ dispatched \in [Queues -> BOOLEAN]
    /\ doneCh \in Seq(Jobs)
    /\ paused \in SUBSET Queues
    /\ spent \in Nat

(* A worker the hub believes idle really is free: no message waits in its  *)
(* send channel, it has no current job and no handler waits for a result   *)
(* from it. dispatchToWs depends on this: its send does not block, and a   *)
(* full channel would make it skip the worker or lose track of a job.      *)
IdleMeansFree ==
    \A w \in Workers :
        worker[w].idle =>
            /\ worker[w].send = 0
            /\ worker[w].currentJob = Nil
            /\ hpc[w] # "inner"

(* A result is never dropped by the read goroutine's non-blocking offer:   *)
(* while a worker executes, its result channel is empty; and the job it    *)
(* executes is the one its handler is waiting for.                         *)
ResultIsAwaited ==
    \A w \in Workers :
        client[w] # 0 =>
            /\ worker[w].result = NoResult
            /\ client[w] = worker[w].currentJob.id

(* w has been given j and its handler has not put it back to leave. *)
Holds(w, j) ==
    hpc[w] # "exit" /\ worker[w].currentJob.id = j

(* No job is held by two connections at once, and a job that is held is    *)
(* running in the table: not pending (another dispatcher turn would hand   *)
(* it out again), not cancelled, not finished.                             *)
OneHolder ==
    \A w \in Workers, j \in Jobs :
        Holds(w, j) =>
            /\ job[j].status = "running"
            /\ \A v \in Workers \ {w} : ~Holds(v, j)

(* A success that was taken off the connection: on its way to the done     *)
(* coalescer, in it, or in the table.                                      *)
Succeeded(j) ==
    \/ job[j].status = "done"
    \/ j \in Range(doneCh)
    \/ \E w \in Workers : hpc[w] = "report" /\ hresult[w] = [job |-> j, ok |-> TRUE]

(* Once taken, a success stays: no later failure report, requeue, reap or  *)
(* cancellation makes the job run again; only a crash may, until the       *)
(* coalescer has written it to the table.                                  *)
SuccessIsFinal ==
    [][CrashRestart \/ \A j \in Jobs : Succeeded(j) => Succeeded(j)']_vars

(* handleWorkerWS charges a failure to the job the worker reported, which  *)
(* is what the cached Job of worker.currentJob is kept for.                *)
FailureChargedToReported ==
    \A w \in Workers :
        hpc[w] \in {"failing", "bury"} => hjob[w].id = hresult[w].job

(* How far the mistake can reach: a failure not charged to the job the     *)
(* worker reported is charged to the one job that waits, unwritten, in     *)
(* that worker's send channel; never to a job a worker has been sent, to   *)
(* one of another connection, or to none.                                  *)
ChargeStaysWithWorker ==
    \A w \in Workers :
        hpc[w] \in {"failing", "bury"} =>
            \/ hjob[w].id = hresult[w].job
            \/ /\ hjob[w] = worker[w].currentJob
               /\ hjob[w].id = worker[w].send
               /\ ~worker[w].idle

(* The dead-letter queue and the table agree: a failed job has exactly one *)
(* failed_jobs row, or its handler is about to write it; other jobs none.  *)
DeadLetterAgrees ==
    \A j \in Jobs :
        LET writing == {w \in Workers : hpc[w] = "bury" /\ hjob[w].id = j}
        IN  dlq[j] + Cardinality(writing) = IF job[j].status = "failed" THEN 1 ELSE 0

(* A running job does not stay running for ever: whatever its worker does, *)
(* it finishes, goes back to pending or is dead-lettered. The hard case is *)
(* a job handed to a handler that has already rescheduled and is leaving.  *)
NoJobStuckRunning ==
    \A j \in Jobs : job[j].status = "running" ~> job[j].status # "running"

(* A due job and an idle worker of its queue do not look at each other for *)
(* ever while the queue is not paused.                                     *)
WorkConserving ==
    \A q \in Queues :
        []<>(\/ q \in paused
             \/ Candidates(job, q) = {}
             \/ IdleWorkers(q) = {})
=============================================================================
