------------------------------ MODULE Shutdown ------------------------------
(***************************************************************************)
(* The end of the process on a signal: main closes stopGoWorker, waits for *)
(* the jobs that workerWg counts, for a limited time, and returns. Until   *)
(* then pool goroutines finish what they execute; but the same channel has *)
(* told the insert coalescer to stop, through which they dispatch what     *)
(* follows a job. The arbiter is not told anything. Time is left to chance.*)
(***************************************************************************)
EXTENDS Integers, FiniteSets

CONSTANTS
    Duties,    \* jobs
    Followed,  \* those with a next_job, or that end their batch
    Hands      \* pool goroutines

ConstantsOK == Followed \subseteq Duties

VARIABLES
    stage,     \* what main does: serve, wait, close, or it has returned
    hand,      \* where each goroutine is
    duty,      \* the job it has, as a set
    counted,   \* the goroutines that workerWg counts
    status,    \* the status of each job in the table
    inserts,   \* insertCoalesceCh: the jobs whose follow-ups are in it
    coalescer, \* whether the insert coalescer runs
    batches,   \* follow-ups on their way through the arbiter
    followed,  \* jobs whose follow-up is in the table
    begun,     \* history: jobs in execution when the signal came and not
               \* reserved again after it
    inTime     \* history: main has not run out of patience

handVars == <<hand, duty, counted>>
chainVars == <<inserts, coalescer, batches, followed>>
vars == <<stage, handVars, status, chainVars, begun, inTime>>

Init ==
    /\ stage = "serve"
    /\ hand = [h \in Hands |-> "top"]
    /\ duty = [h \in Hands |-> {}]
    /\ counted = {}
    /\ status = [j \in Duties |-> "pending"]
    /\ inserts = {} /\ coalescer = TRUE /\ batches = {} /\ followed = {}
    /\ begun = {} /\ inTime = TRUE

Stopping == stage # "serve"

Goto(h, place) == hand' = [hand EXCEPT ![h] = place]

-----------------------------------------------------------------------------
(* Pool goroutines: the loop of spawnWorker                                *)

Look(h) ==
    /\ hand[h] = "top"
    /\ Goto(h, IF Stopping THEN "out" ELSE "reserve")
    /\ UNCHANGED <<stage, duty, counted, status, chainVars, begun, inTime>>

ReserveJob(h) ==
    /\ hand[h] = "reserve"
    /\ \E j \in Duties :
        /\ status[j] = "pending"
        /\ status' = [status EXCEPT ![j] = "running"]
        /\ duty' = [duty EXCEPT ![h] = {j}]
        /\ begun' = begun \ {j}
    /\ Goto(h, "count")
    /\ UNCHANGED <<stage, counted, chainVars, inTime>>

FindNothing(h) ==
    /\ hand[h] = "reserve"
    /\ \A j \in Duties : status[j] # "pending"
    /\ Goto(h, "top")
    /\ UNCHANGED <<stage, duty, counted, status, chainVars, begun, inTime>>

(* Slip: workerWg.Done comes before the job is executed. *)
CountInAndOut(h) ==
    /\ hand[h] = "count"
    /\ counted' = counted \ {h}
    /\ Goto(h, "execute")
    /\ UNCHANGED <<stage, duty, status, chainVars, begun, inTime>>

(* workerWg.Add, after the job was reserved: main may have stopped waiting.*)
Count(h) ==
    /\ hand[h] = "count"
    /\ counted' = counted \cup {h}
    /\ Goto(h, "execute")
    /\ UNCHANGED <<stage, duty, status, chainVars, begun, inTime>>

Write(h, s) == status' = [j \in Duties |-> IF j \in duty[h] THEN s ELSE status[j]]

(* markDoneWithChain: the row is written at once. *)
Succeed(h) ==
    /\ hand[h] = "execute"
    /\ Write(h, "done")
    /\ Goto(h, IF duty[h] \subseteq Followed THEN "chain" ELSE "leave")
    /\ UNCHANGED <<stage, duty, counted, chainVars, begun, inTime>>

(* handleJobFailure or a refusal by the rate limit *)
Fail(h) ==
    /\ hand[h] = "execute"
    /\ \E s \in {"pending", "failed"} : Write(h, s)
    /\ Goto(h, "leave")
    /\ UNCHANGED <<stage, duty, counted, chainVars, begun, inTime>>

(* dispatchChainedJob: into the channel, whether anybody reads it or not;  *)
(* then the wait for the answer                                            *)
Chain(h) ==
    /\ hand[h] = "chain"
    /\ inserts' = inserts \cup duty[h]
    /\ Goto(h, "await")
    /\ UNCHANGED <<stage, duty, counted, status, coalescer, batches, followed, begun, inTime>>

ReceiveAnswer(h) ==
    /\ hand[h] = "await"
    /\ duty[h] \subseteq followed
    /\ Goto(h, "leave")
    /\ UNCHANGED <<stage, duty, counted, status, chainVars, begun, inTime>>

(* workerWg.Done *)
Leave(h) ==
    /\ hand[h] = "leave"
    /\ counted' = counted \ {h}
    /\ duty' = [duty EXCEPT ![h] = {}]
    /\ Goto(h, "top")
    /\ UNCHANGED <<stage, status, chainVars, begun, inTime>>

-----------------------------------------------------------------------------
(* Insert coalescer and arbiter (WriteArbiter has them in detail)          *)

Flush ==
    /\ coalescer
    /\ inserts # {}
    /\ batches' = batches \cup inserts
    /\ inserts' = {}
    /\ UNCHANGED <<stage, handVars, status, coalescer, followed, begun, inTime>>

(* On the stop, with what it has taken flushed; what is or comes into the  *)
(* channel after that is read by nobody.                                   *)
CoalescerReturns ==
    /\ coalescer
    /\ Stopping
    /\ coalescer' = FALSE
    /\ UNCHANGED <<stage, handVars, status, inserts, batches, followed, begun, inTime>>

Insert ==
    /\ batches # {}
    /\ followed' = followed \cup batches
    /\ batches' = {}
    /\ UNCHANGED <<stage, handVars, status, inserts, coalescer, begun, inTime>>

-----------------------------------------------------------------------------
(* main                                                                    *)

(* A signal: close(stopGoWorker), workerWg.Wait in a goroutine *)
CloseStop ==
    /\ stage = "serve"
    /\ stage' = "wait"
    /\ begun' = UNION {duty[h] : h \in {g \in Hands : hand[g] \in {"execute", "chain", "await"}}}
    /\ UNCHANGED <<handVars, status, chainVars, inTime>>

AllFinished ==
    /\ stage = "wait"
    /\ counted = {}
    /\ stage' = "close"
    /\ UNCHANGED <<handVars, status, chainVars, begun, inTime>>

(* DefaultJobTimeoutSec + 5 s: jobs may have longer timeouts of their own. *)
GiveUp ==
    /\ stage = "wait"
    /\ stage' = "close"
    /\ inTime' = FALSE
    /\ UNCHANGED <<handVars, status, chainVars, begun>>

(* srv.Shutdown, and main returns: goroutines, channels and all *)
ReturnMain ==
    /\ stage = "close"
    /\ stage' = "returned"
    /\ UNCHANGED <<handVars, status, chainVars, begun, inTime>>

HandStep(h) ==
    \/ Look(h) \/ ReserveJob(h) \/ FindNothing(h) \/ Count(h)
    \/ Succeed(h) \/ Fail(h) \/ Chain(h) \/ ReceiveAnswer(h) \/ Leave(h)

Next ==
    /\ stage # "returned"
    /\ \/ \E h \in Hands : HandStep(h)
       \/ Flush \/ CoalescerReturns \/ Insert
       \/ CloseStop \/ AllFinished \/ GiveUp \/ ReturnMain

Spec == Init /\ [][Next]_vars

-----------------------------------------------------------------------------
(* Properties                                                              *)

TypeOK ==
    /\ stage \in {"serve", "wait", "close", "returned"}
    /\ hand \in [Hands -> {"top", "reserve", "count", "execute", "chain", "await", "leave", "out"}]
    /\ duty \in [Hands -> SUBSET Duties] /\ counted \subseteq Hands
    /\ status \in [Duties -> {"pending", "running", "done", "failed"}]
    /\ inserts \subseteq Followed /\ batches \subseteq Followed /\ followed \subseteq Followed
    /\ coalescer \in BOOLEAN /\ begun \subseteq Duties /\ inTime \in BOOLEAN

(* When main goes on because all running jobs have finished, it leaves     *)
(* nothing half done of the jobs that were in execution at the signal:     *)
(* their rows are written, and what follows those that are done is in the  *)
(* table. If that cannot be done any more, main must not go on by itself.  *)
BegunAreAwaited ==
    stage \in {"close", "returned"} /\ inTime =>
        \A j \in begun :
            /\ status[j] # "running"
            /\ status[j] = "done" /\ j \in Followed => j \in followed
=============================================================================
