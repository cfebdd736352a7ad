-------------------------- MODULE Completion_proofs --------------------------
(***************************************************************************)
(* Callbacks and chains follow once, and then_job means what it says, for  *)
(* any number of jobs and workers and all conditions.                      *)
(***************************************************************************)
EXTENDS Completion, TLAPS, FiniteSetTheorems

Holding == {"execute", "markdone"}
Calling == {"callback", "finally"}

(* A job is held by one worker, and only while it runs; once it is done it *)
(* is never dispatched or reserved again, so it is chained at most once.   *)
JobsHeld ==
    /\ \A j \in Jobs : submit[j] = "new" => job[j].status = "absent"
    /\ \A w \in Workers :
        /\ wpc[w] # "idle" => wjob[w].id \in Jobs
        /\ wpc[w] \in Holding => job[wjob[w].id].status = "running"
        /\ wpc[w] = "chain" => job[wjob[w].id].status = "done" /\ chained[wjob[w].id] = 0
    /\ \A v, w \in Workers :
        /\ wpc[v] \in Holding /\ wpc[w] \in Holding /\ v # w => wjob[v].id # wjob[w].id
        /\ wpc[v] = "chain" /\ wpc[w] = "chain" /\ v # w => wjob[v].id # wjob[w].id
    /\ \A j \in Jobs : chained[j] > 0 => chained[j] = 1 /\ job[j].status = "done"

(* The one worker whose UPDATE ended the batch dispatches the callbacks.   *)
OneCaller ==
    /\ \A w \in Workers :
        /\ wpc[w] \in Calling => batch.status \in BatchEnd /\ fired["finally"] = 0
        /\ wpc[w] = "callback" => fired["then"] = 0 /\ fired["catch"] = 0
    /\ \A v, w \in Workers : wpc[v] \in Calling /\ wpc[w] \in Calling => v = w
    /\ batch.status \notin BatchEnd => \A c \in Callbacks : fired[c] = 0

(* Jobs linked and not yet counted: batch.total lags behind by them.       *)
Linked == {j \in inBatch : submit[j] = "linked"}

TotalLags ==
    /\ \A j \in Jobs : submit[j] \in {"new", "inserted"} => j \notin inBatch
    /\ \A j \in Jobs : submit[j] = "linked" => j \in inBatch
    /\ batch.total + Cardinality(Linked) <= Cardinality(inBatch)

(* A batch that was submitted as a whole, before anybody executed a job    *)
(* of it ...                                                               *)
Whole == "early" \notin env /\ BatchJobs \subseteq inBatch

AllDone == \A j \in BatchJobs : job[j].status = "done"

(* ... is counted right: nobody was at work during the submission, and     *)
(* what a worker has counted as done is done.                              *)
CountsRight ==
    /\ "early" \notin env /\ (\E j \in Jobs : submit[j] # "closed") =>
        fired["then"] = 0 /\ \A w \in Workers : wpc[w] = "idle"
    /\ Whole => \A w \in Workers :
        /\ wpc[w] \in {"done", "failed", "decide"} => count[w].total = Cardinality(inBatch)
        /\ wpc[w] \in {"failed", "decide"} => count[w].done <= InBatchWith({"done"})
        /\ wpc[w] = "callback" /\ count[w].failed = 0 => AllDone

-----------------------------------------------------------------------------
LEMMA FiniteBatch ==
    ASSUME inBatch \subseteq BatchJobs, NEW S, S \subseteq inBatch
    PROVE  /\ IsFiniteSet(S) /\ Cardinality(S) \in Nat
           /\ Cardinality(S) <= Cardinality(inBatch)
<1>1. IsFiniteSet(inBatch)
  BY BatchAssumption, FS_Subset
<1> QED BY <1>1, FS_Subset, FS_CardinalityType

LEMMA RunningType ==
    ASSUME NEW t \in [Jobs -> Row], NEW S
    PROVE  SetRunning(t, S) \in [Jobs -> Row]
<1>1. ASSUME NEW x \in Jobs
      PROVE  [t[x] EXCEPT !.status = "running", !.attempts = @ + 1] \in Row
  <2>1. t[x] \in Row /\ t[x].attempts + 1 \in Nat
    BY DEF Row
  <2> QED BY <2>1 DEF Row, Status
<1> QED BY <1>1 DEF SetRunning

(* The statements on one row or on a set of rows keep the table a table.   *)
LEMMA TableType ==
    ASSUME NEW t \in [Jobs -> Row]
    PROVE  /\ \A j : \A due \in BOOLEAN : InsertJob(t, j, due) \in [Jobs -> Row]
           /\ \A j : \A due \in BOOLEAN : PutBackAt(t, j, due) \in [Jobs -> Row]
           /\ \A j : SetFailed(t, j) \in [Jobs -> Row]
           /\ \A j : CancelIfPending(t, j) \in [Jobs -> Row]
           /\ \A S : PutBackIfRunning(t, S) \in [Jobs -> Row]
           /\ \A S : SetDone(t, S) \in [Jobs -> Row]
  BY DEF InsertJob, PutBackAt, SetFailed, CancelIfPending, PutBackIfRunning, SetDone, Rows,
     Row, Status

-----------------------------------------------------------------------------
SInv == TypeOK /\ TotalLags

LEMMA InitSInv == Init => SInv
<1> SUFFICES ASSUME Init PROVE SInv
  OBVIOUS
<1>1. Linked = {} /\ Cardinality({}) = 0
  BY FS_EmptySet DEF Init, Linked
<1>2. job \in [Jobs -> Row]
  BY DEF Init, EmptyTable, NoRow, Row, Status
<1>3. env \subseteq {"early", "ws", "fail", "cancel", "crash", "crashed"}
  BY ConditionsAssumption DEF Init
<1>4. /\ wjob \in [Workers -> [id : Jobs \cup {0}, attempts : Nat]]
      /\ count \in [Workers -> [total : Nat, done : Nat, failed : Nat]]
  BY DEF Init, NoJob, NoCount
<1>5. TypeOK
  BY <1>1, <1>2, <1>3, <1>4 DEF Init, TypeOK
<1> QED BY <1>1, <1>5 DEF Init, SInv, TotalLags

(* What is counted in checkBatchCompletion is finite.                      *)
LEMMA CountsType ==
    ASSUME TypeOK, NEW S PROVE InBatchWith(S) \in Nat /\ Cardinality(inBatch) \in Nat
  BY FiniteBatch DEF TypeOK, InBatchWith

(* Submission: a job is counted in batch.total after it was linked.        *)
LEMMA SubmitType ==
    ASSUME SInv, NEW j \in Jobs, SubmitStep(j) PROVE SInv'
<1>0. TypeOK /\ TotalLags /\ inBatch \subseteq BatchJobs /\ batch.total \in Nat
  BY CountsType DEF SInv, TypeOK
<1>1. Cardinality(Linked) \in Nat /\ Cardinality(inBatch) \in Nat
  BY <1>0, FiniteBatch DEF Linked
<1> USE DEF workerVars, firedVars
<1>2. CASE Dispatch(j)
  <2>1. job' \in [Jobs -> Row] /\ UNCHANGED <<inBatch, batch>>
        /\ submit' = [submit EXCEPT ![j] = "inserted"] /\ submit[j] = "new"
    BY <1>0, <1>2, TableType DEF Dispatch, TypeOK
  <2>2. Linked' = Linked
    BY <1>0, <2>1 DEF Linked, TypeOK
  <2>3. TypeOK'
    BY <1>0, <1>2, <2>1 DEF Dispatch, TypeOK
  <2> QED BY <1>0, <2>1, <2>2, <2>3 DEF SInv, TotalLags, TypeOK
<1>3. CASE LinkJob(j)
  <2>1. /\ submit' = [submit EXCEPT ![j] = "linked"] /\ submit[j] = "inserted"
        /\ inBatch' = inBatch \cup {j} /\ batch' = batch /\ j \notin inBatch
    BY <1>0, <1>3 DEF LinkJob, TotalLags
  <2>2. Linked' = Linked \cup {j} /\ j \notin Linked
    BY <1>0, <2>1 DEF Linked, TypeOK
  <2>3. IsFiniteSet(inBatch) /\ IsFiniteSet(Linked)
    BY <1>0, FiniteBatch DEF Linked
  <2>4. Cardinality(inBatch') = Cardinality(inBatch) + 1
        /\ Cardinality(Linked') = Cardinality(Linked) + 1
    BY <2>1, <2>2, <2>3, FS_AddElement
  <2>5. TypeOK'
    <3>1. inBatch' \subseteq BatchJobs
      BY <1>0, <1>3 DEF LinkJob
    <3>2. batch' \in [status : {"none", "pending", "running", "done", "failed"},
                     total  : 0..Cardinality(inBatch')]
      BY <1>0, <1>1, <2>1, <2>4 DEF TypeOK
    <3> QED BY <1>0, <1>3, <2>1, <3>1, <3>2 DEF LinkJob, TypeOK
  <2>6. TotalLags'
    BY <1>0, <1>1, <2>1, <2>4 DEF TotalLags, TypeOK
  <2> QED BY <2>5, <2>6 DEF SInv
<1>4. CASE CountJob(j)
  <2>1. /\ submit' = [submit EXCEPT ![j] = "closed"] /\ submit[j] = "linked"
        /\ batch' = [batch EXCEPT !.total = @ + 1] /\ UNCHANGED inBatch
    BY <1>4 DEF CountJob
  <2>2. Linked' = Linked \ {j} /\ j \in Linked /\ IsFiniteSet(Linked)
    BY <1>0, <2>1, FiniteBatch DEF Linked, TypeOK, TotalLags
  <2>3. Cardinality(Linked') = Cardinality(Linked) - 1
    BY <2>2, FS_RemoveElement
  <2>4. Cardinality(Linked') \in Nat
    BY <2>2, FS_RemoveElement, FS_CardinalityType
  <2>5. batch'.total = batch.total + 1 /\ batch'.status = batch.status
        /\ batch' = [status |-> batch'.status, total |-> batch'.total]
    BY <1>0, <2>1 DEF TypeOK
  <2>6. batch'.total + Cardinality(Linked') <= Cardinality(inBatch')
    BY <1>0, <1>1, <2>1, <2>3, <2>4, <2>5 DEF TotalLags
  <2>7. batch'.total \in 0..Cardinality(inBatch')
    BY <1>0, <1>1, <2>1, <2>4, <2>5, <2>6
  <2>8. batch' \in [status : {"none", "pending", "running", "done", "failed"},
                   total  : 0..Cardinality(inBatch')]
    BY <1>0, <2>5, <2>7 DEF TypeOK
  <2>9. TypeOK'
    BY <1>0, <1>4, <2>1, <2>8 DEF CountJob, TypeOK
  <2> QED BY <1>0, <2>1, <2>6, <2>9 DEF SInv, TotalLags, TypeOK
<1>5. CASE FinishDispatch(j)
  <2>1. /\ submit' = [submit EXCEPT ![j] = "closed"] /\ submit[j] = "inserted"
        /\ UNCHANGED <<inBatch, batch>>
    BY <1>5 DEF FinishDispatch
  <2>2. Linked' = Linked
    BY <1>0, <2>1 DEF Linked, TypeOK
  <2>3. TypeOK'
    BY <1>0, <1>5, <2>1 DEF FinishDispatch, TypeOK
  <2> QED BY <1>0, <2>1, <2>2, <2>3 DEF SInv, TotalLags, TypeOK
<1> QED BY <1>2, <1>3, <1>4, <1>5 DEF SubmitStep

(* The steps that touch neither submission nor the number of jobs linked.  *)
LEMMA LinksKept ==
    ASSUME SInv, UNCHANGED <<inBatch, submit>>, batch'.total = batch.total, TypeOK'
    PROVE  SInv'
<1>1. Linked' = Linked
  BY DEF Linked
<1> QED BY <1>1 DEF SInv, TotalLags

LEMMA WorkerType ==
    ASSUME SInv, NEW w \in Workers, WorkerStep(w) PROVE SInv'
<1>0. TypeOK
  BY DEF SInv
<1> USE DEF submitVars, firedVars, Goto
<1>1. CASE Reserve(w)
  <2>1. PICK q \in Queues, j \in Jobs :
            /\ job' = SetRunning(job, {j})
            /\ wjob' = [wjob EXCEPT ![w] = [id |-> j, attempts |-> job[j].attempts + 1]]
    BY <1>1 DEF Reserve, FirstCandidates, Candidates
  <2>2. job' \in [Jobs -> Row]
    BY <1>0, <2>1, RunningType DEF TypeOK
  <2>3. job[j].attempts + 1 \in Nat
    BY <1>0 DEF TypeOK, Row
  <2>4. wjob' \in [Workers -> [id : Jobs \cup {0}, attempts : Nat]]
    BY <1>0, <2>1, <2>3 DEF TypeOK
  <2>5. TypeOK'
    BY <1>0, <1>1, <2>2, <2>4 DEF Reserve, TypeOK
  <2> QED BY <1>1, <2>5, LinksKept DEF Reserve
<1>2. CASE Retry(w) \/ Fail(w)
  <2>1. job \in [Jobs -> Row]
    BY <1>0 DEF TypeOK
  <2>2. job' \in [Jobs -> Row]
    <3>1. CASE Retry(w)
      BY <2>1, <3>1, TableType DEF Retry
    <3>2. CASE Fail(w)
      BY <2>1, <3>2, TableType DEF Fail
    <3> QED BY <1>2, <3>1, <3>2
  <2>3. TypeOK'
    BY <1>0, <1>2, <2>2 DEF Retry, Fail, TypeOK
  <2> QED BY <1>2, <2>3, LinksKept DEF Retry, Fail
<1>3. CASE Succeed(w)
  <2>1. TypeOK'
    BY <1>0, <1>3 DEF Succeed, TypeOK
  <2> QED BY <1>3, <2>1, LinksKept DEF Succeed
<1>4. CASE MarkDone(w)
  <2>1. job' \in [Jobs -> Row]
    BY <1>0, <1>4, TableType DEF MarkDone, TypeOK
  <2>2. TypeOK'
    BY <1>0, <1>4, <2>1 DEF MarkDone, TypeOK
  <2> QED BY <1>4, <2>2, LinksKept DEF MarkDone
<1>5. CASE DispatchChained(w)
  <2>1. chained' \in [Jobs -> Nat]
    <3>1. \A j \in Jobs : chained[j] \in Nat /\ chained[j] + 1 \in Nat
      BY <1>0 DEF TypeOK
    <3> QED BY <1>0, <1>5, <3>1 DEF DispatchChained, TypeOK
  <2>2. TypeOK'
    BY <1>0, <1>5, <2>1 DEF DispatchChained, TypeOK
  <2> QED BY <1>5, <2>2, LinksKept DEF DispatchChained
<1>6. CASE LookupBatch(w)
  <2>1. TypeOK'
    BY <1>0, <1>6 DEF LookupBatch, TypeOK
  <2> QED BY <1>6, <2>1, LinksKept DEF LookupBatch
<1>7. CASE CountTotal(w) \/ CountDone(w) \/ CountFailed(w)
  <2>1. PICK n \in Nat : \/ count' = [count EXCEPT ![w].total = n]
                         \/ count' = [count EXCEPT ![w].done = n]
                         \/ count' = [count EXCEPT ![w].failed = n]
    BY <1>0, <1>7, CountsType DEF CountTotal, CountDone, CountFailed
  <2>2. count' \in [Workers -> [total : Nat, done : Nat, failed : Nat]]
    BY <1>0, <2>1 DEF TypeOK
  <2>3. TypeOK'
    BY <1>0, <1>7, <2>2 DEF CountTotal, CountDone, CountFailed, TypeOK
  <2> QED BY <1>7, <2>3, LinksKept DEF CountTotal, CountDone, CountFailed
<1>8. CASE LeaveRunning(w) \/ EndBatch(w)
  <2>1. UNCHANGED batch \/ \E s \in {"running", "done", "failed", batch.status} :
                                batch' = [batch EXCEPT !.status = s]
    BY <1>8 DEF LeaveRunning, EndBatch
  <2>2. batch' \in [status : {"none", "pending", "running", "done", "failed"},
                   total  : 0..Cardinality(inBatch)] /\ batch'.total = batch.total
    BY <1>0, <2>1 DEF TypeOK
  <2>3. TypeOK'
    BY <1>0, <1>8, <2>2 DEF LeaveRunning, EndBatch, TypeOK
  <2> QED BY <1>8, <2>2, <2>3, LinksKept DEF LeaveRunning, EndBatch
<1>9. CASE ThenOrCatch(w) \/ Finally(w)
  <2>1. PICK c \in Callbacks : Fire(c)
    BY <1>9 DEF ThenOrCatch, Finally, Callbacks
  <2>2. fired' \in [Callbacks -> Nat]
    BY <1>0, <2>1 DEF Fire, TypeOK
  <2>3. TypeOK'
    BY <1>0, <1>9, <2>2 DEF ThenOrCatch, Finally, TypeOK
  <2> QED BY <1>9, <2>3, LinksKept DEF ThenOrCatch, Finally
<1> QED BY <1>1, <1>2, <1>3, <1>4, <1>5, <1>6, <1>7, <1>8, <1>9 DEF WorkerStep

LEMMA SInvStep == SInv /\ [Next]_vars => SInv'
<1> SUFFICES ASSUME SInv, [Next]_vars PROVE SInv'
  OBVIOUS
<1>0. TypeOK
  BY DEF SInv
<1> USE DEF submitVars, workerVars, firedVars
<1>1. CASE CreateBatch
  <2>1. batch' = [batch EXCEPT !.status = "pending"]
    BY <1>1 DEF CreateBatch
  <2>2. TypeOK' /\ batch'.total = batch.total
    BY <1>0, <1>1, <2>1 DEF CreateBatch, TypeOK
  <2> QED BY <1>1, <2>2, LinksKept DEF CreateBatch
<1>2. ASSUME NEW j \in Jobs, SubmitStep(j) PROVE SInv'
  BY <1>2, SubmitType
<1>3. ASSUME NEW j \in Jobs, Cancel(j) PROVE SInv'
  <2>1. TypeOK'
    BY <1>0, <1>3, TableType DEF Cancel, TypeOK
  <2> QED BY <1>3, <2>1, LinksKept DEF Cancel
<1>4. ASSUME NEW j \in Jobs, BecomeDue(j) PROVE SInv'
  <2>1. job' \in [Jobs -> Row]
    <3>1. job' = [job EXCEPT ![j].due = TRUE] /\ job \in [Jobs -> Row]
      BY <1>0, <1>4 DEF BecomeDue, TypeOK
    <3>2. [job[j] EXCEPT !.due = TRUE] \in Row
      BY <3>1 DEF Row
    <3> QED BY <3>1, <3>2
  <2>2. TypeOK'
    BY <1>0, <1>4, <2>1 DEF BecomeDue, TypeOK
  <2> QED BY <1>4, <2>2, LinksKept DEF BecomeDue
<1>5. ASSUME NEW w \in Workers, WorkerStep(w) PROVE SInv'
  BY <1>5, WorkerType
<1>6. CASE CrashRestart
  <2>1. job' \in [Jobs -> Row]
    BY <1>0, <1>6, TableType DEF CrashRestart, TypeOK
  <2>2. /\ wjob' \in [Workers -> [id : Jobs \cup {0}, attempts : Nat]]
        /\ count' \in [Workers -> [total : Nat, done : Nat, failed : Nat]]
    BY <1>6 DEF CrashRestart, NoJob, NoCount
  <2>3. TypeOK'
    BY <1>0, <1>6, <2>1, <2>2 DEF CrashRestart, TypeOK
  <2>4. /\ Linked' = {} /\ Cardinality({}) = 0
        /\ \A j \in Jobs : submit'[j] = "closed"
        /\ UNCHANGED <<inBatch, batch>>
    BY <1>0, <1>6, FS_EmptySet, BatchAssumption DEF CrashRestart, Linked, TypeOK
  <2>5. batch.total \in Nat /\ batch.total <= Cardinality(inBatch)
    BY <1>0, CountsType DEF TypeOK
  <2> QED BY <2>3, <2>4, <2>5 DEF SInv, TotalLags
<1>7. CASE UNCHANGED vars
  <2>1. TypeOK'
    BY <1>0, <1>7 DEF vars, TypeOK
  <2> QED BY <1>7, <2>1, LinksKept DEF vars
<1> QED BY <1>1, <1>2, <1>3, <1>4, <1>5, <1>6, <1>7 DEF Next

-----------------------------------------------------------------------------
(* What a reservation does to the status of the rows.                      *)
LEMMA StatusReserved ==
    ASSUME NEW t \in [Jobs -> Row], NEW i \in Jobs, NEW x \in Jobs
    PROVE  SetRunning(t, {i})[x].status = IF x = i THEN "running" ELSE t[x].status
<1>1. t[x] \in Row
  OBVIOUS
<1> QED BY <1>1 DEF SetRunning, Row

(* A step of a worker writes the status of at most the job it has, or of   *)
(* the pending one it takes.                                               *)
LEMMA HeldJobStep ==
    ASSUME SInv, JobsHeld, NEW w \in Workers, WorkerStep(w)
    PROVE  JobsHeld' /\ \A j \in Jobs : job[j].status = "done" => job'[j].status = "done"
<1> DEFINE Goal == JobsHeld' /\ \A j \in Jobs : job[j].status = "done" => job'[j].status = "done"
<1>0. /\ job \in [Jobs -> Row]
      /\ wpc \in [Workers -> {"idle", "execute", "markdone", "chain", "lookup", "total",
                              "done", "failed", "decide", "callback", "finally"}]
      /\ wjob \in [Workers -> [id : Jobs \cup {0}, attempts : Nat]]
      /\ chained \in [Jobs -> Nat]
  BY DEF SInv, TypeOK
<1> USE DEF submitVars, firedVars, Goto, Holding, At
<1>1. CASE Reserve(w)
  <2>1. PICK j \in Jobs :
            /\ job[j].status = "pending"
            /\ job' = SetRunning(job, {j})
            /\ wjob' = [wjob EXCEPT ![w] = [id |-> j, attempts |-> job[j].attempts + 1]]
    BY <1>1 DEF Reserve, FirstCandidates, Candidates
  <2>1a. j \in Jobs /\ job[j].status = "pending"
    BY <2>1
  <2>2. /\ wpc' = [wpc EXCEPT ![w] = "execute"] /\ UNCHANGED <<submit, chained>>
    BY <1>1 DEF Reserve
  <2>3. \A x \in Jobs : job'[x].status = IF x = j THEN "running" ELSE job[x].status
    BY <1>0, <2>1, StatusReserved
  <2>4. wjob'[w].id = j /\ \A v \in Workers \ {w} : wjob'[v] = wjob[v] /\ wpc'[v] = wpc[v]
    BY <1>0, <2>1, <2>2
  <2>5. wpc'[w] = "execute"
    BY <1>0, <2>2
  <2>6. \A i \in Jobs : submit'[i] = "new" => job'[i].status = "absent"
    BY <2>1a, <2>2, <2>3, <2>4, <2>5 DEF JobsHeld
  <2>7. \A v \in Workers :
            /\ wpc'[v] # "idle" => wjob'[v].id \in Jobs
            /\ wpc'[v] \in Holding => job'[wjob'[v].id].status = "running"
            /\ wpc'[v] = "chain" => job'[wjob'[v].id].status = "done" /\ chained'[wjob'[v].id] = 0
    <3>1. ASSUME NEW v \in Workers, v # w
          PROVE  /\ wpc'[v] # "idle" => wjob'[v].id \in Jobs
                 /\ wpc'[v] \in Holding => job'[wjob'[v].id].status = "running"
                 /\ wpc'[v] = "chain" => job'[wjob'[v].id].status = "done" /\ chained'[wjob'[v].id] = 0
      BY <2>1a, <2>2, <2>3, <2>4, <2>5, <3>1 DEF JobsHeld
    <3> QED BY <2>1a, <2>2, <2>3, <2>4, <2>5, <3>1
  <2>8. \A u, v \in Workers :
            /\ wpc'[u] \in Holding /\ wpc'[v] \in Holding /\ u # v => wjob'[u].id # wjob'[v].id
            /\ wpc'[u] = "chain" /\ wpc'[v] = "chain" /\ u # v => wjob'[u].id # wjob'[v].id
    BY <2>1a, <2>2, <2>3, <2>4, <2>5 DEF JobsHeld
  <2>9. \A i \in Jobs : chained'[i] > 0 => chained'[i] = 1 /\ job'[i].status = "done"
    BY <2>1a, <2>2, <2>3, <2>4, <2>5 DEF JobsHeld
  <2>10. \A i \in Jobs : job[i].status = "done" => job'[i].status = "done"
    BY <2>1a, <2>2, <2>3, <2>4, <2>5
  <2> QED BY <2>6, <2>7, <2>8, <2>9, <2>10 DEF JobsHeld
<1>2. CASE Retry(w) \/ Fail(w)
  <2>0. PICK i : i = wjob[w].id
    OBVIOUS
  <2>1. wpc[w] = "execute" /\ wpc' = [wpc EXCEPT ![w] = "idle"]
        /\ UNCHANGED <<submit, wjob, chained>>
    BY <1>2 DEF Retry, Fail
  <2>2. i \in Jobs /\ job[i].status = "running"
    BY <2>0, <2>1 DEF JobsHeld
  <2>3. PICK s \in {"pending", "failed"} :
            \A x \in Jobs : job'[x].status = IF x = i THEN s ELSE job[x].status
    <3>1. CASE Retry(w)
      <4>1. job' = [job EXCEPT ![i].status = "pending", ![i].due = FALSE]
        BY <2>0, <2>2, <3>1 DEF Retry, PutBackAt, Rows
      <4>2. \A x \in Jobs : job'[x].status = IF x = i THEN "pending" ELSE job[x].status
        BY <1>0, <2>2, <4>1 DEF Row
      <4> QED BY <4>2
    <3>2. CASE Fail(w)
      <4>1. job' = SetFailed(job, i)
        BY <2>0, <3>2 DEF Fail
      <4>2. \A x \in Jobs : job'[x].status = IF x = i THEN "failed" ELSE job[x].status
        BY <1>0, <2>2, <4>1 DEF SetFailed, Rows, Row
      <4> QED BY <4>2
    <3> QED BY <1>2, <3>1, <3>2
  <2>4. wpc'[w] = "idle" /\ \A v \in Workers \ {w} : wpc'[v] = wpc[v]
    BY <1>0, <2>1
  <2>6. \A j \in Jobs : submit'[j] = "new" => job'[j].status = "absent"
    BY <2>0, <2>1, <2>2, <2>3, <2>4 DEF JobsHeld
  <2>7. \A v \in Workers :
            /\ wpc'[v] # "idle" => wjob'[v].id \in Jobs
            /\ wpc'[v] \in Holding => job'[wjob'[v].id].status = "running"
            /\ wpc'[v] = "chain" => job'[wjob'[v].id].status = "done" /\ chained'[wjob'[v].id] = 0
    <3>1. ASSUME NEW v \in Workers, v # w
          PROVE  /\ wpc'[v] # "idle" => wjob'[v].id \in Jobs
                 /\ wpc'[v] \in Holding => job'[wjob'[v].id].status = "running"
                 /\ wpc'[v] = "chain" => job'[wjob'[v].id].status = "done" /\ chained'[wjob'[v].id] = 0
      BY <2>0, <2>1, <2>2, <2>3, <2>4, <3>1 DEF JobsHeld
    <3> QED BY <2>0, <2>1, <2>2, <2>3, <2>4, <3>1
  <2>8. \A u, v \in Workers :
            /\ wpc'[u] \in Holding /\ wpc'[v] \in Holding /\ u # v => wjob'[u].id # wjob'[v].id
            /\ wpc'[u] = "chain" /\ wpc'[v] = "chain" /\ u # v => wjob'[u].id # wjob'[v].id
    BY <2>0, <2>1, <2>2, <2>3, <2>4 DEF JobsHeld
  <2>9. \A j \in Jobs : chained'[j] > 0 => chained'[j] = 1 /\ job'[j].status = "done"
    BY <2>0, <2>1, <2>2, <2>3, <2>4 DEF JobsHeld
  <2>10. \A j \in Jobs : job[j].status = "done" => job'[j].status = "done"
    BY <2>0, <2>1, <2>2, <2>3, <2>4
  <2> QED BY <2>6, <2>7, <2>8, <2>9, <2>10 DEF JobsHeld
<1>3. CASE Succeed(w)
  <2>1. /\ wpc[w] = "execute" /\ wpc' = [wpc EXCEPT ![w] = "markdone"]
        /\ UNCHANGED <<submit, wjob, chained, job>>
    BY <1>3 DEF Succeed
  <2> QED BY <1>0, <2>1 DEF JobsHeld
<1>4. CASE MarkDone(w)
  <2>0. PICK i : i = wjob[w].id
    OBVIOUS
  <2>1. PICK pc \in {"idle", "chain", "lookup"} : wpc' = [wpc EXCEPT ![w] = pc]
    BY <1>4 DEF MarkDone
  <2>2. /\ wpc[w] = "markdone" /\ job' = SetDone(job, {i})
        /\ UNCHANGED <<submit, wjob, chained>>
    BY <2>0, <1>4 DEF MarkDone
  <2>3. i \in Jobs /\ job[i].status = "running" /\ chained[i] = 0
    BY <1>0, <2>0, <2>2 DEF JobsHeld
  <2>4. \A x \in Jobs : job'[x].status = IF x = i THEN "done" ELSE job[x].status
    BY <1>0, <2>2, <2>3 DEF SetDone, Rows, Row
  <2>5. wpc'[w] = pc /\ \A v \in Workers \ {w} : wpc'[v] = wpc[v]
    BY <1>0, <2>1
  <2>6. \A j \in Jobs : submit'[j] = "new" => job'[j].status = "absent"
    BY <2>0, <2>2, <2>3, <2>4, <2>5 DEF JobsHeld
  <2>7. \A v \in Workers :
            /\ wpc'[v] # "idle" => wjob'[v].id \in Jobs
            /\ wpc'[v] \in Holding => job'[wjob'[v].id].status = "running"
            /\ wpc'[v] = "chain" => job'[wjob'[v].id].status = "done" /\ chained'[wjob'[v].id] = 0
    <3>1. ASSUME NEW v \in Workers, v # w
          PROVE  /\ wpc'[v] # "idle" => wjob'[v].id \in Jobs
                 /\ wpc'[v] \in Holding => job'[wjob'[v].id].status = "running"
                 /\ wpc'[v] = "chain" => job'[wjob'[v].id].status = "done" /\ chained'[wjob'[v].id] = 0
      BY <2>0, <2>2, <2>3, <2>4, <2>5, <3>1 DEF JobsHeld
    <3> QED BY <2>0, <2>2, <2>3, <2>4, <2>5, <3>1
  <2>8. \A u, v \in Workers :
            /\ wpc'[u] \in Holding /\ wpc'[v] \in Holding /\ u # v => wjob'[u].id # wjob'[v].id
            /\ wpc'[u] = "chain" /\ wpc'[v] = "chain" /\ u # v => wjob'[u].id # wjob'[v].id
    BY <2>0, <2>2, <2>3, <2>4, <2>5 DEF JobsHeld
  <2>9. \A j \in Jobs : chained'[j] > 0 => chained'[j] = 1 /\ job'[j].status = "done"
    BY <2>0, <2>2, <2>3, <2>4, <2>5 DEF JobsHeld
  <2>10. \A j \in Jobs : job[j].status = "done" => job'[j].status = "done"
    BY <2>0, <2>2, <2>3, <2>4, <2>5
  <2> QED BY <2>6, <2>7, <2>8, <2>9, <2>10 DEF JobsHeld
<1>5. CASE DispatchChained(w)
  <2> DEFINE i == wjob[w].id
  <2>1. /\ wpc[w] = "chain" /\ wpc' = [wpc EXCEPT ![w] = "lookup"]
        /\ chained' = [chained EXCEPT ![i] = @ + 1]
        /\ UNCHANGED <<submit, wjob, job>>
    BY <1>5 DEF DispatchChained
  <2>2. i \in Jobs /\ job[i].status = "done" /\ chained[i] = 0
    BY <2>1 DEF JobsHeld
  <2>3. chained'[i] = 1 /\ \A x \in Jobs \ {i} : chained'[x] = chained[x]
    BY <1>0, <2>1, <2>2
  <2>4. wpc'[w] = "lookup" /\ \A v \in Workers \ {w} : wpc'[v] = wpc[v]
    BY <1>0, <2>1
  <2> QED BY <1>0, <2>1, <2>2, <2>3, <2>4 DEF JobsHeld
<1>6. CASE \/ LookupBatch(w) \/ CountTotal(w) \/ CountDone(w) \/ CountFailed(w)
           \/ LeaveRunning(w) \/ EndBatch(w) \/ ThenOrCatch(w) \/ Finally(w)
  <2>1. UNCHANGED <<submit, wjob, chained, job>>
    BY <1>6 DEF LookupBatch, CountTotal, CountDone, CountFailed, LeaveRunning, EndBatch,
       ThenOrCatch, Finally
  <2>2. wpc[w] # "idle" /\ \E pc \in {"idle", "total", "done", "failed", "decide",
                                        "callback", "finally"} : wpc' = [wpc EXCEPT ![w] = pc]
    BY <1>6 DEF LookupBatch, CountTotal, CountDone, CountFailed, LeaveRunning, EndBatch,
       ThenOrCatch, Finally
  <2> QED BY <1>0, <2>1, <2>2 DEF JobsHeld
<1> QED BY <1>1, <1>2, <1>3, <1>4, <1>5, <1>6 DEF WorkerStep

LEMMA JobsStep ==
    ASSUME SInv, JobsHeld, [Next]_vars
    PROVE  JobsHeld' /\ \A j \in Jobs : job[j].status = "done" => job'[j].status = "done"
<1> DEFINE Goal == JobsHeld' /\ \A j \in Jobs : job[j].status = "done" => job'[j].status = "done"
<1>0. /\ job \in [Jobs -> Row] /\ submit \in [Jobs -> {"new", "inserted", "linked", "closed"}]
      /\ chained \in [Jobs -> Nat]
  BY DEF SInv, TypeOK
<1> USE DEF submitVars, workerVars, firedVars
<1>1. ASSUME NEW w \in Workers, WorkerStep(w) PROVE Goal
  BY <1>1, HeldJobStep
<1>2. ASSUME NEW j \in Jobs, Dispatch(j) PROVE Goal
  <2>1. /\ submit[j] = "new" /\ submit' = [submit EXCEPT ![j] = "inserted"]
        /\ job' = [job EXCEPT ![j] = [status |-> "pending", attempts |-> 0, due |-> TRUE]]
        /\ UNCHANGED <<wpc, wjob, chained>>
    BY <1>2 DEF Dispatch, InsertJob
  <2>2. job[j].status = "absent"
    BY <2>1 DEF JobsHeld
  <2>3. \A x \in Jobs \ {j} : job'[x] = job[x] /\ submit'[x] = submit[x]
    BY <1>0, <2>1
  <2>4. submit'[j] = "inserted"
    BY <1>0, <2>1
  <2> QED BY <1>0, <2>1, <2>2, <2>3, <2>4 DEF JobsHeld, Holding
<1>3. ASSUME NEW j \in Jobs, LinkJob(j) \/ CountJob(j) \/ FinishDispatch(j) PROVE Goal
  <2>1. UNCHANGED <<job, wpc, wjob, chained>>
        /\ \E s \in {"linked", "closed"} : submit' = [submit EXCEPT ![j] = s]
    BY <1>3 DEF LinkJob, CountJob, FinishDispatch
  <2>2. \A x \in Jobs : submit'[x] = "new" => submit[x] = "new"
    BY <1>0, <2>1
  <2> QED BY <2>1, <2>2 DEF JobsHeld
<1>4. ASSUME NEW j \in Jobs, Cancel(j) \/ BecomeDue(j) PROVE Goal
  <2>1. UNCHANGED <<submit, wpc, wjob, chained>> /\ job[j].status = "pending"
    BY <1>4 DEF Cancel, BecomeDue
  <2>2. /\ job'[j].status \in {"pending", "cancelled"}
        /\ \A x \in Jobs \ {j} : job'[x] = job[x]
    BY <1>0, <1>4 DEF Cancel, BecomeDue, CancelIfPending, Row
  <2> QED BY <2>1, <2>2 DEF JobsHeld, Holding
<1>5. CASE CrashRestart
  <2>1. /\ \A x \in Jobs : job'[x].status = IF job[x].status = "running" THEN "pending"
                                            ELSE job[x].status
        /\ \A w \in Workers : wpc'[w] = "idle"
        /\ \A x \in Jobs : submit'[x] = "closed"
        /\ UNCHANGED chained
    BY <1>0, <1>5 DEF CrashRestart, PutBackIfRunning, Row
  <2> QED BY <2>1 DEF JobsHeld, Holding
<1>6. CASE CreateBatch \/ UNCHANGED vars
  BY <1>6 DEF CreateBatch, vars, JobsHeld
<1> QED BY <1>1, <1>2, <1>3, <1>4, <1>5, <1>6 DEF Next, SubmitStep

(* Only the UPDATE that ends the batch makes a caller, and no batch ends   *)
(* twice.                                                                  *)
LEMMA CallerStep ==
    ASSUME SInv, OneCaller, CallbacksOnce, [Next]_vars PROVE OneCaller' /\ CallbacksOnce'
<1> DEFINE Goal == OneCaller' /\ CallbacksOnce'
<1>0. /\ batch \in [status : {"none", "pending", "running", "done", "failed"},
                    total  : 0..Cardinality(inBatch)]
      /\ wpc \in [Workers -> {"idle", "execute", "markdone", "chain", "lookup", "total",
                              "done", "failed", "decide", "callback", "finally"}]
      /\ fired \in [Callbacks -> Nat]
  BY DEF SInv, TypeOK
<1> USE DEF submitVars, workerVars, firedVars, Calling, BatchEnd, At, Goto
<1>1. ASSUME NEW w \in Workers, WorkerStep(w) PROVE Goal
  <2>1. CASE \/ Reserve(w) \/ Retry(w) \/ Fail(w) \/ Succeed(w) \/ MarkDone(w)
             \/ DispatchChained(w) \/ LookupBatch(w) \/ CountTotal(w) \/ CountDone(w)
             \/ CountFailed(w)
    <3>1. UNCHANGED <<batch, fired>>
          /\ \E pc \in {"idle", "execute", "markdone", "chain", "lookup", "total",
                         "done", "failed", "decide"} : wpc' = [wpc EXCEPT ![w] = pc]
      BY <2>1 DEF Reserve, Retry, Fail, Succeed, MarkDone, DispatchChained, LookupBatch,
         CountTotal, CountDone, CountFailed
    <3> QED BY <1>0, <3>1 DEF OneCaller, CallbacksOnce
  <2>2. CASE LeaveRunning(w)
    <3>1. UNCHANGED fired /\ wpc' = [wpc EXCEPT ![w] = "idle"]
          /\ (batch'.status \in BatchEnd <=> batch.status \in BatchEnd)
      BY <1>0, <2>2 DEF LeaveRunning
    <3> QED BY <1>0, <3>1 DEF OneCaller, CallbacksOnce
  <2>3. CASE EndBatch(w)
    <3>1. CASE batch.status \in BatchEnd
      <4>1. UNCHANGED <<fired, batch>> /\ wpc' = [wpc EXCEPT ![w] = "idle"]
        BY <2>3, <3>1 DEF EndBatch
      <4> QED BY <1>0, <4>1 DEF OneCaller, CallbacksOnce
    <3>2. CASE batch.status \notin BatchEnd
      <4>1. UNCHANGED fired /\ wpc' = [wpc EXCEPT ![w] = "callback"]
            /\ batch'.status \in BatchEnd
        BY <1>0, <2>3, <3>2 DEF EndBatch
      <4>2. /\ \A v \in Workers : wpc[v] \notin Calling
            /\ \A c \in Callbacks : fired[c] = 0
        BY <3>2 DEF OneCaller
      <4> QED BY <1>0, <4>1, <4>2 DEF OneCaller, CallbacksOnce, Callbacks
    <3> QED BY <3>1, <3>2
  <2>4. CASE ThenOrCatch(w)
    <3>1. /\ wpc[w] = "callback" /\ wpc' = [wpc EXCEPT ![w] = "finally"]
          /\ UNCHANGED batch
      BY <2>4 DEF ThenOrCatch
    <3>2. PICK c \in {"then", "catch"} : fired' = [fired EXCEPT ![c] = @ + 1]
      BY <2>4 DEF ThenOrCatch, Fire
    <3>3. /\ batch.status \in BatchEnd
          /\ fired["then"] = 0 /\ fired["catch"] = 0 /\ fired["finally"] = 0
          /\ \A v \in Workers \ {w} : wpc[v] \notin Calling
      BY <3>1 DEF OneCaller
    <3>4. /\ fired'["finally"] = 0
          /\ fired'[c] = 1
          /\ \A d \in {"then", "catch"} \ {c} : fired'[d] = 0
      BY <1>0, <3>2, <3>3 DEF Callbacks
    <3>5. OneCaller'
      BY <1>0, <3>1, <3>3, <3>4 DEF OneCaller
    <3> QED BY <3>4, <3>5 DEF CallbacksOnce, Callbacks
  <2>5. CASE Finally(w)
    <3>1. /\ wpc[w] = "finally" /\ wpc' = [wpc EXCEPT ![w] = "idle"]
          /\ fired' = [fired EXCEPT !["finally"] = @ + 1] /\ UNCHANGED batch
      BY <2>5 DEF Finally, Fire
    <3>2. /\ batch.status \in BatchEnd /\ fired["finally"] = 0
          /\ \A v \in Workers \ {w} : wpc[v] \notin Calling
      BY <3>1 DEF OneCaller
    <3>3. /\ fired'["finally"] = 1
          /\ fired'["then"] = fired["then"] /\ fired'["catch"] = fired["catch"]
      BY <1>0, <3>1, <3>2 DEF Callbacks
    <3> QED BY <1>0, <3>1, <3>2, <3>3 DEF OneCaller, CallbacksOnce, Callbacks
  <2> QED BY <1>1, <2>1, <2>2, <2>3, <2>4, <2>5 DEF WorkerStep
<1>2. CASE CreateBatch
  <2>1. batch.status \notin BatchEnd /\ batch'.status \notin BatchEnd
        /\ UNCHANGED <<wpc, fired>>
    BY <1>0, <1>2 DEF CreateBatch
  <2> QED BY <2>1 DEF OneCaller, CallbacksOnce
<1>3. ASSUME NEW j \in Jobs, SubmitStep(j) \/ Cancel(j) \/ BecomeDue(j) PROVE Goal
  <2>1. UNCHANGED <<wpc, fired>> /\ batch'.status = batch.status
    BY <1>0, <1>3 DEF SubmitStep, Dispatch, LinkJob, CountJob, FinishDispatch, Cancel, BecomeDue
  <2> QED BY <2>1 DEF OneCaller, CallbacksOnce
<1>4. CASE CrashRestart
  <2>1. UNCHANGED <<batch, fired>> /\ \A w \in Workers : wpc'[w] = "idle"
    BY <1>4 DEF CrashRestart
  <2> QED BY <2>1 DEF OneCaller, CallbacksOnce
<1>5. CASE UNCHANGED vars
  BY <1>5 DEF vars, OneCaller, CallbacksOnce
<1> QED BY <1>1, <1>2, <1>3, <1>4, <1>5 DEF Next

(* More and more of a batch is done.                                       *)
LEMMA DoneGrows ==
    ASSUME SInv, SInv', Whole, Whole',
           \A j \in Jobs : job[j].status = "done" => job'[j].status = "done"
    PROVE  /\ inBatch' = inBatch
           /\ InBatchWith({"done"}) <= InBatchWith({"done"})'
           /\ InBatchWith({"done"}) \in Nat /\ InBatchWith({"done"})' \in Nat
           /\ AllDone => AllDone'
<1> DEFINE D == {j \in inBatch : job[j].status \in {"done"}}
           E == {j \in inBatch' : job'[j].status \in {"done"}}
<1>1. inBatch' = inBatch /\ inBatch \subseteq BatchJobs /\ BatchJobs \subseteq Jobs
  BY BatchAssumption DEF SInv, TypeOK, Whole
<1>2. D \subseteq E /\ E \subseteq inBatch
  BY <1>1
<1>3. /\ IsFiniteSet(D) /\ Cardinality(D) \in Nat
      /\ IsFiniteSet(E) /\ Cardinality(E) \in Nat
  BY <1>1, <1>2, FiniteBatch
<1>4. Cardinality(D) <= Cardinality(E)
  BY <1>2, <1>3, FS_Subset
<1>5. InBatchWith({"done"}) = Cardinality(D) /\ InBatchWith({"done"})' = Cardinality(E)
  BY DEF InBatchWith
<1>6. AllDone => AllDone'
  BY <1>1 DEF AllDone
<1> QED BY <1>1, <1>3, <1>4, <1>5, <1>6

(* If as many are done as there are, all are.                              *)
LEMMA CountedDone ==
    ASSUME SInv, Whole, InBatchWith({"done"}) >= Cardinality(inBatch) PROVE AllDone
<1> DEFINE D == {j \in inBatch : job[j].status \in {"done"}}
<1>1. inBatch = BatchJobs
  BY DEF SInv, TypeOK, Whole
<1>2. D \subseteq inBatch /\ IsFiniteSet(inBatch) /\ IsFiniteSet(D)
  BY <1>1, FiniteBatch
<1>3. Cardinality(D) >= Cardinality(inBatch) /\ Cardinality(D) \in Nat
      /\ Cardinality(inBatch) \in Nat
  BY <1>2, FS_CardinalityType DEF InBatchWith
<1>4. D = inBatch
  BY <1>2, <1>3, FS_Subset
<1> QED BY <1>1, <1>4 DEF AllDone

LEMMA CountsStep ==
    ASSUME SInv, SInv', JobsHeld, CountsRight, ThenMeansAllDone, [Next]_vars
    PROVE  CountsRight' /\ ThenMeansAllDone'
<1> DEFINE Goal == CountsRight' /\ ThenMeansAllDone'
<1>0. /\ wpc \in [Workers -> {"idle", "execute", "markdone", "chain", "lookup", "total",
                              "done", "failed", "decide", "callback", "finally"}]
      /\ count \in [Workers -> [total : Nat, done : Nat, failed : Nat]]
      /\ fired \in [Callbacks -> Nat]
      /\ submit \in [Jobs -> {"new", "inserted", "linked", "closed"}]
  BY DEF SInv, TypeOK
<1>01. \A j \in Jobs : job[j].status = "done" => job'[j].status = "done"
  BY JobsStep
<1>02. ThenMeansAllDone <=> (Whole /\ fired["then"] > 0 => AllDone)
  BY DEF ThenMeansAllDone, Whole, AllDone
<1>03. ThenMeansAllDone' <=> (Whole' /\ fired'["then"] > 0 => AllDone')
  BY DEF ThenMeansAllDone, Whole, AllDone
<1> USE DEF submitVars, workerVars, firedVars, At, Goto
<1>1. ASSUME NEW w \in Workers, WorkerStep(w) PROVE Goal
  <2>1. UNCHANGED <<inBatch, submit, env>>
    BY <1>1 DEF WorkerStep, Reserve, Retry, Fail, Succeed, MarkDone, DispatchChained,
       LookupBatch, CountTotal, CountDone, CountFailed, LeaveRunning, EndBatch, ThenOrCatch,
       Finally
  <2>2. wpc[w] = "idle" => Reserve(w)
    BY <1>1 DEF WorkerStep, Reserve, Retry, Fail, Succeed, MarkDone, DispatchChained,
       LookupBatch, CountTotal, CountDone, CountFailed, LeaveRunning, EndBatch, ThenOrCatch,
       Finally
  <2>3. "early" \notin env => \A j \in Jobs : submit[j] = "closed"
    <3>1. CASE Reserve(w)
      BY <3>1 DEF Reserve, WorkersThere
    <3>2. CASE wpc[w] # "idle"
      BY <3>2 DEF CountsRight
    <3> QED BY <2>2, <3>1, <3>2
  <2>4. Whole' = Whole
    BY <2>1 DEF Whole
  <2>5. Whole => /\ InBatchWith({"done"}) <= InBatchWith({"done"})'
                 /\ InBatchWith({"done"}) \in Nat /\ InBatchWith({"done"})' \in Nat
                 /\ AllDone => AllDone'
    BY <1>01, <2>4, DoneGrows
  <2>6. CASE \/ Reserve(w) \/ Retry(w) \/ Fail(w) \/ Succeed(w) \/ MarkDone(w)
             \/ DispatchChained(w) \/ LookupBatch(w) \/ LeaveRunning(w)
    <3>1. UNCHANGED <<count, fired>>
          /\ \E pc \in {"idle", "execute", "markdone", "chain", "lookup", "total"} :
                wpc' = [wpc EXCEPT ![w] = pc]
      BY <2>6 DEF Reserve, Retry, Fail, Succeed, MarkDone, DispatchChained, LookupBatch,
         LeaveRunning
    <3> QED BY <1>0, <1>02, <1>03, <2>1, <2>3, <2>4, <2>5, <3>1 DEF CountsRight
  <2>7. CASE CountTotal(w)
    <3>1. /\ count' = [count EXCEPT ![w].total = Cardinality(inBatch)]
          /\ wpc' = [wpc EXCEPT ![w] = "done"] /\ UNCHANGED fired
      BY <2>7 DEF CountTotal
    <3>2. /\ count'[w].total = Cardinality(inBatch) /\ wpc'[w] = "done"
          /\ \A v \in Workers \ {w} : count'[v] = count[v] /\ wpc'[v] = wpc[v]
      BY <1>0, <3>1
    <3> QED BY <1>0, <1>02, <1>03, <2>1, <2>3, <2>4, <2>5, <3>1, <3>2 DEF CountsRight
  <2>8. CASE CountDone(w)
    <3>1. /\ count' = [count EXCEPT ![w].done = InBatchWith({"done"})] /\ wpc[w] = "done"
          /\ wpc' = [wpc EXCEPT ![w] = "failed"] /\ UNCHANGED fired
      BY <2>8 DEF CountDone
    <3>2. /\ count'[w].done = InBatchWith({"done"}) /\ count'[w].total = count[w].total
          /\ wpc'[w] = "failed"
          /\ \A v \in Workers \ {w} : count'[v] = count[v] /\ wpc'[v] = wpc[v]
      BY <1>0, <3>1
    <3> QED BY <1>0, <1>02, <1>03, <2>1, <2>3, <2>4, <2>5, <3>1, <3>2 DEF CountsRight
  <2>9. CASE CountFailed(w)
    <3>1. /\ count' = [count EXCEPT ![w].failed = InBatchWith({"failed", "cancelled"})]
          /\ wpc' = [wpc EXCEPT ![w] = "decide"] /\ wpc[w] = "failed" /\ UNCHANGED fired
      BY <2>9 DEF CountFailed
    <3>2. /\ count'[w].done = count[w].done /\ count'[w].total = count[w].total
          /\ wpc'[w] = "decide"
          /\ \A v \in Workers \ {w} : count'[v] = count[v] /\ wpc'[v] = wpc[v]
      BY <1>0, <3>1
    <3> QED BY <1>0, <1>02, <1>03, <2>1, <2>3, <2>4, <2>5, <3>1, <3>2 DEF CountsRight
  <2>10. CASE EndBatch(w)
    <3>1. UNCHANGED <<count, fired>> /\ wpc[w] = "decide" /\ AllFinished(w)
          /\ \E pc \in {"idle", "callback"} : wpc' = [wpc EXCEPT ![w] = pc]
      BY <2>10 DEF EndBatch
    <3>2. Whole /\ count[w].failed = 0 => AllDone
      <4>1. SUFFICES ASSUME Whole, count[w].failed = 0 PROVE AllDone
        OBVIOUS
      <4>2. count[w].done >= Cardinality(inBatch) /\ count[w].done <= InBatchWith({"done"})
        BY <1>0, <3>1, <4>1 DEF CountsRight, AllFinished
      <4>3. count[w].done \in Nat /\ InBatchWith({"done"}) \in Nat /\ Cardinality(inBatch) \in Nat
        BY <1>0, CountsType DEF SInv
      <4> QED BY <4>1, <4>2, <4>3, CountedDone
    <3> QED BY <1>0, <1>02, <1>03, <2>1, <2>3, <2>4, <2>5, <3>1, <3>2 DEF CountsRight
  <2>11. CASE ThenOrCatch(w)
    <3>1. UNCHANGED count /\ wpc[w] = "callback" /\ wpc' = [wpc EXCEPT ![w] = "finally"]
      BY <2>11 DEF ThenOrCatch
    <3>2. fired'["then"] = fired["then"] \/ count[w].failed = 0
      BY <1>0, <2>11 DEF ThenOrCatch, Fire, Callbacks
    <3> QED BY <1>0, <1>02, <1>03, <2>1, <2>3, <2>4, <2>5, <3>1, <3>2 DEF CountsRight
  <2>12. CASE Finally(w)
    <3>1. UNCHANGED count /\ wpc' = [wpc EXCEPT ![w] = "idle"] /\ fired'["then"] = fired["then"]
      BY <1>0, <2>12 DEF Finally, Fire, Callbacks
    <3> QED BY <1>0, <1>02, <1>03, <2>1, <2>3, <2>4, <2>5, <3>1 DEF CountsRight
  <2> QED BY <1>1, <2>6, <2>7, <2>8, <2>9, <2>10, <2>11, <2>12 DEF WorkerStep
<1>2. ASSUME NEW j \in Jobs, SubmitStep(j) PROVE Goal
  <2>1. UNCHANGED <<wpc, count, fired, env>> /\ submit[j] # "closed"
    BY <1>2 DEF SubmitStep, Dispatch, LinkJob, CountJob, FinishDispatch
  <2> QED BY <1>0, <1>03, <2>1 DEF CountsRight, Whole
<1>3. CASE CreateBatch \/ (\E j \in Jobs : Cancel(j) \/ BecomeDue(j)) \/ UNCHANGED vars
  <2>1. UNCHANGED <<wpc, count, fired, env, inBatch, submit>>
    BY <1>3 DEF CreateBatch, Cancel, BecomeDue, vars
  <2>2. Whole' = Whole
    BY <2>1 DEF Whole
  <2>3. Whole => /\ InBatchWith({"done"}) <= InBatchWith({"done"})'
                 /\ InBatchWith({"done"}) \in Nat /\ InBatchWith({"done"})' \in Nat
                 /\ AllDone => AllDone'
    BY <1>01, <2>2, DoneGrows
  <2> QED BY <1>0, <1>02, <1>03, <2>1, <2>2, <2>3 DEF CountsRight
<1>4. CASE CrashRestart
  <2>1. /\ \A w \in Workers : wpc'[w] = "idle"
        /\ \A j \in Jobs : submit'[j] = "closed"
        /\ UNCHANGED <<fired, inBatch>>
        /\ "early" \in env' <=> "early" \in env
    BY <1>4 DEF CrashRestart
  <2>2. Whole' => Whole
    BY <2>1 DEF Whole
  <2>3. Whole => (AllDone => AllDone')
    BY <1>01, BatchAssumption DEF AllDone
  <2> QED BY <1>02, <1>03, <2>1, <2>2, <2>3 DEF CountsRight
<1> QED BY <1>1, <1>2, <1>3, <1>4 DEF Next

-----------------------------------------------------------------------------
IInv ==
    /\ SInv
    /\ JobsHeld
    /\ OneCaller /\ CallbacksOnce
    /\ CountsRight /\ ThenMeansAllDone

LEMMA InitIInv == Init => IInv
<1> SUFFICES ASSUME Init PROVE IInv
  OBVIOUS
<1>1. SInv
  BY InitSInv
<1>2. JobsHeld
  BY DEF Init, JobsHeld, EmptyTable, NoRow, Holding
<1>3. OneCaller /\ CallbacksOnce
  BY DEF Init, OneCaller, CallbacksOnce, Callbacks, Calling, BatchEnd
<1>4. CountsRight /\ ThenMeansAllDone
  BY DEF Init, CountsRight, ThenMeansAllDone, Callbacks
<1> QED BY <1>1, <1>2, <1>3, <1>4 DEF IInv

LEMMA Invariance == Spec => []IInv
<1>1. IInv /\ [Next]_vars => IInv'
  BY SInvStep, JobsStep, CallerStep, CountsStep DEF IInv
<1> QED BY InitIInv, <1>1, PTL DEF Spec

(* However many workers find the batch finished, whatever fails, is        *)
(* cancelled or crashes, callbacks and chained jobs are dispatched once.   *)
THEOREM FollowedOnce == Spec => []FollowUpsOnce
<1>1. IInv => FollowUpsOnce
  BY DEF IInv, SInv, FollowUpsOnce, JobsHeld, ChainOnce, TypeOK
<1> QED BY Invariance, <1>1, PTL

(* then_job of a batch that was submitted as a whole before its execution  *)
(* is dispatched only when all of it is done.                              *)
THEOREM ThenAfterAll == Spec => []ThenMeansAllDone
<1>1. IInv => ThenMeansAllDone
  BY DEF IInv
<1> QED BY Invariance, <1>1, PTL
=============================================================================
