-------------------------- MODULE WsDispatch_proofs --------------------------
(***************************************************************************)
(* Theorems about WsDispatch for every number of jobs, queues and          *)
(* connections and every choice of Env. The first half proves the types    *)
(* and the shape of what a handler and its worker tell each other; the     *)
(* second half that each running job has at most one owner, and from that  *)
(* single ownership, finality of success, the refinement of JobLifecycle   *)
(* and the agreement of table and dead-letter queue.                       *)
(***************************************************************************)
EXTENDS WsDispatchRefinement, TLAPS, SequenceTheorems, FiniteSetTheorems

(* What goes on between a handler and its remote worker: a free worker has *)
(* nothing waiting, a message names the current job, a result exists only  *)
(* while one is awaited or the handler is leaving, and always names a job. *)
HandlerShape(w) ==
    /\ worker[w].idle =>
        worker[w].send = 0 /\ worker[w].currentJob = Nil /\ hpc[w] # "inner"
    /\ hpc[w] = "inner" => worker[w].send = 0
    /\ worker[w].send # 0 => worker[w].send = worker[w].currentJob.id
    /\ client[w] # 0 \/ worker[w].result # NoResult =>
        hpc[w] \in {"inner", "resched", "exit"}
    /\ client[w] # 0 =>
        worker[w].result = NoResult /\ client[w] = worker[w].currentJob.id
    /\ worker[w].result # NoResult => worker[w].result.job \in Jobs
    /\ hpc[w] \in {"report", "lookup"} => hresult[w].job \in Jobs

(* The inductive invariant. TypeOK is not inductive alone: a handler that  *)
(* looks up or finishes the job of a result must find a job there.         *)
IInv == TypeOK /\ \A w \in Workers : HandlerShape(w)

-----------------------------------------------------------------------------
LEMMA TypeInit == Init => TypeOK
  BY JobsAssumption DEF Init, TypeOK, EmptyTable, NoRow, Row, Status, FreshWorker,
     WsWorker, NoResult, Result, Nil, JobRef, JobId, HandlerPc, DispatcherPc

(* The statements of JobTable keep a table a table: those on one known row, *)
(* those on a set of rows, and those on whatever row the id may name.       *)
LEMMA RowStatementTypes ==
    ASSUME NEW t \in [Jobs -> Row], NEW j \in Jobs, NEW due \in BOOLEAN
    PROVE  /\ InsertJob(t, j, due) \in [Jobs -> Row]
           /\ CancelIfPending(t, j) \in [Jobs -> Row]
  BY DEF InsertJob, CancelIfPending, Row, Status

LEMMA SetStatementTypes ==
    ASSUME NEW t \in [Jobs -> Row], NEW S
    PROVE  /\ SetRunning(t, S) \in [Jobs -> Row]
           /\ PutBackIfRunning(t, S) \in [Jobs -> Row]
           /\ SetDone(t, S) \in [Jobs -> Row]
<1>1. SetRunning(t, S) \in [Jobs -> Row]
  <2>1. ASSUME NEW x \in Jobs
        PROVE  [t[x] EXCEPT !.status = "running", !.attempts = @ + 1] \in Row
    <3>1. t[x] \in Row /\ t[x].attempts + 1 \in Nat
      BY DEF Row
    <3> QED BY <3>1 DEF Row, Status
  <2> QED BY <2>1 DEF SetRunning
<1>2. PutBackIfRunning(t, S) \in [Jobs -> Row]
  BY DEF PutBackIfRunning, Row, Status
<1>3. SetDone(t, S) \in [Jobs -> Row]
  BY DEF SetDone, Row, Status
<1> QED BY <1>1, <1>2, <1>3

LEMMA IdStatementTypes ==
    ASSUME NEW t \in [Jobs -> Row], NEW id, NEW due \in BOOLEAN
    PROVE  /\ PutBack(t, id) \in [Jobs -> Row]
           /\ PutBackAt(t, id, due) \in [Jobs -> Row]
           /\ SetFailed(t, id) \in [Jobs -> Row]
  BY DEF PutBack, PutBackAt, SetFailed, Rows, Row, Status

(* hub.unregister leaves a ring of workers and a natural index. *)
LEMMA RingType ==
    ASSUME rrKeys \in Seq(Workers), rrIdx \in Nat, NEW w, RemoveFromRing(w)
    PROVE  rrKeys' \in Seq(Workers) /\ rrIdx' \in Nat
<1>1. CASE w \in Registered
  <2>1. PICK i \in DOMAIN rrKeys :
            /\ rrKeys' = RemoveAt(rrKeys, i)
            /\ rrIdx' = IF rrIdx >= Len(rrKeys) - 1 THEN 0 ELSE rrIdx
    BY <1>1 DEF RemoveFromRing
  <2>2. i \in 1..Len(rrKeys)
    OBVIOUS
  <2>3. /\ SubSeq(rrKeys, 1, i - 1) \in Seq(Workers)
        /\ SubSeq(rrKeys, i + 1, Len(rrKeys)) \in Seq(Workers)
    BY <2>2
  <2>4. rrKeys' \in Seq(Workers)
    BY <2>1, <2>3 DEF RemoveAt
  <2> QED BY <2>1, <2>4
<1>2. CASE w \notin Registered
  BY <1>2 DEF RemoveFromRing, hubVars
<1> QED BY <1>1, <1>2

(* The ring positions dispatchToWs looks at hold workers. *)
LEMMA RingAtType ==
    ASSUME rrKeys \in Seq(Workers), rrIdx \in Nat, NEW q, NEW i \in Takers(q)
    PROVE  /\ Len(rrKeys) \in Nat \ {0}
           /\ RingAt(i) \in Workers
           /\ worker[RingAt(i)].idle
           /\ worker[RingAt(i)].send = 0
           /\ i \in Nat
<1>1. i \in 0..(Len(rrKeys) - 1)
  BY DEF Takers
<1>2. Len(rrKeys) \in Nat \ {0} /\ i \in Nat
  BY <1>1
<1>3. ((rrIdx + i) % Len(rrKeys)) + 1 \in 1..Len(rrKeys)
  BY <1>2
<1>4. RingAt(i) \in Workers
  BY <1>3 DEF RingAt
<1> QED BY <1>2, <1>4 DEF Takers, IdleWorkers

LEMMA IdleWorkersFinite ==
    ASSUME rrKeys \in Seq(Workers), NEW q
    PROVE  Cardinality(IdleWorkers(q)) \in Nat
<1>1. IdleWorkers(q) \subseteq Workers
  BY DEF IdleWorkers, Registered, Range
<1> QED BY <1>1, WorkersAssumption, FS_Subset, FS_CardinalityType

(* Each action keeps the types; UNCHANGED variables take no thought. *)
LEMMA JobStepType ==
    ASSUME TypeOK, NEW j \in Jobs, JobStep(j)
    PROVE  TypeOK'
<1> USE DEF TypeOK
<1>1. CASE Dispatch(j)
  <2>1. PICK due \in BOOLEAN : job' = InsertJob(job, j, due)
    BY <1>1 DEF Dispatch
  <2>2. job' \in [Jobs -> Row]
    BY <2>1, RowStatementTypes
  <2> QED BY <1>1, <2>2 DEF Dispatch, hubVars, handlerVars, dispVars
<1>2. CASE BecomeDue(j)
  <2>1. job' \in [Jobs -> Row]
    BY <1>2 DEF BecomeDue, Row
  <2> QED BY <1>2, <2>1 DEF BecomeDue, hubVars, handlerVars, dispVars
<1>3. CASE Cancel(j)
  <2>1. job' \in [Jobs -> Row]
    BY <1>3, RowStatementTypes DEF Cancel
  <2> QED BY <1>3, <2>1 DEF Cancel, hubVars, handlerVars, dispVars
<1>4. CASE ReapStale(j)
  <2>1. job' \in [Jobs -> Row]
    BY <1>4, SetStatementTypes DEF ReapStale
  <2> QED BY <1>4, <2>1 DEF ReapStale, hubVars, handlerVars, dispVars
<1>5. CASE ReapEarly(j)
  <2>1. job' \in [Jobs -> Row]
    BY <1>5, SetStatementTypes DEF ReapEarly
  <2>2. spent' \in Nat
    BY <1>5 DEF ReapEarly
  <2> QED BY <1>5, <2>1, <2>2 DEF ReapEarly, hubVars, handlerVars, dispVars
<1> QED BY <1>1, <1>2, <1>3, <1>4, <1>5 DEF JobStep

LEMMA QueueStepType ==
    ASSUME TypeOK, NEW q \in Queues, QueueStep(q)
    PROVE  TypeOK'
<1> USE DEF TypeOK
<1>1. CASE PauseQueue(q)
  BY <1>1 DEF PauseQueue, hubVars, handlerVars, dispVars
<1>2. CASE ResumeQueue(q)
  BY <1>2 DEF ResumeQueue, hubVars, handlerVars, dispVars
<1>3. CASE Wake(q)
  BY <1>3 DEF Wake, DispatcherPc, hubVars, handlerVars
<1>4. CASE CountIdle(q)
  <2>1. Cardinality(IdleWorkers(q)) \in Nat
    BY IdleWorkersFinite
  <2>2. idleCount' \in [Queues -> Nat]
    BY <1>4, <2>1, MaxBatchAssumption DEF CountIdle
  <2>3. dpc' \in [Queues -> DispatcherPc]
    BY <1>4 DEF CountIdle, DispatcherPc
  <2> QED BY <1>4, <2>2, <2>3 DEF CountIdle, hubVars, handlerVars
<1>5. CASE ReserveBatch(q)
  <2> DEFINE S == FirstCandidates(job, q, idleCount[q])
             refs == {[id |-> j, attempts |-> job[j].attempts + 1] : j \in S}
  <2>1. S \subseteq Jobs
    BY DEF FirstCandidates, Candidates
  <2>2. job' \in [Jobs -> Row]
    BY <1>5, SetStatementTypes DEF ReserveBatch
  <2>3. refs \subseteq [id : Jobs, attempts : Nat]
    BY <2>1 DEF Row
  <2>4. batch' \in [Queues -> SUBSET [id : Jobs, attempts : Nat]]
    BY <1>5, <2>3 DEF ReserveBatch
  <2>5. /\ dpc' \in [Queues -> DispatcherPc]
        /\ idleCount' \in [Queues -> Nat]
        /\ dispatched' \in [Queues -> BOOLEAN]
    BY <1>5 DEF ReserveBatch, DispatcherPc
  <2> QED BY <1>5, <2>2, <2>4, <2>5 DEF ReserveBatch, hubVars, handlerVars
<1>6. CASE RefuseByRate(q)
  <2>1. PICK ref \in batch[q] :
            /\ job' = PutBackAt(job, ref.id, FALSE)
            /\ batch' = [batch EXCEPT ![q] = @ \ {ref}]
    BY <1>6 DEF RefuseByRate
  <2>2. job' \in [Jobs -> Row]
    BY <2>1, IdStatementTypes
  <2>3. batch' \in [Queues -> SUBSET [id : Jobs, attempts : Nat]]
    BY <2>1
  <2>4. spent' \in Nat
    BY <1>6 DEF RefuseByRate
  <2> QED BY <1>6, <2>2, <2>3, <2>4 DEF RefuseByRate, hubVars, handlerVars
<1>7. CASE HandToWorker(q)
  <2>1. PICK ref \in batch[q], i \in Takers(q) :
            /\ worker' = [worker EXCEPT ![RingAt(i)].idle = FALSE,
                                        ![RingAt(i)].send = ref.id,
                                        ![RingAt(i)].currentJob = ref]
            /\ rrIdx' = (rrIdx + i + 1) % Len(rrKeys)
            /\ batch' = [batch EXCEPT ![q] = @ \ {ref}]
    BY <1>7 DEF HandToWorker
  <2>2. ref \in JobRef /\ ref.id \in JobId
    BY DEF JobRef, JobId
  <2>3. worker' \in [Workers -> WsWorker]
    <3> DEFINE v == RingAt(i)
    <3>1. v \in Workers
      BY RingAtType
    <3>2. [worker[v] EXCEPT !.idle = FALSE, !.send = ref.id, !.currentJob = ref]
            \in WsWorker
      BY <2>2, <3>1 DEF WsWorker
    <3>3. worker' = [worker EXCEPT ![v] =
                [worker[v] EXCEPT !.idle = FALSE, !.send = ref.id, !.currentJob = ref]]
      BY <2>1, <3>1
    <3> QED BY <3>1, <3>2, <3>3
  <2>4. rrIdx' \in Nat
    BY <2>1, RingAtType
  <2>5. /\ batch' \in [Queues -> SUBSET [id : Jobs, attempts : Nat]]
        /\ dispatched' \in [Queues -> BOOLEAN]
    BY <1>7, <2>1 DEF HandToWorker
  <2> QED BY <1>7, <2>3, <2>4, <2>5 DEF HandToWorker, handlerVars
<1>8. CASE NoTaker(q)
  BY <1>8 DEF NoTaker, DispatcherPc, hubVars, handlerVars
<1>9. CASE PutBackUntaken(q)
  <2>1. PICK ref \in batch[q] :
            /\ job' = PutBack(job, ref.id)
            /\ batch' = [batch EXCEPT ![q] = @ \ {ref}]
    BY <1>9 DEF PutBackUntaken
  <2>2. job' \in [Jobs -> Row]
    BY <2>1, IdStatementTypes
  <2>3. /\ batch' \in [Queues -> SUBSET [id : Jobs, attempts : Nat]]
        /\ dpc' \in [Queues -> DispatcherPc]
    BY <1>9, <2>1 DEF PutBackUntaken, DispatcherPc
  <2> QED BY <1>9, <2>2, <2>3 DEF PutBackUntaken, hubVars, handlerVars
<1>10. CASE EndBatch(q)
  <2>1. /\ dpc' \in [Queues -> DispatcherPc]
        /\ dispatched' \in [Queues -> BOOLEAN]
    BY <1>10 DEF EndBatch, DispatcherPc
  <2> QED BY <1>10, <2>1 DEF EndBatch, hubVars, handlerVars
<1> QED BY <1>1, <1>2, <1>3, <1>4, <1>5, <1>6, <1>7, <1>8, <1>9, <1>10
        DEF QueueStep, DispatcherStep

-----------------------------------------------------------------------------
(* A connection whose variables do not change keeps its shape. *)
LEMMA ShapeFrame ==
    ASSUME NEW v, HandlerShape(v), worker'[v] = worker[v], client'[v] = client[v],
           hpc'[v] = hpc[v], hresult'[v] = hresult[v]
    PROVE  HandlerShape(v)'
  BY DEF HandlerShape

(* One connection changes and has its shape afterwards: the others kept it. *)
LEMMA ShapeOfOthers ==
    ASSUME IInv, NEW w \in Workers, HandlerShape(w)',
           \A v \in Workers \ {w} :
                /\ worker'[v] = worker[v]    /\ client'[v] = client[v]
                /\ hpc'[v] = hpc[v]          /\ hresult'[v] = hresult[v]
    PROVE  \A v \in Workers : HandlerShape(v)'
  BY ShapeFrame DEF IInv

LEMMA ShapeOfAll ==
    ASSUME IInv, UNCHANGED <<worker, client, hpc, hresult>>
    PROVE  \A v \in Workers : HandlerShape(v)'
  BY ShapeFrame DEF IInv

LEMMA JobStepInv ==
    ASSUME IInv, NEW j \in Jobs, JobStep(j)
    PROVE  IInv'
<1>1. TypeOK'
  BY JobStepType DEF IInv
<1>2. UNCHANGED <<worker, client, hpc, hresult>>
  BY DEF JobStep, Dispatch, BecomeDue, Cancel, ReapStale, ReapEarly, handlerVars
<1> QED BY <1>1, <1>2, ShapeOfAll DEF IInv

LEMMA QueueStepInv ==
    ASSUME IInv, NEW q \in Queues, QueueStep(q)
    PROVE  IInv'
<1>1. TypeOK'
  BY QueueStepType DEF IInv
<1>2. CASE HandToWorker(q)
  <2>1. PICK ref \in batch[q], v \in Workers :
            /\ worker[v].idle
            /\ worker' = [worker EXCEPT ![v].idle = FALSE, ![v].send = ref.id,
                                        ![v].currentJob = ref]
    BY <1>2, RingAtType DEF HandToWorker, IInv, TypeOK
  <2>2. UNCHANGED <<client, hpc, hresult>>
    BY <1>2 DEF HandToWorker, handlerVars
  <2>3. /\ worker'[v].idle = FALSE        /\ worker'[v].send = ref.id
        /\ worker'[v].currentJob = ref    /\ worker'[v].result = worker[v].result
    BY <2>1 DEF IInv, TypeOK, WsWorker
  <2>4. HandlerShape(v)'
    <3>1. worker[v].send = 0 /\ worker[v].currentJob = Nil /\ hpc[v] # "inner"
      BY <2>1 DEF IInv, HandlerShape
    <3>2. client[v] = 0
      BY <3>1 DEF IInv, HandlerShape, Nil
    <3> QED BY <2>2, <2>3, <3>1, <3>2 DEF IInv, HandlerShape
  <2>5. \A u \in Workers \ {v} : worker'[u] = worker[u]
    BY <2>1 DEF IInv, TypeOK
  <2>6. \A u \in Workers : HandlerShape(u)'
    BY <2>2, <2>4, <2>5, ShapeOfOthers
  <2> QED BY <1>1, <2>6 DEF IInv
<1>3. CASE ~HandToWorker(q)
  <2>1. UNCHANGED <<worker, client, hpc, hresult>>
    BY <1>3 DEF QueueStep, DispatcherStep, PauseQueue, ResumeQueue, Wake, CountIdle,
       ReserveBatch, RefuseByRate, NoTaker, PutBackUntaken, EndBatch, handlerVars
  <2> QED BY <1>1, <2>1, ShapeOfAll DEF IInv
<1> QED BY <1>2, <1>3

(* A step of one connection: its variables change, the others' do not. *)
LEMMA ConnectionStep ==
    ASSUME IInv, NEW w \in Workers, TypeOK', HandlerShape(w)',
           \A v \in Workers \ {w} :
                /\ worker'[v] = worker[v]    /\ client'[v] = client[v]
                /\ hpc'[v] = hpc[v]          /\ hresult'[v] = hresult[v]
    PROVE  IInv'
  BY ShapeOfOthers DEF IInv

LEMMA ConnectInv ==
    ASSUME IInv, NEW w \in Workers, Connect(w)
    PROVE  IInv'
<1>1. spent' \in Nat
  BY DEF Connect, IInv, TypeOK
<1>2. rrKeys' \in Seq(Workers)
  BY DEF Connect, IInv, TypeOK
<1>3. worker' \in [Workers -> WsWorker]
  BY DEF Connect, FreshWorker, WsWorker, NoResult, Result, Nil, JobRef, JobId, IInv, TypeOK
<1>4. hpc' \in [Workers -> HandlerPc]
  BY DEF Connect, HandlerPc, IInv, TypeOK
<1>5. TypeOK'
  BY <1>1, <1>2, <1>3, <1>4 DEF Connect, IInv, TypeOK, hubVars, handlerVars, dispVars
<1>6. HandlerShape(w)'
  BY DEF Connect, FreshWorker, NoResult, Nil, IInv, TypeOK, HandlerShape, handlerVars
<1>7. \A v \in Workers \ {w} :
         /\ worker'[v] = worker[v]    /\ client'[v] = client[v]
         /\ hpc'[v] = hpc[v]          /\ hresult'[v] = hresult[v]
  BY DEF Connect, IInv, TypeOK, handlerVars
<1> QED BY <1>5, <1>6, <1>7, ConnectionStep

LEMMA KickWorkerInv ==
    ASSUME IInv, NEW w \in Workers, KickWorker(w)
    PROVE  IInv'
<1>1. worker' \in [Workers -> WsWorker]
  BY DEF KickWorker, WsWorker, IInv, TypeOK
<1>2. TypeOK'
  BY <1>1 DEF KickWorker, IInv, TypeOK, hubVars, handlerVars, dispVars
<1>3. HandlerShape(w)'
  BY DEF KickWorker, WsWorker, IInv, TypeOK, HandlerShape, handlerVars
<1>4. \A v \in Workers \ {w} :
         /\ worker'[v] = worker[v]    /\ client'[v] = client[v]
         /\ hpc'[v] = hpc[v]          /\ hresult'[v] = hresult[v]
  BY DEF KickWorker, IInv, TypeOK, handlerVars
<1> QED BY <1>2, <1>3, <1>4, ConnectionStep

LEMMA HeartbeatExpireInv ==
    ASSUME IInv, NEW w \in Workers, HeartbeatExpire(w)
    PROVE  IInv'
<1>1. rrKeys' \in Seq(Workers) /\ rrIdx' \in Nat
  BY RingType DEF HeartbeatExpire, IInv, TypeOK
<1>2. TypeOK'
  BY <1>1 DEF HeartbeatExpire, IInv, TypeOK, hubVars, handlerVars, dispVars
<1>3. HandlerShape(w)'
  BY DEF HeartbeatExpire, IInv, TypeOK, HandlerShape, handlerVars
<1>4. \A v \in Workers \ {w} :
         /\ worker'[v] = worker[v]    /\ client'[v] = client[v]
         /\ hpc'[v] = hpc[v]          /\ hresult'[v] = hresult[v]
  BY DEF HeartbeatExpire, IInv, TypeOK, handlerVars
<1> QED BY <1>2, <1>3, <1>4, ConnectionStep

LEMMA SendResultInv ==
    ASSUME IInv, NEW w \in Workers, SendResult(w)
    PROVE  IInv'
<1>1. worker' \in [Workers -> WsWorker]
  <2>1. PICK r \in Result : worker' = [worker EXCEPT ![w].result =
                                        IF @ = NoResult THEN r ELSE @]
    BY DEF SendResult, Result, IInv, TypeOK
  <2>2. [worker[w] EXCEPT !.result = IF @ = NoResult THEN r ELSE @] \in WsWorker
    BY DEF WsWorker, IInv, TypeOK
  <2>3. worker' = [worker EXCEPT ![w] =
            [worker[w] EXCEPT !.result = IF @ = NoResult THEN r ELSE @]]
    BY <2>1 DEF IInv, TypeOK
  <2> QED BY <2>2, <2>3 DEF IInv, TypeOK
<1>2. client' \in [Workers -> JobId]
  BY DEF SendResult, JobId, IInv, TypeOK
<1>3. TypeOK'
  BY <1>1, <1>2 DEF SendResult, IInv, TypeOK, hubVars, handlerVars, dispVars
<1>4. HandlerShape(w)'
  BY DEF SendResult, WsWorker, JobId, NoResult, IInv, TypeOK, HandlerShape, handlerVars
<1>5. \A v \in Workers \ {w} :
         /\ worker'[v] = worker[v]    /\ client'[v] = client[v]
         /\ hpc'[v] = hpc[v]          /\ hresult'[v] = hresult[v]
  BY DEF SendResult, IInv, TypeOK, handlerVars
<1> QED BY <1>3, <1>4, <1>5, ConnectionStep

LEMMA DisconnectInv ==
    ASSUME IInv, NEW w \in Workers, Disconnect(w)
    PROVE  IInv'
<1>1. worker' \in [Workers -> WsWorker]
  BY DEF Disconnect, WsWorker, IInv, TypeOK
<1>2. client' \in [Workers -> JobId]
  BY DEF Disconnect, JobId, IInv, TypeOK
<1>3. TypeOK'
  BY <1>1, <1>2 DEF Disconnect, IInv, TypeOK, hubVars, handlerVars, dispVars
<1>4. HandlerShape(w)'
  BY DEF Disconnect, WsWorker, IInv, TypeOK, HandlerShape, handlerVars
<1>5. \A v \in Workers \ {w} :
         /\ worker'[v] = worker[v]    /\ client'[v] = client[v]
         /\ hpc'[v] = hpc[v]          /\ hresult'[v] = hresult[v]
  BY DEF Disconnect, IInv, TypeOK, handlerVars
<1> QED BY <1>3, <1>4, <1>5, ConnectionStep

LEMMA WriteJobInv ==
    ASSUME IInv, NEW w \in Workers, WriteJob(w)
    PROVE  IInv'
<1>1. worker' \in [Workers -> WsWorker]
  BY DEF WriteJob, WsWorker, JobId, IInv, TypeOK
<1>2. client' \in [Workers -> JobId]
  BY DEF WriteJob, JobId, WsWorker, IInv, TypeOK
<1>3. hpc' \in [Workers -> HandlerPc]
  BY DEF WriteJob, HandlerPc, IInv, TypeOK
<1>4. TypeOK'
  BY <1>1, <1>2, <1>3 DEF WriteJob, IInv, TypeOK, hubVars, handlerVars, dispVars
<1>5. HandlerShape(w)'
  BY DEF WriteJob, WsWorker, JobId, IInv, TypeOK, HandlerShape, handlerVars
<1>6. \A v \in Workers \ {w} :
         /\ worker'[v] = worker[v]    /\ client'[v] = client[v]
         /\ hpc'[v] = hpc[v]          /\ hresult'[v] = hresult[v]
  BY DEF WriteJob, IInv, TypeOK, handlerVars
<1> QED BY <1>4, <1>5, <1>6, ConnectionStep

LEMMA WriteFailsInv ==
    ASSUME IInv, NEW w \in Workers, WriteFails(w)
    PROVE  IInv'
<1>1. worker' \in [Workers -> WsWorker]
  BY DEF WriteFails, WsWorker, JobId, IInv, TypeOK
<1>2. hpc' \in [Workers -> HandlerPc]
  BY DEF WriteFails, HandlerPc, IInv, TypeOK
<1>3. TypeOK'
  BY <1>1, <1>2 DEF WriteFails, IInv, TypeOK, hubVars, handlerVars, dispVars
<1>4. HandlerShape(w)'
  BY DEF WriteFails, WsWorker, IInv, TypeOK, HandlerShape, handlerVars
<1>5. \A v \in Workers \ {w} :
         /\ worker'[v] = worker[v]    /\ client'[v] = client[v]
         /\ hpc'[v] = hpc[v]          /\ hresult'[v] = hresult[v]
  BY DEF WriteFails, IInv, TypeOK, handlerVars
<1> QED BY <1>3, <1>4, <1>5, ConnectionStep

LEMMA SeeKickInv ==
    ASSUME IInv, NEW w \in Workers, SeeKick(w)
    PROVE  IInv'
<1>1. worker' \in [Workers -> WsWorker]
  BY DEF SeeKick, WsWorker, IInv, TypeOK
<1>2. hpc' \in [Workers -> HandlerPc]
  BY DEF SeeKick, HandlerPc, IInv, TypeOK
<1>3. TypeOK'
  BY <1>1, <1>2 DEF SeeKick, IInv, TypeOK, hubVars, handlerVars, dispVars
<1>4. HandlerShape(w)'
  BY DEF SeeKick, WsWorker, IInv, TypeOK, HandlerShape, handlerVars
<1>5. \A v \in Workers \ {w} :
         /\ worker'[v] = worker[v]    /\ client'[v] = client[v]
         /\ hpc'[v] = hpc[v]          /\ hresult'[v] = hresult[v]
  BY DEF SeeKick, IInv, TypeOK, handlerVars
<1> QED BY <1>3, <1>4, <1>5, ConnectionStep

LEMMA SeeDoneInv ==
    ASSUME IInv, NEW w \in Workers, SeeDone(w)
    PROVE  IInv'
<1>1. hpc' \in [Workers -> HandlerPc]
  BY DEF SeeDone, HandlerPc, IInv, TypeOK
<1>2. TypeOK'
  BY <1>1 DEF SeeDone, IInv, TypeOK, hubVars, handlerVars, dispVars
<1>3. HandlerShape(w)'
  BY DEF SeeDone, IInv, TypeOK, HandlerShape, handlerVars
<1>4. \A v \in Workers \ {w} :
         /\ worker'[v] = worker[v]    /\ client'[v] = client[v]
         /\ hpc'[v] = hpc[v]          /\ hresult'[v] = hresult[v]
  BY DEF SeeDone, IInv, TypeOK, handlerVars
<1> QED BY <1>2, <1>3, <1>4, ConnectionStep

LEMMA JobTimeoutInv ==
    ASSUME IInv, NEW w \in Workers, JobTimeout(w)
    PROVE  IInv'
<1>1. hpc' \in [Workers -> HandlerPc]
  BY DEF JobTimeout, HandlerPc, IInv, TypeOK
<1>2. TypeOK'
  BY <1>1 DEF JobTimeout, IInv, TypeOK, hubVars, handlerVars, dispVars
<1>3. HandlerShape(w)'
  BY DEF JobTimeout, IInv, TypeOK, HandlerShape, handlerVars
<1>4. \A v \in Workers \ {w} :
         /\ worker'[v] = worker[v]    /\ client'[v] = client[v]
         /\ hpc'[v] = hpc[v]          /\ hresult'[v] = hresult[v]
  BY DEF JobTimeout, IInv, TypeOK, handlerVars
<1> QED BY <1>2, <1>3, <1>4, ConnectionStep

LEMMA TakeResultInv ==
    ASSUME IInv, NEW w \in Workers, TakeResult(w)
    PROVE  IInv'
<1>1. worker' \in [Workers -> WsWorker]
  <2>1. NoResult \in Result /\ Nil \in JobRef
    BY DEF NoResult, Result, Nil, JobRef, JobId
  <2>2. [worker[w] EXCEPT !.result = NoResult, !.idle = TRUE, !.currentJob = Nil]
            \in WsWorker
    BY <2>1 DEF WsWorker, IInv, TypeOK
  <2>3. worker' = [worker EXCEPT ![w] =
            [worker[w] EXCEPT !.result = NoResult, !.idle = TRUE, !.currentJob = Nil]]
    BY DEF TakeResult, IInv, TypeOK
  <2> QED BY <2>2, <2>3 DEF IInv, TypeOK
<1>2. hpc' \in [Workers -> HandlerPc]
  BY DEF TakeResult, HandlerPc, IInv, TypeOK
<1>3. hresult' \in [Workers -> Result]
  BY DEF TakeResult, WsWorker, IInv, TypeOK
<1>4. TypeOK'
  BY <1>1, <1>2, <1>3 DEF TakeResult, IInv, TypeOK, hubVars, handlerVars, dispVars
<1>5. HandlerShape(w)'
  BY DEF TakeResult, WsWorker, NoResult, Nil, IInv, TypeOK, HandlerShape, handlerVars
<1>6. \A v \in Workers \ {w} :
         /\ worker'[v] = worker[v]    /\ client'[v] = client[v]
         /\ hpc'[v] = hpc[v]          /\ hresult'[v] = hresult[v]
  BY DEF TakeResult, IInv, TypeOK, handlerVars
<1> QED BY <1>4, <1>5, <1>6, ConnectionStep

LEMMA ReportSuccessInv ==
    ASSUME IInv, NEW w \in Workers, ReportSuccess(w)
    PROVE  IInv'
<1>1. doneCh' \in Seq(Jobs)
  BY DEF ReportSuccess, HandlerShape, IInv, TypeOK
<1>2. hpc' \in [Workers -> HandlerPc] /\ hresult' \in [Workers -> Result] /\ hjob' \in [Workers -> JobRef]
  BY DEF ReportSuccess, BackToSelect, HandlerPc, NoResult, Result, Nil, JobRef, JobId, IInv, TypeOK
<1>3. TypeOK'
  BY <1>1, <1>2 DEF ReportSuccess, BackToSelect, IInv, TypeOK, hubVars, handlerVars, dispVars
<1>4. HandlerShape(w)'
  BY DEF ReportSuccess, BackToSelect, IInv, TypeOK, HandlerShape, handlerVars
<1>5. \A v \in Workers \ {w} :
         /\ worker'[v] = worker[v]    /\ client'[v] = client[v]
         /\ hpc'[v] = hpc[v]          /\ hresult'[v] = hresult[v]
  BY DEF ReportSuccess, BackToSelect, IInv, TypeOK, handlerVars
<1> QED BY <1>3, <1>4, <1>5, ConnectionStep

LEMMA ReadCachedJobInv ==
    ASSUME IInv, NEW w \in Workers, ReadCachedJob(w)
    PROVE  IInv'
<1>1. hjob' \in [Workers -> JobRef]
  BY DEF ReadCachedJob, WsWorker, IInv, TypeOK
<1>2. hpc' \in [Workers -> HandlerPc]
  BY DEF ReadCachedJob, HandlerPc, IInv, TypeOK
<1>3. TypeOK'
  BY <1>1, <1>2 DEF ReadCachedJob, IInv, TypeOK, hubVars, handlerVars, dispVars
<1>4. HandlerShape(w)'
  BY DEF ReadCachedJob, IInv, TypeOK, HandlerShape, handlerVars
<1>5. \A v \in Workers \ {w} :
         /\ worker'[v] = worker[v]    /\ client'[v] = client[v]
         /\ hpc'[v] = hpc[v]          /\ hresult'[v] = hresult[v]
  BY DEF ReadCachedJob, IInv, TypeOK, handlerVars
<1> QED BY <1>3, <1>4, <1>5, ConnectionStep

LEMMA LookupJobInv ==
    ASSUME IInv, NEW w \in Workers, LookupJob(w)
    PROVE  IInv'
<1>1. hjob' \in [Workers -> JobRef]
  BY DEF LookupJob, HandlerShape, JobRef, JobId, Row, IInv, TypeOK
<1>2. hpc' \in [Workers -> HandlerPc]
  BY DEF LookupJob, HandlerPc, IInv, TypeOK
<1>3. TypeOK'
  BY <1>1, <1>2 DEF LookupJob, IInv, TypeOK, hubVars, handlerVars, dispVars
<1>4. HandlerShape(w)'
  BY DEF LookupJob, IInv, TypeOK, HandlerShape, handlerVars
<1>5. \A v \in Workers \ {w} :
         /\ worker'[v] = worker[v]    /\ client'[v] = client[v]
         /\ hpc'[v] = hpc[v]          /\ hresult'[v] = hresult[v]
  BY DEF LookupJob, IInv, TypeOK, handlerVars
<1> QED BY <1>3, <1>4, <1>5, ConnectionStep

LEMMA RetryLaterInv ==
    ASSUME IInv, NEW w \in Workers, RetryLater(w)
    PROVE  IInv'
<1>1. job' \in [Jobs -> Row]
  BY IdStatementTypes DEF RetryLater, IInv, TypeOK
<1>2. hpc' \in [Workers -> HandlerPc] /\ hresult' \in [Workers -> Result] /\ hjob' \in [Workers -> JobRef]
  BY DEF RetryLater, BackToSelect, HandlerPc, NoResult, Result, Nil, JobRef, JobId, IInv, TypeOK
<1>3. TypeOK'
  BY <1>1, <1>2 DEF RetryLater, BackToSelect, IInv, TypeOK, hubVars, handlerVars, dispVars
<1>4. HandlerShape(w)'
  BY DEF RetryLater, BackToSelect, IInv, TypeOK, HandlerShape, handlerVars
<1>5. \A v \in Workers \ {w} :
         /\ worker'[v] = worker[v]    /\ client'[v] = client[v]
         /\ hpc'[v] = hpc[v]          /\ hresult'[v] = hresult[v]
  BY DEF RetryLater, BackToSelect, IInv, TypeOK, handlerVars
<1> QED BY <1>3, <1>4, <1>5, ConnectionStep

LEMMA MarkFailedInv ==
    ASSUME IInv, NEW w \in Workers, MarkFailed(w)
    PROVE  IInv'
<1>1. job' \in [Jobs -> Row]
  BY IdStatementTypes DEF MarkFailed, IInv, TypeOK
<1>2. hpc' \in [Workers -> HandlerPc]
  BY DEF MarkFailed, HandlerPc, IInv, TypeOK
<1>3. TypeOK'
  BY <1>1, <1>2 DEF MarkFailed, IInv, TypeOK, hubVars, handlerVars, dispVars
<1>4. HandlerShape(w)'
  BY DEF MarkFailed, IInv, TypeOK, HandlerShape, handlerVars
<1>5. \A v \in Workers \ {w} :
         /\ worker'[v] = worker[v]    /\ client'[v] = client[v]
         /\ hpc'[v] = hpc[v]          /\ hresult'[v] = hresult[v]
  BY DEF MarkFailed, IInv, TypeOK, handlerVars
<1> QED BY <1>3, <1>4, <1>5, ConnectionStep

LEMMA InsertDeadLetterInv ==
    ASSUME IInv, NEW w \in Workers, InsertDeadLetter(w)
    PROVE  IInv'
<1>1. dlq' \in [Jobs -> Nat]
  <2>1. \A j \in Jobs : dlq[j] + 1 \in Nat
    BY DEF IInv, TypeOK
  <2>2. dlq' = [j \in Jobs |-> IF j = hjob[w].id THEN dlq[j] + 1 ELSE dlq[j]]
    BY DEF InsertDeadLetter, IInv, TypeOK
  <2> QED BY <2>1, <2>2 DEF IInv, TypeOK
<1>2. hpc' \in [Workers -> HandlerPc] /\ hresult' \in [Workers -> Result] /\ hjob' \in [Workers -> JobRef]
  BY DEF InsertDeadLetter, BackToSelect, HandlerPc, NoResult, Result, Nil, JobRef, JobId, IInv, TypeOK
<1>3. TypeOK'
  BY <1>1, <1>2 DEF InsertDeadLetter, BackToSelect, IInv, TypeOK, hubVars, handlerVars, dispVars
<1>4. HandlerShape(w)'
  BY DEF InsertDeadLetter, BackToSelect, IInv, TypeOK, HandlerShape, handlerVars
<1>5. \A v \in Workers \ {w} :
         /\ worker'[v] = worker[v]    /\ client'[v] = client[v]
         /\ hpc'[v] = hpc[v]          /\ hresult'[v] = hresult[v]
  BY DEF InsertDeadLetter, BackToSelect, IInv, TypeOK, handlerVars
<1> QED BY <1>3, <1>4, <1>5, ConnectionStep

LEMMA RescheduleInv ==
    ASSUME IInv, NEW w \in Workers, Reschedule(w)
    PROVE  IInv'
<1>1. job' \in [Jobs -> Row]
  BY SetStatementTypes DEF Reschedule, IInv, TypeOK
<1>2. hpc' \in [Workers -> HandlerPc]
  BY DEF Reschedule, HandlerPc, IInv, TypeOK
<1>3. TypeOK'
  BY <1>1, <1>2 DEF Reschedule, IInv, TypeOK, hubVars, handlerVars, dispVars
<1>4. HandlerShape(w)'
  BY DEF Reschedule, IInv, TypeOK, HandlerShape, handlerVars
<1>5. \A v \in Workers \ {w} :
         /\ worker'[v] = worker[v]    /\ client'[v] = client[v]
         /\ hpc'[v] = hpc[v]          /\ hresult'[v] = hresult[v]
  BY DEF Reschedule, IInv, TypeOK, handlerVars
<1> QED BY <1>3, <1>4, <1>5, ConnectionStep

LEMMA ExitInv ==
    ASSUME IInv, NEW w \in Workers, Exit(w)
    PROVE  IInv'
<1>1. rrKeys' \in Seq(Workers) /\ rrIdx' \in Nat
  BY RingType DEF Exit, IInv, TypeOK
<1>2. worker' \in [Workers -> WsWorker]
  BY DEF Exit, FreshWorker, WsWorker, NoResult, Result, Nil, JobRef, JobId, IInv, TypeOK
<1>3. client' \in [Workers -> JobId] /\ hpc' \in [Workers -> HandlerPc] /\ hresult' \in [Workers -> Result] /\ hjob' \in [Workers -> JobRef]
  BY DEF Exit, HandlerPc, NoResult, Result, Nil, JobRef, JobId, IInv, TypeOK
<1>4. TypeOK'
  BY <1>1, <1>2, <1>3 DEF Exit, IInv, TypeOK, hubVars, handlerVars, dispVars
<1>5. HandlerShape(w)'
  BY DEF Exit, FreshWorker, NoResult, Nil, IInv, TypeOK, HandlerShape, handlerVars
<1>6. \A v \in Workers \ {w} :
         /\ worker'[v] = worker[v]    /\ client'[v] = client[v]
         /\ hpc'[v] = hpc[v]          /\ hresult'[v] = hresult[v]
  BY DEF Exit, IInv, TypeOK, handlerVars
<1> QED BY <1>4, <1>5, <1>6, ConnectionStep

-----------------------------------------------------------------------------
LEMMA FlushDoneInv ==
    ASSUME IInv, FlushDone
    PROVE  IInv'
<1>1. PICK n \in 1..Len(doneCh) :
        /\ job' = SetDone(job, {doneCh[i] : i \in 1..n})
        /\ doneCh' = SubSeq(doneCh, n + 1, Len(doneCh))
  BY DEF FlushDone
<1>2. job' \in [Jobs -> Row]
  BY <1>1, SetStatementTypes DEF IInv, TypeOK
<1>3. doneCh' \in Seq(Jobs)
  BY <1>1 DEF IInv, TypeOK
<1>4. TypeOK'
  BY <1>2, <1>3 DEF FlushDone, IInv, TypeOK, hubVars, handlerVars, dispVars
<1>5. UNCHANGED <<worker, client, hpc, hresult>>
  BY DEF FlushDone, handlerVars
<1> QED BY <1>4, <1>5, ShapeOfAll DEF IInv

LEMMA CrashRestartInv ==
    ASSUME IInv, CrashRestart
    PROVE  IInv'
<1>1. FreshWorker \in WsWorker /\ NoResult \in Result /\ Nil \in JobRef
  BY DEF FreshWorker, WsWorker, NoResult, Result, Nil, JobRef, JobId
<1>2. job' \in [Jobs -> Row]
  BY SetStatementTypes DEF CrashRestart, IInv, TypeOK
<1>3. TypeOK'
  BY <1>1, <1>2 DEF CrashRestart, IInv, TypeOK, JobId, HandlerPc, DispatcherPc
<1>4. \A w \in Workers : HandlerShape(w)'
  BY DEF CrashRestart, HandlerShape, FreshWorker, NoResult, Nil
<1> QED BY <1>3, <1>4 DEF IInv

LEMMA WorkerStepInv ==
    ASSUME IInv, NEW w \in Workers, WorkerStep(w)
    PROVE  IInv'
  BY ConnectInv, KickWorkerInv, HeartbeatExpireInv, SendResultInv, DisconnectInv,
     WriteJobInv, WriteFailsInv, SeeKickInv, SeeDoneInv, JobTimeoutInv,
     TakeResultInv, ReportSuccessInv, ReadCachedJobInv, LookupJobInv,
     RetryLaterInv, MarkFailedInv, InsertDeadLetterInv, RescheduleInv, ExitInv
  DEF WorkerStep, HandlerStep

LEMMA StutterInv ==
    ASSUME IInv, UNCHANGED vars
    PROVE  IInv'
<1>1. TypeOK'
  BY DEF IInv, TypeOK, vars, hubVars, handlerVars, dispVars
<1>2. UNCHANGED <<worker, client, hpc, hresult>>
  BY DEF vars, handlerVars
<1> QED BY <1>1, <1>2, ShapeOfAll DEF IInv

(* What the handlers and the hub tell each other stays consistent through  *)
(* every interleaving of registrations, kicks, timeouts, disconnections,   *)
(* requeues, reaps and crashes: the inductive invariant holds throughout.  *)
THEOREM Invariance == Spec => []IInv
<1>1. Init => IInv
  <2> SUFFICES ASSUME Init PROVE IInv
    OBVIOUS
  <2>1. \A w \in Workers : HandlerShape(w)
    BY DEF Init, HandlerShape, FreshWorker, NoResult, Nil
  <2> QED BY <2>1, TypeInit DEF IInv
<1>2. IInv /\ [Next]_vars => IInv'
  BY JobStepInv, QueueStepInv, WorkerStepInv, FlushDoneInv, CrashRestartInv,
     StutterInv DEF Next
<1> QED BY <1>1, <1>2, PTL DEF Spec

(* Type correctness of the dispatch model, for any number of jobs, queues  *)
(* and connections. *)
THEOREM TypeCorrect == Spec => []TypeOK
<1>1. IInv => TypeOK
  BY DEF IInv
<1> QED BY <1>1, Invariance, PTL

(* A worker the hub counts and picks as idle is free, so dispatchToWs never *)
(* blocks on its send channel and never overwrites a job it already has.   *)
THEOREM IdleFree == Spec => []IdleMeansFree
<1>1. IInv => IdleMeansFree
  BY DEF IInv, HandlerShape, IdleMeansFree
<1> QED BY <1>1, Invariance, PTL

(* The read goroutine never drops a result, and the handler always waits   *)
(* for exactly the job its worker executes. *)
THEOREM ResultAwaited == Spec => []ResultIsAwaited
<1>1. IInv => ResultIsAwaited
  BY DEF IInv, HandlerShape, ResultIsAwaited
<1> QED BY <1>1, Invariance, PTL
-----------------------------------------------------------------------------
(* Ownership. A reserved job is in one place at a time: in the batch of a  *)
(* dispatcher, with a connection that was given it, with a handler that    *)
(* deals with its result, or on its way through the done coalescer.        *)
InBatch(q, j) == \E ref \in batch[q] : ref.id = j

(* w's handler has taken a result for j and not yet acted on it. *)
Reports(w, j) ==
    hpc[w] \in {"report", "lookup", "failing"} /\ hresult[w].job = j

Places(j) ==
    {<<"batch", q>>  : q \in {p \in Queues  : InBatch(p, j)}} \cup
    {<<"held", w>>   : w \in {v \in Workers : Holds(v, j)}}   \cup
    {<<"report", w>> : w \in {v \in Workers : Reports(v, j)}} \cup
    {<<"done", 0>>   : d \in {x \in {0}     : j \in Range(doneCh)}}

(* At most one owner, and an owned job is running in the table. *)
Placed(j) ==
    /\ \A s, t \in Places(j) : s = t
    /\ Places(j) # {} => job[j].status = "running"

(* A batch exists only while it is handed out and names each job once. *)
BatchShape(q) ==
    /\ batch[q] # {} => dpc[q] \in {"hand", "putback"}
    /\ \A r, s \in batch[q] : r.id = s.id => r = s

(* The result waited for names the current job; a failure being dealt with *)
(* has the attempts that are in the job's row. *)
ResultShape(w) ==
    /\ hpc[w] = "inner" /\ worker[w].result # NoResult =>
        worker[w].result.job = worker[w].currentJob.id
    /\ hpc[w] = "failing" =>
        hresult[w].job \in Jobs /\ hjob[w].attempts = job[hjob[w].id].attempts

(* The inductive invariant. It holds as long as failures are charged to the*)
(* job that was reported: a failure charged to another job puts a job back *)
(* that its new holder still executes, and it is owned twice from then on. *)
Placement ==
    /\ \A j \in Jobs : Placed(j)
    /\ \A j \in Jobs : job[j].status = "absent" => job[j].attempts = 0
    /\ \A q \in Queues : BatchShape(q)
    /\ \A w \in Workers : ResultShape(w)
    /\ IsInjective(doneCh)

(* Placement together with what it rests on. *)
PlacedInv == IInv /\ Placement /\ FailureChargedToReported

(* A step of the abstract specification, or one it does not see. *)
LifecycleStep == [Lifecycle!Next]_(Lifecycle!lifecycleVars)

-----------------------------------------------------------------------------
LEMMA PlaceKinds ==
    ASSUME NEW j
    PROVE  /\ \A q \in Queues  : InBatch(q, j) => <<"batch", q>>  \in Places(j)
           /\ \A w \in Workers : Holds(w, j)   => <<"held", w>>   \in Places(j)
           /\ \A w \in Workers : Reports(w, j) => <<"report", w>> \in Places(j)
           /\ j \in Range(doneCh) => <<"done", 0>> \in Places(j)
           /\ \A x \in Places(j) :
                \/ \E q \in Queues  : x = <<"batch", q>>  /\ InBatch(q, j)
                \/ \E w \in Workers : x = <<"held", w>>   /\ Holds(w, j)
                \/ \E w \in Workers : x = <<"report", w>> /\ Reports(w, j)
                \/ x = <<"done", 0>> /\ j \in Range(doneCh)
  BY DEF Places

(* How places may change: fewer of them, or a move from one to another. *)
LEMMA Fewer ==
    ASSUME NEW j,
           \A q \in Queues  : InBatch(q, j)' => InBatch(q, j),
           \A w \in Workers : Holds(w, j)'   => Holds(w, j),
           \A w \in Workers : Reports(w, j)' => Reports(w, j),
           j \in Range(doneCh') => j \in Range(doneCh)
    PROVE  Places(j)' \subseteq Places(j)
  BY DEF Places

LEMMA Kept ==
    ASSUME NEW j, Placed(j), Places(j)' \subseteq Places(j),
           job[j].status = "running" => job'[j].status = "running"
    PROVE  Placed(j)'
  BY DEF Placed

LEMMA Released ==
    ASSUME NEW j, Placed(j), NEW from \in Places(j),
           Places(j)' \subseteq Places(j) \ {from}
    PROVE  Placed(j)'
  BY DEF Placed

LEMMA Moved ==
    ASSUME NEW j, Placed(j), NEW from \in Places(j), NEW to,
           Places(j)' \subseteq (Places(j) \ {from}) \cup {to},
           job'[j].status = "running"
    PROVE  Placed(j)'
  BY DEF Placed

(* Row by row, what a statement does is what the lifecycle allows. *)
LEMMA MoveStep ==
    ASSUME NEW S \in SUBSET Jobs, NEW from, NEW to,
           \A j \in S : job[j].status = from,
           \A j \in Jobs : job'[j].status = IF j \in S THEN to ELSE job[j].status
    PROVE  Lifecycle!Move(S, from, to)
  BY DEF Lifecycle!Move

LEMMA AttemptsStay ==
    ASSUME \A j \in Jobs : job'[j].attempts = job[j].attempts
    PROVE  [j \in Jobs |-> job'[j].attempts] = [j \in Jobs |-> job[j].attempts]
  OBVIOUS

LEMMA Untouched ==
    ASSUME \A j \in Jobs : /\ job'[j].status = job[j].status
                           /\ job'[j].attempts = job[j].attempts
    PROVE  LifecycleStep
  BY DEF LifecycleStep, Lifecycle!lifecycleVars

LEMMA SubmitStep ==
    ASSUME NEW k \in Jobs, job[k].status = "absent",
           \A j \in Jobs : /\ job'[j].attempts = job[j].attempts
                           /\ job'[j].status = IF j = k THEN "pending" ELSE job[j].status
    PROVE  LifecycleStep
<1>1. Lifecycle!Move({k}, "absent", "pending")
  BY MoveStep
<1>2. Lifecycle!Submit(k)
  BY <1>1, AttemptsStay DEF Lifecycle!Submit
<1> QED BY <1>2 DEF LifecycleStep, Lifecycle!Next

LEMMA CancelStep ==
    ASSUME NEW k \in Jobs, job[k].status = "pending",
           \A j \in Jobs : /\ job'[j].attempts = job[j].attempts
                           /\ job'[j].status = IF j = k THEN "cancelled" ELSE job[j].status
    PROVE  LifecycleStep
<1>1. Lifecycle!Move({k}, "pending", "cancelled")
  BY MoveStep
<1>2. Lifecycle!Cancel(k)
  BY <1>1, AttemptsStay DEF Lifecycle!Cancel
<1> QED BY <1>2 DEF LifecycleStep, Lifecycle!Next

LEMMA DeadLetterStep ==
    ASSUME NEW k \in Jobs, job[k].status = "running", job[k].attempts >= Limit[k],
           \A j \in Jobs : /\ job'[j].attempts = job[j].attempts
                           /\ job'[j].status = IF j = k THEN "failed" ELSE job[j].status
    PROVE  LifecycleStep
<1>1. Lifecycle!Move({k}, "running", "failed")
  BY MoveStep
<1>2. Lifecycle!DeadLetter(k)
  BY <1>1, AttemptsStay DEF Lifecycle!DeadLetter
<1> QED BY <1>2 DEF LifecycleStep, Lifecycle!Next

LEMMA LeaseStep ==
    ASSUME NEW S \in SUBSET Jobs, \A j \in S : job[j].status = "pending",
           \A j \in Jobs :
                /\ job'[j].status = IF j \in S THEN "running" ELSE job[j].status
                /\ job'[j].attempts = IF j \in S THEN job[j].attempts + 1 ELSE job[j].attempts
    PROVE  LifecycleStep
<1>1. Lifecycle!Move(S, "pending", "running")
  BY MoveStep
<1>2. Lifecycle!Lease(S)
  BY <1>1 DEF Lifecycle!Lease
<1> QED BY <1>2 DEF LifecycleStep, Lifecycle!Next

LEMMA GiveBackStep ==
    ASSUME NEW S \in SUBSET Jobs, \A j \in S : job[j].status = "running",
           \A j \in Jobs : /\ job'[j].attempts = job[j].attempts
                           /\ job'[j].status = IF j \in S THEN "pending" ELSE job[j].status
    PROVE  LifecycleStep
<1>1. Lifecycle!Move(S, "running", "pending")
  BY MoveStep
<1>2. Lifecycle!GiveBack(S)
  BY <1>1, AttemptsStay DEF Lifecycle!GiveBack
<1> QED BY <1>2 DEF LifecycleStep, Lifecycle!Next

LEMMA CompleteStep ==
    ASSUME NEW S \in SUBSET Jobs, \A j \in S : job[j].status = "running",
           \A j \in Jobs : /\ job'[j].attempts = job[j].attempts
                           /\ job'[j].status = IF j \in S THEN "done" ELSE job[j].status
    PROVE  LifecycleStep
<1>1. Lifecycle!Move(S, "running", "done")
  BY MoveStep
<1>2. Lifecycle!Complete(S)
  BY <1>1, AttemptsStay DEF Lifecycle!Complete
<1> QED BY <1>2 DEF LifecycleStep, Lifecycle!Next

(* A step of the lifecycle keeps the attempts of a running job, makes no   *)
(* row vanish and leaves no final status. *)
LEMMA LifecycleKeeps ==
    ASSUME LifecycleStep, NEW j \in Jobs
    PROVE  /\ job[j].status = "running" => job'[j].attempts = job[j].attempts
           /\ job'[j].status = "absent" =>
                job[j].status = "absent" /\ job'[j].attempts = job[j].attempts
           /\ job[j].status \in {"done", "failed", "cancelled"} =>
                job'[j].status = job[j].status
<1> DEFINE st == [k \in Jobs |-> job[k].status]
           at == [k \in Jobs |-> job[k].attempts]
<1>0. /\ st[j] = job[j].status /\ st'[j] = job'[j].status
      /\ at[j] = job[j].attempts /\ at'[j] = job'[j].attempts
  OBVIOUS
<1>1. CASE \E k \in Jobs : Lifecycle!Submit(k) \/ Lifecycle!DeadLetter(k) \/ Lifecycle!Cancel(k)
  BY <1>0, <1>1 DEF Lifecycle!Submit, Lifecycle!DeadLetter, Lifecycle!Cancel, Lifecycle!Move
<1>2. CASE \E S \in SUBSET Jobs : Lifecycle!Lease(S) \/ Lifecycle!GiveBack(S) \/ Lifecycle!Complete(S)
  BY <1>0, <1>2 DEF Lifecycle!Lease, Lifecycle!GiveBack, Lifecycle!Complete, Lifecycle!Move
<1>3. CASE UNCHANGED <<st, at>>
  BY <1>0, <1>3
<1> QED BY <1>1, <1>2, <1>3 DEF LifecycleStep, Lifecycle!Next, Lifecycle!lifecycleVars

-----------------------------------------------------------------------------
LEMMA PlaceMeansRunning ==
    ASSUME PlacedInv, NEW j \in Jobs
    PROVE  /\ \A q \in Queues  : InBatch(q, j) => job[j].status = "running"
           /\ \A w \in Workers : Holds(w, j)   => job[j].status = "running"
           /\ \A w \in Workers : Reports(w, j) => job[j].status = "running"
           /\ j \in Range(doneCh) => job[j].status = "running"
  BY PlaceKinds DEF PlacedInv, Placement, Placed

(* What is left to show of Placement after a step of the lifecycle. *)
LEMMA PlacementFrom ==
    ASSUME PlacedInv, LifecycleStep, \A j \in Jobs : Placed(j)', \A q \in Queues : BatchShape(q)',
           \A w \in Workers : ResultShape(w)', IsInjective(doneCh')
    PROVE  Placement'
<1>1. ASSUME NEW j \in Jobs, job'[j].status = "absent"
      PROVE  job'[j].attempts = 0
  BY <1>1, LifecycleKeeps DEF PlacedInv, Placement
<1> QED BY <1>1 DEF Placement

(* A handler nobody touches: its job runs, so its row keeps the attempts. *)
LEMMA ResultShapeKept ==
    ASSUME PlacedInv, LifecycleStep, NEW w \in Workers,
           worker'[w].result = worker[w].result, worker'[w].currentJob = worker[w].currentJob,
           hpc'[w] = hpc[w], hresult'[w] = hresult[w], hjob'[w] = hjob[w]
    PROVE  ResultShape(w)'
<1>1. CASE hpc[w] = "failing"
  <2>1. /\ hresult[w].job \in Jobs /\ hjob[w].id = hresult[w].job
        /\ hjob[w].attempts = job[hjob[w].id].attempts
    BY <1>1 DEF PlacedInv, Placement, ResultShape, FailureChargedToReported
  <2>2. Reports(w, hresult[w].job)
    BY <1>1 DEF Reports
  <2>3. job'[hjob[w].id].attempts = job[hjob[w].id].attempts
    BY <2>1, <2>2, PlaceMeansRunning, LifecycleKeeps
  <2> QED BY <1>1, <2>1, <2>3 DEF ResultShape
<1>2. CASE hpc[w] # "failing"
  BY <1>2 DEF PlacedInv, Placement, ResultShape
<1> QED BY <1>1, <1>2

(* A statement of somebody who holds nothing. *)
LEMMA RowsOnly ==
    ASSUME PlacedInv, LifecycleStep, UNCHANGED <<worker, hpc, hresult, hjob, batch, dpc, doneCh>>,
           \A j \in Jobs : job[j].status = "running" /\ job'[j].status # "running"
                                => Places(j) = {}
    PROVE  Placement'
<1>1. ASSUME NEW j \in Jobs PROVE Placed(j)'
  <2>1. Places(j)' = Places(j)
    BY DEF Places, InBatch, Holds, Reports
  <2> QED BY <1>1, <2>1 DEF PlacedInv, Placement, Placed
<1>2. \A q \in Queues : BatchShape(q)'
  BY DEF PlacedInv, Placement, BatchShape
<1>3. \A w \in Workers : ResultShape(w)'
  BY ResultShapeKept
<1> QED BY <1>1, <1>2, <1>3, PlacementFrom DEF PlacedInv, Placement

(* The API and the reaper touch only rows nobody owns. *)
LEMMA JobStepPlacement ==
    ASSUME PlacedInv, "earlyreap" \notin Env, NEW k \in Jobs, JobStep(k)
    PROVE  LifecycleStep /\ Placement'
<1>0. job \in [Jobs -> Row]
  BY DEF PlacedInv, IInv, TypeOK
<1>1. CASE Dispatch(k)
  <2>1. PICK due \in BOOLEAN : job' = InsertJob(job, k, due)
    BY <1>1 DEF Dispatch
  <2>2. job[k].attempts = 0 /\ job[k].status = "absent"
    BY <1>1 DEF Dispatch, PlacedInv, Placement
  <2>3. \A j \in Jobs : /\ job'[j].attempts = job[j].attempts
                        /\ job'[j].status = IF j = k THEN "pending" ELSE job[j].status
    BY <1>0, <2>1, <2>2 DEF InsertJob
  <2>4. LifecycleStep
    BY <2>2, <2>3, SubmitStep
  <2>5. UNCHANGED <<worker, hpc, hresult, hjob, batch, dpc, doneCh>>
    BY <1>1 DEF Dispatch, handlerVars, dispVars
  <2> QED BY <2>2, <2>3, <2>4, <2>5, RowsOnly
<1>2. CASE BecomeDue(k)
  <2>1. \A j \in Jobs : /\ job'[j].attempts = job[j].attempts
                        /\ job'[j].status = job[j].status
    BY <1>0, <1>2 DEF BecomeDue, Row
  <2>2. LifecycleStep
    BY <2>1, Untouched
  <2>3. UNCHANGED <<worker, hpc, hresult, hjob, batch, dpc, doneCh>>
    BY <1>2 DEF BecomeDue, handlerVars, dispVars
  <2> QED BY <2>1, <2>2, <2>3, RowsOnly
<1>3. CASE Cancel(k)
  <2>1. \A j \in Jobs : /\ job'[j].attempts = job[j].attempts
                        /\ job'[j].status = IF j = k THEN "cancelled" ELSE job[j].status
    BY <1>0, <1>3 DEF Cancel, CancelIfPending, Row
  <2>2. LifecycleStep
    BY <1>3, <2>1, CancelStep DEF Cancel
  <2>3. UNCHANGED <<worker, hpc, hresult, hjob, batch, dpc, doneCh>>
    BY <1>3 DEF Cancel, handlerVars, dispVars
  <2>4. job[k].status = "pending"
    BY <1>3 DEF Cancel
  <2> QED BY <2>1, <2>2, <2>3, <2>4, RowsOnly
<1>4. CASE ReapStale(k)
  <2>1. job[k].status = "running" /\ ~InHand(k)
    BY <1>4 DEF ReapStale
  <2>2. \A j \in Jobs : /\ job'[j].attempts = job[j].attempts
                        /\ job'[j].status = IF j \in {k} THEN "pending" ELSE job[j].status
    BY <1>0, <1>4 DEF ReapStale, PutBackIfRunning, Row
  <2>3. LifecycleStep
    BY <2>1, <2>2, GiveBackStep
  <2>4. UNCHANGED <<worker, hpc, hresult, hjob, batch, dpc, doneCh>>
    BY <1>4 DEF ReapStale, handlerVars, dispVars
  <2>5. Places(k) = {}
    <3>1. \A q \in Queues : ~InBatch(q, k)
      BY <2>1 DEF InHand, InBatch
    <3>2. \A w \in Workers : ~Holds(w, k)
      BY <2>1 DEF InHand, Holds
    <3>3. \A w \in Workers : ~Reports(w, k)
      BY <2>1 DEF InHand, Reports, PlacedInv, FailureChargedToReported
    <3>4. k \notin Range(doneCh)
      BY <2>1 DEF InHand
    <3> QED BY <3>1, <3>2, <3>3, <3>4, PlaceKinds
  <2> QED BY <2>2, <2>3, <2>4, <2>5, RowsOnly
<1> QED BY <1>1, <1>2, <1>3, <1>4 DEF JobStep, ReapEarly

(* The coalescer finishes jobs it owns and keeps the rest of its queue. *)
LEMMA FlushDonePlacement ==
    ASSUME PlacedInv, FlushDone
    PROVE  LifecycleStep /\ Placement'
<1>1. PICK n \in 1..Len(doneCh) :
        /\ job' = SetDone(job, {doneCh[i] : i \in 1..n})
        /\ doneCh' = SubSeq(doneCh, n + 1, Len(doneCh))
  BY DEF FlushDone
<1> DEFINE S == {doneCh[i] : i \in 1..n}
<1>2. /\ job \in [Jobs -> Row] /\ doneCh \in Seq(Jobs) /\ IsInjective(doneCh)
  BY DEF PlacedInv, IInv, TypeOK, Placement
<1>3. S \subseteq Range(doneCh) /\ Range(doneCh) \subseteq Jobs /\ S \subseteq Jobs
  BY <1>2 DEF Range
<1>4. \A j \in S : job[j].status = "running"
  BY <1>3, PlaceMeansRunning
<1>5. \A j \in Jobs : /\ job'[j].attempts = job[j].attempts
                      /\ job'[j].status = IF j \in S THEN "done" ELSE job[j].status
  BY <1>1, <1>2, <1>4 DEF SetDone, Rows, Row
<1>6. LifecycleStep
  BY <1>3, <1>4, <1>5, CompleteStep
<1>7. /\ Len(doneCh') = Len(doneCh) - n
      /\ \A i \in 1..(Len(doneCh) - n) : doneCh'[i] = doneCh[i + n]
      /\ DOMAIN doneCh' = 1..(Len(doneCh) - n)
  BY <1>1, <1>2
<1>8. IsInjective(doneCh')
  BY <1>2, <1>7 DEF IsInjective
<1>9. Range(doneCh') \subseteq Range(doneCh) /\ Range(doneCh') \cap S = {}
  <2>1. ASSUME NEW x \in Range(doneCh')
        PROVE  x \in Range(doneCh) /\ x \notin S
    <3>1. PICK i \in 1..(Len(doneCh) - n) : x = doneCh[i + n]
      BY <1>7 DEF Range
    <3>2. i + n \in DOMAIN doneCh /\ i + n \notin 1..n
      BY <1>2
    <3>3. ASSUME NEW k \in 1..n PROVE doneCh[k] # x
      <4>1. k \in DOMAIN doneCh /\ k # i + n
        BY <1>2, <3>2
      <4> QED BY <1>2, <3>1, <3>2, <4>1 DEF IsInjective
    <3> QED BY <3>1, <3>2, <3>3 DEF Range
  <2> QED BY <2>1
<1>10. UNCHANGED <<worker, hpc, hresult, hjob, batch, dpc>>
  BY DEF FlushDone, handlerVars, dispVars
<1>11. ASSUME NEW j \in Jobs PROVE Placed(j)'
  <2>1. Places(j)' \subseteq Places(j)
    BY <1>9, <1>10, Fewer DEF InBatch, Holds, Reports
  <2>2. CASE j \in S
    <3>1. <<"done", 0>> \in Places(j) /\ Placed(j)
      BY <1>3, <2>2, PlaceKinds DEF PlacedInv, Placement
    <3>2. Places(j)' \subseteq Places(j) \ {<<"done", 0>>}
      <4>1. j \notin Range(doneCh')
        BY <1>9, <2>2
      <4>2. <<"done", 0>> \notin Places(j)'
        BY <4>1 DEF Places
      <4> QED BY <2>1, <4>2
    <3> QED BY <3>1, <3>2, Released
  <2>3. CASE j \notin S
    BY <2>1, <2>3, <1>5, Kept DEF PlacedInv, Placement
  <2> QED BY <2>2, <2>3
<1>12. \A q \in Queues : BatchShape(q)'
  BY <1>10 DEF PlacedInv, Placement, BatchShape
<1>13. \A w \in Workers : ResultShape(w)'
  BY <1>6, <1>10, ResultShapeKept
<1> QED BY <1>6, <1>8, <1>11, <1>12, <1>13, PlacementFrom

LEMMA CrashRestartPlacement ==
    ASSUME PlacedInv, CrashRestart
    PROVE  LifecycleStep /\ Placement'
<1> DEFINE S == {j \in Jobs : job[j].status = "running"}
<1>1. \A j \in Jobs : /\ job'[j].attempts = job[j].attempts
                      /\ job'[j].status = IF j \in S THEN "pending" ELSE job[j].status
  BY DEF CrashRestart, PutBackIfRunning, Row, PlacedInv, IInv, TypeOK
<1>2. LifecycleStep
  BY <1>1, GiveBackStep
<1>3. /\ \A q \in Queues : batch'[q] = {}
      /\ \A w \in Workers : hpc'[w] = "off" /\ worker'[w].currentJob = Nil
      /\ doneCh' = <<>>
  BY DEF CrashRestart, FreshWorker
<1>4. ASSUME NEW j \in Jobs PROVE Placed(j)'
  <2>1. Places(j)' = {}
    BY <1>3, JobsAssumption DEF Places, InBatch, Holds, Reports, Nil, Range
  <2> QED BY <2>1 DEF Placed
<1>5. \A q \in Queues : BatchShape(q)'
  BY <1>3 DEF BatchShape
<1>6. \A w \in Workers : ResultShape(w)'
  BY <1>3 DEF ResultShape
<1>7. IsInjective(doneCh')
  BY <1>3 DEF IsInjective
<1> QED BY <1>2, <1>4, <1>5, <1>6, <1>7, PlacementFrom
-----------------------------------------------------------------------------
(* Dispatcher steps that move no job. *)
LEMMA DispatcherQuietPlacement ==
    ASSUME PlacedInv, NEW q \in Queues,
           PauseQueue(q) \/ ResumeQueue(q) \/ Wake(q) \/ CountIdle(q) \/ NoTaker(q) \/ EndBatch(q)
    PROVE  LifecycleStep /\ Placement'
<1>1. UNCHANGED <<job, worker, hpc, hresult, hjob, batch, doneCh>>
  BY DEF PauseQueue, ResumeQueue, Wake, CountIdle, NoTaker, EndBatch, handlerVars, dispVars
<1>2. LifecycleStep
  BY <1>1, Untouched
<1>3. ASSUME NEW j \in Jobs PROVE Placed(j)'
  <2>1. Places(j)' = Places(j)
    BY <1>1 DEF Places, InBatch, Holds, Reports
  <2> QED BY <1>1, <2>1 DEF PlacedInv, Placement, Placed
<1>4. ASSUME NEW p \in Queues PROVE BatchShape(p)'
  <2>1. dpc \in [Queues -> DispatcherPc] /\ BatchShape(p)
    BY DEF PlacedInv, IInv, TypeOK, Placement
  <2>2. batch[p] # {} => dpc'[p] \in {"hand", "putback"}
    BY <2>1 DEF PauseQueue, ResumeQueue, Wake, CountIdle, NoTaker, EndBatch, dispVars, BatchShape
  <2> QED BY <1>1, <2>1, <2>2 DEF BatchShape
<1>5. \A w \in Workers : ResultShape(w)'
  BY <1>1, <1>2, ResultShapeKept
<1> QED BY <1>1, <1>2, <1>3, <1>4, <1>5, PlacementFrom DEF PlacedInv, Placement

(* The jobs reserved were pending, so nobody owned them. *)
LEMMA ReserveBatchPlacement ==
    ASSUME PlacedInv, NEW q \in Queues, ReserveBatch(q)
    PROVE  LifecycleStep /\ Placement'
<1> DEFINE S == FirstCandidates(job, q, idleCount[q])
           refs == {[id |-> j, attempts |-> job[j].attempts + 1] : j \in S}
<1>1. /\ dpc[q] = "reserve"
      /\ job' = SetRunning(job, S)
      /\ batch' = [batch EXCEPT ![q] = refs]
      /\ dpc' = [dpc EXCEPT ![q] = IF S = {} THEN "wake" ELSE "hand"]
      /\ UNCHANGED <<worker, hpc, hresult, hjob, doneCh>>
  BY DEF ReserveBatch, handlerVars
<1>2. /\ job \in [Jobs -> Row] /\ dpc \in [Queues -> DispatcherPc]
      /\ batch \in [Queues -> SUBSET [id : Jobs, attempts : Nat]]
  BY DEF PlacedInv, IInv, TypeOK
<1>3. S \subseteq Jobs /\ \A j \in S : job[j].status = "pending"
  BY DEF FirstCandidates, Candidates
<1> HIDE DEF S
<1>4. \A j \in Jobs :
        /\ job'[j].status = IF j \in S THEN "running" ELSE job[j].status
        /\ job'[j].attempts = IF j \in S THEN job[j].attempts + 1 ELSE job[j].attempts
  BY <1>1, <1>2 DEF SetRunning, Row
<1>5. LifecycleStep
  BY <1>3, <1>4, LeaseStep
<1>6. batch'[q] = refs /\ \A p \in Queues \ {q} : batch'[p] = batch[p] /\ dpc'[p] = dpc[p]
  BY <1>1, <1>2
<1>7. ASSUME NEW j \in Jobs PROVE Placed(j)'
  <2>1. /\ \A p \in Queues \ {q} : InBatch(p, j)' => InBatch(p, j)
        /\ InBatch(q, j)' => j \in S
        /\ \A w \in Workers : Holds(w, j)'   => Holds(w, j)
        /\ \A w \in Workers : Reports(w, j)' => Reports(w, j)
        /\ j \in Range(doneCh') => j \in Range(doneCh)
    BY <1>1, <1>6 DEF InBatch, Holds, Reports
  <2>2. CASE j \in S
    <3>1. job[j].status # "running" /\ job'[j].status = "running"
      BY <1>3, <1>4, <2>2
    <3>2. Places(j) = {}
      BY <3>1 DEF PlacedInv, Placement, Placed
    <3>3. Places(j)' \subseteq Places(j) \cup {<<"batch", q>>}
      BY <2>1 DEF Places
    <3> QED BY <3>1, <3>2, <3>3 DEF Placed
  <2>3. CASE j \notin S
    <3>1. Places(j)' \subseteq Places(j)
      BY <2>1, <2>3, Fewer
    <3> QED BY <1>4, <2>3, <3>1, Kept DEF PlacedInv, Placement
  <2> QED BY <2>2, <2>3
<1>8. ASSUME NEW p \in Queues PROVE BatchShape(p)'
  <2>1. CASE p = q
    <3>1. dpc'[q] = IF S = {} THEN "wake" ELSE "hand"
      BY <1>1, <1>2
    <3> QED BY <1>6, <2>1, <3>1 DEF BatchShape
  <2>2. CASE p # q
    BY <1>6, <2>2 DEF BatchShape, PlacedInv, Placement
  <2> QED BY <2>1, <2>2
<1>9. \A w \in Workers : ResultShape(w)'
  BY <1>1, <1>5, ResultShapeKept
<1> QED BY <1>1, <1>5, <1>7, <1>8, <1>9, PlacementFrom DEF PlacedInv, Placement

(* A reserved job that goes back to the table leaves its batch, whatever   *)
(* the statement writes besides the status. *)
LEMMA BatchReturnsPlacement ==
    ASSUME PlacedInv, NEW q \in Queues, NEW ref \in batch[q], dpc'[q] \in {"hand", "putback"},
           \A p \in Queues \ {q} : dpc'[p] = dpc[p],
           batch' = [batch EXCEPT ![q] = @ \ {ref}],
           UNCHANGED <<worker, hpc, hresult, hjob, doneCh>>,
           \A j \in Jobs : /\ job'[j].attempts = job[j].attempts
                           /\ job'[j].status = IF j = ref.id THEN "pending" ELSE job[j].status
    PROVE  LifecycleStep /\ Placement'
<1>1. batch \in [Queues -> SUBSET [id : Jobs, attempts : Nat]] /\ ref.id \in Jobs
  BY DEF PlacedInv, IInv, TypeOK
<1>2. InBatch(q, ref.id)
  BY DEF InBatch
<1>3. job[ref.id].status = "running"
  BY <1>1, <1>2, PlaceMeansRunning
<1>4. LifecycleStep
  <2>1. \A j \in Jobs : job'[j].status = IF j \in {ref.id} THEN "pending" ELSE job[j].status
    OBVIOUS
  <2> QED BY <1>1, <1>3, <2>1, GiveBackStep
<1>5. batch'[q] = batch[q] \ {ref} /\ \A p \in Queues \ {q} : batch'[p] = batch[p]
  BY <1>1
<1>6. ASSUME NEW j \in Jobs PROVE Placed(j)'
  <2>1. Places(j)' \subseteq Places(j)
    BY <1>5, Fewer DEF InBatch, Holds, Reports
  <2>2. CASE j = ref.id
    <3>1. <<"batch", q>> \in Places(j)
      BY <1>2, <2>2, PlaceKinds
    <3>2. ~InBatch(q, j)'
      BY <1>5, <2>2 DEF InBatch, PlacedInv, Placement, BatchShape
    <3>3. <<"batch", q>> \notin Places(j)'
      BY <3>2 DEF Places
    <3>4. Places(j)' \subseteq Places(j) \ {<<"batch", q>>}
      BY <2>1, <3>3
    <3> QED BY <3>1, <3>4, Released DEF PlacedInv, Placement
  <2>3. CASE j # ref.id
    BY <2>1, <2>3, Kept DEF PlacedInv, Placement
  <2> QED BY <2>2, <2>3
<1>7. ASSUME NEW p \in Queues PROVE BatchShape(p)'
  <2>1. BatchShape(p)
    BY DEF PlacedInv, Placement
  <2> QED BY <1>5, <2>1 DEF BatchShape
<1>8. \A w \in Workers : ResultShape(w)'
  BY <1>4, ResultShapeKept
<1> QED BY <1>4, <1>6, <1>7, <1>8, PlacementFrom DEF PlacedInv, Placement

LEMMA RefuseByRatePlacement ==
    ASSUME PlacedInv, NEW q \in Queues, RefuseByRate(q)
    PROVE  LifecycleStep /\ Placement'
<1>1. PICK ref \in batch[q] :
        /\ job' = PutBackAt(job, ref.id, FALSE)
        /\ batch' = [batch EXCEPT ![q] = @ \ {ref}]
  BY DEF RefuseByRate
<1>2. /\ job \in [Jobs -> Row] /\ ref.id \in Jobs /\ job[ref.id].status = "running"
  BY PlaceMeansRunning DEF InBatch, PlacedInv, IInv, TypeOK
<1>3. \A j \in Jobs : /\ job'[j].attempts = job[j].attempts
                      /\ job'[j].status = IF j = ref.id THEN "pending" ELSE job[j].status
  BY <1>1, <1>2 DEF PutBackAt, Rows, Row
<1>4. /\ UNCHANGED <<worker, hpc, hresult, hjob, doneCh>>
      /\ dpc'[q] = "hand" /\ UNCHANGED dpc
  BY DEF RefuseByRate, handlerVars
<1> QED BY <1>1, <1>3, <1>4, BatchReturnsPlacement

LEMMA PutBackUntakenPlacement ==
    ASSUME PlacedInv, NEW q \in Queues, PutBackUntaken(q)
    PROVE  LifecycleStep /\ Placement'
<1>1. PICK ref \in batch[q] :
        /\ job' = PutBack(job, ref.id)
        /\ batch' = [batch EXCEPT ![q] = @ \ {ref}]
  BY DEF PutBackUntaken
<1>2. /\ job \in [Jobs -> Row] /\ ref.id \in Jobs /\ job[ref.id].status = "running"
  BY PlaceMeansRunning DEF InBatch, PlacedInv, IInv, TypeOK
<1>3. \A j \in Jobs : /\ job'[j].attempts = job[j].attempts
                      /\ job'[j].status = IF j = ref.id THEN "pending" ELSE job[j].status
  BY <1>1, <1>2 DEF PutBack, Rows, Row
<1>4. /\ UNCHANGED <<worker, hpc, hresult, hjob, doneCh>>
      /\ dpc'[q] = "hand" /\ \A p \in Queues \ {q} : dpc'[p] = dpc[p]
  BY DEF PutBackUntaken, handlerVars, PlacedInv, IInv, TypeOK
<1> QED BY <1>1, <1>3, <1>4, BatchReturnsPlacement

(* A job moves from the batch to a worker that was free. *)
LEMMA HandToWorkerPlacement ==
    ASSUME PlacedInv, NEW q \in Queues, HandToWorker(q)
    PROVE  LifecycleStep /\ Placement'
<1>1. PICK ref \in batch[q], v \in Workers :
        /\ worker[v].idle
        /\ worker' = [worker EXCEPT ![v].idle = FALSE, ![v].send = ref.id,
                                    ![v].currentJob = ref]
        /\ batch' = [batch EXCEPT ![q] = @ \ {ref}]
  BY RingAtType DEF HandToWorker, PlacedInv, IInv, TypeOK
<1>2. UNCHANGED <<job, hpc, hresult, hjob, dpc, doneCh>>
  BY DEF HandToWorker, handlerVars
<1>3. /\ batch \in [Queues -> SUBSET [id : Jobs, attempts : Nat]] /\ ref.id \in Jobs
      /\ worker \in [Workers -> WsWorker]
  BY DEF PlacedInv, IInv, TypeOK
<1>4. LifecycleStep
  BY <1>2, Untouched
<1>5. batch'[q] = batch[q] \ {ref} /\ \A p \in Queues \ {q} : batch'[p] = batch[p]
  BY <1>1, <1>3
<1>6. /\ worker'[v].currentJob = ref /\ worker'[v].result = worker[v].result
      /\ \A u \in Workers \ {v} : worker'[u] = worker[u]
  BY <1>1, <1>3 DEF WsWorker
<1>7. worker[v].currentJob = Nil /\ hpc[v] # "inner"
  BY <1>1 DEF PlacedInv, IInv, HandlerShape
<1>8. ASSUME NEW j \in Jobs PROVE Placed(j)'
  <2>1. /\ \A p \in Queues : InBatch(p, j)' => InBatch(p, j)
        /\ \A u \in Workers \ {v} : Holds(u, j)' => Holds(u, j)
        /\ Holds(v, j)' => j = ref.id
        /\ \A u \in Workers : Reports(u, j)' => Reports(u, j)
        /\ j \in Range(doneCh') => j \in Range(doneCh)
    BY <1>2, <1>5, <1>6 DEF InBatch, Holds, Reports
  <2>2. CASE j = ref.id
    <3>1. InBatch(q, j)
      BY <2>2 DEF InBatch
    <3>2. <<"batch", q>> \in Places(j) /\ job'[j].status = "running"
      BY <1>2, <3>1, PlaceKinds, PlaceMeansRunning
    <3>3. ~InBatch(q, j)'
      BY <1>5, <2>2 DEF InBatch, PlacedInv, Placement, BatchShape
    <3>4. <<"batch", q>> \notin Places(j)'
      BY <3>3 DEF Places
    <3>5. Places(j)' \subseteq Places(j) \cup {<<"held", v>>}
      BY <2>1 DEF Places
    <3>6. Places(j)' \subseteq (Places(j) \ {<<"batch", q>>}) \cup {<<"held", v>>}
      BY <3>4, <3>5
    <3> QED BY <3>2, <3>6, Moved DEF PlacedInv, Placement
  <2>3. CASE j # ref.id
    <3>1. Places(j)' \subseteq Places(j)
      BY <2>1, <2>3, Fewer
    <3> QED BY <1>2, <3>1, Kept DEF PlacedInv, Placement
  <2> QED BY <2>2, <2>3
<1>9. ASSUME NEW p \in Queues PROVE BatchShape(p)'
  <2>1. BatchShape(p)
    BY DEF PlacedInv, Placement
  <2> QED BY <1>2, <1>5, <2>1 DEF BatchShape
<1>10. ASSUME NEW u \in Workers PROVE ResultShape(u)'
  <2>1. CASE u = v
    BY <1>2, <1>7, <2>1 DEF ResultShape, PlacedInv, Placement
  <2>2. CASE u # v
    BY <1>2, <1>4, <1>6, <2>2, ResultShapeKept
  <2> QED BY <2>1, <2>2
<1> QED BY <1>2, <1>4, <1>8, <1>9, <1>10, PlacementFrom DEF PlacedInv, Placement

LEMMA QueueStepPlacement ==
    ASSUME PlacedInv, NEW q \in Queues, QueueStep(q)
    PROVE  LifecycleStep /\ Placement'
  BY DispatcherQuietPlacement, ReserveBatchPlacement, RefuseByRatePlacement,
     PutBackUntakenPlacement, HandToWorkerPlacement DEF QueueStep, DispatcherStep
-----------------------------------------------------------------------------
(* What a step of w's connection leaves alone. *)
OnlyConnection(w) ==
    /\ UNCHANGED <<batch, dpc>>
    /\ \A v \in Workers \ {w} :
        /\ worker'[v] = worker[v]    /\ hpc'[v] = hpc[v]
        /\ hresult'[v] = hresult[v]  /\ hjob'[v] = hjob[v]

(* Every step of a connection stays within it. *)
LEMMA WorkerStepFrame ==
    ASSUME PlacedInv, NEW w \in Workers, WorkerStep(w)
    PROVE  OnlyConnection(w)
<1>1. /\ worker \in [Workers -> WsWorker] /\ hpc \in [Workers -> HandlerPc]
      /\ hresult \in [Workers -> Result] /\ hjob \in [Workers -> JobRef]
  BY DEF PlacedInv, IInv, TypeOK
<1>2. CASE Connect(w) \/ KickWorker(w) \/ HeartbeatExpire(w) \/ SendResult(w) \/ Disconnect(w)
  BY <1>1, <1>2 DEF Connect, KickWorker, HeartbeatExpire, SendResult, Disconnect,
     OnlyConnection, handlerVars, dispVars
<1>3. CASE WriteJob(w) \/ WriteFails(w) \/ SeeKick(w) \/ SeeDone(w) \/ JobTimeout(w) \/ TakeResult(w)
  BY <1>1, <1>3 DEF WriteJob, WriteFails, SeeKick, SeeDone, JobTimeout, TakeResult,
     OnlyConnection, dispVars
<1>4. CASE ReportSuccess(w) \/ ReadCachedJob(w) \/ LookupJob(w) \/ RetryLater(w) \/ MarkFailed(w)
  BY <1>1, <1>4 DEF ReportSuccess, ReadCachedJob, LookupJob, RetryLater, MarkFailed, BackToSelect,
     OnlyConnection, dispVars
<1>5. CASE InsertDeadLetter(w) \/ Reschedule(w) \/ Exit(w)
  BY <1>1, <1>5 DEF InsertDeadLetter, Reschedule, Exit, BackToSelect,
     OnlyConnection, dispVars
<1> QED BY <1>2, <1>3, <1>4, <1>5 DEF WorkerStep, HandlerStep

LEMMA ConnectionPlacement ==
    ASSUME PlacedInv, LifecycleStep, NEW w \in Workers, OnlyConnection(w), ResultShape(w)',
           IsInjective(doneCh'), \A j \in Jobs : Placed(j)'
    PROVE  Placement'
<1>1. \A q \in Queues : BatchShape(q)'
  BY DEF OnlyConnection, BatchShape, PlacedInv, Placement
<1>2. \A v \in Workers \ {w} : ResultShape(v)'
  BY ResultShapeKept DEF OnlyConnection
<1> QED BY <1>1, <1>2, PlacementFrom

(* The places of a job after a step of w's connection. *)
LEMMA ConnectionPlaces ==
    ASSUME NEW w \in Workers, NEW j, OnlyConnection(w)
    PROVE  Places(j)' \subseteq
                Places(j) \cup {x \in {<<"held", w>>} : Holds(w, j)'}
                          \cup {x \in {<<"report", w>>} : Reports(w, j)'}
                          \cup {x \in {<<"done", 0>>} : j \in Range(doneCh')}
<1>1. /\ \A q \in Queues : InBatch(q, j)' => InBatch(q, j)
      /\ \A v \in Workers \ {w} : Holds(v, j)' => Holds(v, j)
      /\ \A v \in Workers \ {w} : Reports(v, j)' => Reports(v, j)
  BY DEF OnlyConnection, InBatch, Holds, Reports
<1> QED BY <1>1 DEF Places

LEMMA ConnectionFewer ==
    ASSUME NEW w \in Workers, NEW j, OnlyConnection(w), Holds(w, j)' => Holds(w, j),
           Reports(w, j)' => Reports(w, j), j \in Range(doneCh') => j \in Range(doneCh)
    PROVE  Places(j)' \subseteq Places(j)
  BY Fewer DEF OnlyConnection, InBatch, Holds, Reports

(* A step of a connection that takes on no job and writes no row. *)
LEMMA QuietConnection ==
    ASSUME PlacedInv, NEW w \in Workers, OnlyConnection(w), UNCHANGED <<job, doneCh>>,
           ResultShape(w)',
           \A j \in Jobs : /\ Holds(w, j)' => Holds(w, j)
                           /\ Reports(w, j)' => Reports(w, j)
    PROVE  LifecycleStep /\ Placement'
<1>1. LifecycleStep
  BY Untouched
<1>2. \A j \in Jobs : Placed(j)'
  BY ConnectionFewer, Kept DEF PlacedInv, Placement
<1> QED BY <1>1, <1>2, ConnectionPlacement DEF PlacedInv, Placement

LEMMA OutsidePlacement ==
    ASSUME PlacedInv, NEW w \in Workers,
           Connect(w) \/ KickWorker(w) \/ HeartbeatExpire(w) \/ SendResult(w) \/ Disconnect(w)
    PROVE  LifecycleStep /\ Placement'
<1>1. OnlyConnection(w)
  BY WorkerStepFrame DEF WorkerStep
<1>2. /\ worker \in [Workers -> WsWorker] /\ hpc \in [Workers -> HandlerPc]
      /\ HandlerShape(w) /\ ResultShape(w)
  BY DEF PlacedInv, IInv, TypeOK, Placement
<1>3. UNCHANGED <<job, doneCh, hresult, hjob>>
  BY DEF Connect, KickWorker, HeartbeatExpire, SendResult, Disconnect, handlerVars
<1>4. CASE Connect(w)
  <2>1. hpc[w] = "off" /\ hpc'[w] = "outer" /\ worker'[w].currentJob = Nil
    BY <1>2, <1>4 DEF Connect, FreshWorker
  <2>2. ResultShape(w)'
    BY <2>1 DEF ResultShape
  <2>3. \A j \in Jobs : ~Holds(w, j)' /\ ~Reports(w, j)'
    BY <2>1, JobsAssumption DEF Holds, Reports, Nil
  <2> QED BY <1>1, <1>3, <2>2, <2>3, QuietConnection
<1>5. CASE KickWorker(w) \/ HeartbeatExpire(w) \/ Disconnect(w)
  <2>1. /\ hpc'[w] = hpc[w] /\ worker'[w].currentJob = worker[w].currentJob
        /\ worker'[w].result = worker[w].result
    BY <1>2, <1>5 DEF KickWorker, HeartbeatExpire, Disconnect, handlerVars, WsWorker
  <2>2. ResultShape(w)'
    BY <1>2, <1>3, <2>1 DEF ResultShape
  <2>3. \A j \in Jobs : (Holds(w, j)' => Holds(w, j)) /\ (Reports(w, j)' => Reports(w, j))
    BY <1>3, <2>1 DEF Holds, Reports
  <2> QED BY <1>1, <1>3, <2>2, <2>3, QuietConnection
<1>6. CASE SendResult(w)
  <2>1. /\ hpc'[w] = hpc[w] /\ worker'[w].currentJob = worker[w].currentJob
    BY <1>2, <1>6 DEF SendResult, handlerVars, WsWorker
  <2>2. worker'[w].result.job = worker[w].currentJob.id
    <3>1. client[w] # 0 /\ worker[w].result = NoResult /\ client[w] = worker[w].currentJob.id
      BY <1>2, <1>6 DEF SendResult, HandlerShape
    <3>2. PICK ok \in BOOLEAN : worker' = [worker EXCEPT ![w].result =
                IF @ = NoResult THEN [job |-> client[w], ok |-> ok] ELSE @]
      BY <1>6 DEF SendResult
    <3>3. worker'[w].result = [job |-> client[w], ok |-> ok]
      BY <1>2, <3>1, <3>2 DEF WsWorker
    <3> QED BY <3>1, <3>3
  <2>3. ResultShape(w)'
    BY <1>2, <1>3, <2>1, <2>2 DEF ResultShape
  <2>4. \A j \in Jobs : (Holds(w, j)' => Holds(w, j)) /\ (Reports(w, j)' => Reports(w, j))
    BY <1>3, <2>1 DEF Holds, Reports
  <2> QED BY <1>1, <1>3, <2>3, <2>4, QuietConnection
<1> QED BY <1>4, <1>5, <1>6

LEMMA SelectPlacement ==
    ASSUME PlacedInv, NEW w \in Workers,
           WriteJob(w) \/ WriteFails(w) \/ SeeKick(w) \/ SeeDone(w) \/ JobTimeout(w)
    PROVE  LifecycleStep /\ Placement'
<1>1. OnlyConnection(w)
  BY WorkerStepFrame DEF WorkerStep, HandlerStep
<1>2. /\ worker \in [Workers -> WsWorker] /\ hpc \in [Workers -> HandlerPc]
      /\ HandlerShape(w) /\ ResultShape(w)
  BY DEF PlacedInv, IInv, TypeOK, Placement
<1>3. UNCHANGED <<job, doneCh, hresult, hjob>>
  BY DEF WriteJob, WriteFails, SeeKick, SeeDone, JobTimeout
<1>4. /\ hpc[w] \in {"outer", "inner"}
      /\ hpc'[w] \in {"inner", "resched"}
      /\ hpc'[w] = "inner" => hpc[w] = "outer"
      /\ worker'[w].currentJob = worker[w].currentJob
      /\ worker'[w].result = worker[w].result
  BY <1>2 DEF WriteJob, WriteFails, SeeKick, SeeDone, JobTimeout, WsWorker
<1>5. ResultShape(w)'
  BY <1>2, <1>4 DEF ResultShape, HandlerShape
<1>6. \A j \in Jobs : (Holds(w, j)' => Holds(w, j)) /\ (Reports(w, j)' => Reports(w, j))
  BY <1>4 DEF Holds, Reports
<1> QED BY <1>1, <1>3, <1>5, <1>6, QuietConnection

(* The job moves from the worker to its handler's result. *)
LEMMA TakeResultPlacement ==
    ASSUME PlacedInv, NEW w \in Workers, TakeResult(w)
    PROVE  LifecycleStep /\ Placement'
<1>1. OnlyConnection(w)
  BY WorkerStepFrame DEF WorkerStep, HandlerStep
<1>2. /\ worker \in [Workers -> WsWorker] /\ hpc \in [Workers -> HandlerPc]
      /\ hresult \in [Workers -> Result] /\ ResultShape(w)
  BY DEF PlacedInv, IInv, TypeOK, Placement
<1>3. UNCHANGED <<job, doneCh>>
  BY DEF TakeResult
<1>4. /\ hpc[w] = "inner" /\ hpc'[w] = "report"
      /\ hresult'[w].job = worker[w].currentJob.id
      /\ worker'[w].currentJob = Nil
  BY <1>2 DEF TakeResult, ResultShape, WsWorker
<1>5. LifecycleStep
  BY <1>3, Untouched
<1>6. ResultShape(w)'
  BY <1>4 DEF ResultShape
<1>7. ASSUME NEW j \in Jobs PROVE Placed(j)'
  <2>1. ~Holds(w, j)'
    BY <1>4, JobsAssumption DEF Holds, Nil
  <2>2. Reports(w, j)' => Holds(w, j)
    BY <1>4 DEF Reports, Holds
  <2>3. CASE Holds(w, j)
    <3>1. <<"held", w>> \in Places(j) /\ job'[j].status = "running"
      BY <1>3, <2>3, PlaceKinds, PlaceMeansRunning
    <3>2. Places(j)' \subseteq Places(j) \cup {<<"report", w>>}
      BY <1>1, <1>3, <2>1, ConnectionPlaces, PlaceKinds
    <3>3. <<"held", w>> \notin Places(j)'
      BY <2>1 DEF Places
    <3>4. Places(j)' \subseteq (Places(j) \ {<<"held", w>>}) \cup {<<"report", w>>}
      BY <3>2, <3>3
    <3> QED BY <3>1, <3>4, Moved DEF PlacedInv, Placement
  <2>4. CASE ~Holds(w, j)
    <3>1. Places(j)' \subseteq Places(j)
      BY <1>1, <1>3, <2>1, <2>2, <2>4, ConnectionFewer
    <3> QED BY <1>3, <3>1, Kept DEF PlacedInv, Placement
  <2> QED BY <2>3, <2>4
<1> QED BY <1>1, <1>3, <1>5, <1>6, <1>7, ConnectionPlacement DEF PlacedInv, Placement

(* The job moves from the handler to the done coalescer. *)
LEMMA ReportSuccessPlacement ==
    ASSUME PlacedInv, NEW w \in Workers, ReportSuccess(w)
    PROVE  LifecycleStep /\ Placement'
<1>1. OnlyConnection(w)
  BY WorkerStepFrame DEF WorkerStep, HandlerStep
<1> DEFINE k == hresult[w].job
<1>2. /\ hpc \in [Workers -> HandlerPc] /\ hpc[w] = "report" /\ k \in Jobs
      /\ doneCh \in Seq(Jobs)
  BY DEF ReportSuccess, PlacedInv, IInv, TypeOK, HandlerShape
<1>3. /\ UNCHANGED <<job, worker>> /\ hpc'[w] = "outer" /\ doneCh' = Append(doneCh, k)
  BY <1>2 DEF ReportSuccess, BackToSelect
<1>4. LifecycleStep
  BY <1>3, Untouched
<1>5. ResultShape(w)'
  BY <1>3 DEF ResultShape
<1>6. Reports(w, k)
  BY <1>2 DEF Reports
<1>7. k \notin Range(doneCh)
  <2>1. SUFFICES ASSUME k \in Range(doneCh) PROVE FALSE
    OBVIOUS
  <2>2. <<"report", w>> \in Places(k) /\ <<"done", 0>> \in Places(k)
    BY <1>6, <2>1, PlaceKinds
  <2>3. <<"report", w>> = <<"done", 0>>
    BY <1>2, <2>2 DEF PlacedInv, Placement, Placed
  <2> QED BY <2>3
<1>8. /\ DOMAIN doneCh' = 1..(Len(doneCh) + 1) /\ DOMAIN doneCh = 1..Len(doneCh)
      /\ Len(doneCh) \in Nat
      /\ \A i \in 1..Len(doneCh) : doneCh'[i] = doneCh[i]
      /\ doneCh'[Len(doneCh) + 1] = k
  BY <1>2, <1>3
<1>9. IsInjective(doneCh')
  <2>1. \A i \in 1..Len(doneCh) : doneCh'[i] # k
    BY <1>7, <1>8 DEF Range
  <2>2. ASSUME NEW a \in DOMAIN doneCh', NEW b \in DOMAIN doneCh', doneCh'[a] = doneCh'[b]
        PROVE  a = b
    BY <1>8, <2>1, <2>2 DEF PlacedInv, Placement, IsInjective
  <2> QED BY <2>2 DEF IsInjective
<1>10. \A x \in Range(doneCh') : x \in Range(doneCh) \/ x = k
  BY <1>8 DEF Range
<1>11. ASSUME NEW j \in Jobs PROVE Placed(j)'
  <2>1. ~Reports(w, j)'
    BY <1>3 DEF Reports
  <2>2. Holds(w, j)' => Holds(w, j)
    BY <1>2, <1>3 DEF Holds
  <2>3. CASE j = k
    <3>1. <<"report", w>> \in Places(j) /\ job'[j].status = "running"
      BY <1>3, <1>6, <2>3, PlaceKinds, PlaceMeansRunning
    <3>2. Places(j)' \subseteq Places(j) \cup {<<"done", 0>>}
      BY <1>1, <2>1, <2>2, ConnectionPlaces, PlaceKinds
    <3>3. <<"report", w>> \notin Places(j)'
      BY <2>1 DEF Places
    <3>4. Places(j)' \subseteq (Places(j) \ {<<"report", w>>}) \cup {<<"done", 0>>}
      BY <3>2, <3>3
    <3> QED BY <3>1, <3>4, Moved DEF PlacedInv, Placement
  <2>4. CASE j # k
    <3>1. Places(j)' \subseteq Places(j)
      BY <1>1, <1>10, <2>1, <2>2, <2>4, ConnectionFewer
    <3> QED BY <1>3, <3>1, Kept DEF PlacedInv, Placement
  <2> QED BY <2>3, <2>4
<1> QED BY <1>1, <1>4, <1>5, <1>9, <1>11, ConnectionPlacement
(* The cached Job is read after the worker went idle: had it got another   *)
(* job by then, the failure would be charged to that one. *)
LEMMA ReadCachedJobPlacement ==
    ASSUME PlacedInv, FailureChargedToReported', NEW w \in Workers, ReadCachedJob(w)
    PROVE  LifecycleStep /\ Placement'
<1>1. OnlyConnection(w)
  BY WorkerStepFrame DEF WorkerStep, HandlerStep
<1>2. /\ hpc \in [Workers -> HandlerPc] /\ worker[w].currentJob \in JobRef
      /\ hpc[w] = "report" /\ hresult[w].job \in Jobs
  BY DEF ReadCachedJob, PlacedInv, IInv, TypeOK, HandlerShape, WsWorker
<1>3. UNCHANGED <<job, doneCh, worker, hresult>>
  BY DEF ReadCachedJob
<1>4. worker[w].currentJob = Nil
  <2>1. SUFFICES ASSUME worker[w].currentJob # Nil PROVE FALSE
    OBVIOUS
  <2>2. hpc'[w] = "failing" /\ hjob'[w] = worker[w].currentJob
    BY <1>2, <2>1 DEF ReadCachedJob, PlacedInv, IInv, TypeOK
  <2>3. worker[w].currentJob.id = hresult[w].job
    BY <1>3, <2>2 DEF FailureChargedToReported
  <2> DEFINE k == hresult[w].job
  <2>4. <<"held", w>> \in Places(k) /\ <<"report", w>> \in Places(k)
    BY <1>2, <2>3, PlaceKinds DEF Holds, Reports
  <2>5. <<"held", w>> = <<"report", w>>
    BY <1>2, <2>4 DEF PlacedInv, Placement, Placed
  <2> QED BY <2>5
<1>5. hpc'[w] = "lookup"
  BY <1>2, <1>4 DEF ReadCachedJob
<1>6. ResultShape(w)'
  BY <1>5 DEF ResultShape
<1>7. \A j \in Jobs : (Holds(w, j)' => Holds(w, j)) /\ (Reports(w, j)' => Reports(w, j))
  BY <1>2, <1>3, <1>5 DEF Holds, Reports
<1> QED BY <1>1, <1>3, <1>6, <1>7, QuietConnection

LEMMA LookupJobPlacement ==
    ASSUME PlacedInv, NEW w \in Workers, LookupJob(w)
    PROVE  LifecycleStep /\ Placement'
<1>1. OnlyConnection(w)
  BY WorkerStepFrame DEF WorkerStep, HandlerStep
<1>2. /\ hpc[w] = "lookup" /\ hresult[w].job \in Jobs
      /\ UNCHANGED <<job, doneCh, worker, hresult>>
  BY DEF LookupJob, PlacedInv, IInv, HandlerShape
<1>3. /\ hpc'[w] = "failing"
      /\ hjob'[w] = [id |-> hresult[w].job, attempts |-> job[hresult[w].job].attempts]
  BY DEF LookupJob, PlacedInv, IInv, TypeOK
<1>4. ResultShape(w)'
  BY <1>2, <1>3 DEF ResultShape
<1>5. \A j \in Jobs : (Holds(w, j)' => Holds(w, j)) /\ (Reports(w, j)' => Reports(w, j))
  BY <1>2, <1>3 DEF Holds, Reports
<1> QED BY <1>1, <1>2, <1>4, <1>5, QuietConnection

(* The verdict of handleJobFailure: the job leaves its handler with the    *)
(* status the statement writes. *)
LEMMA VerdictPlacement ==
    ASSUME PlacedInv, LifecycleStep, NEW w \in Workers, OnlyConnection(w), hpc[w] = "failing",
           hpc'[w] \in {"outer", "bury"}, UNCHANGED <<worker, doneCh>>,
           \A j \in Jobs : j # hjob[w].id => job'[j].status = job[j].status
    PROVE  Placement'
<1> DEFINE k == hjob[w].id
<1>1. k \in Jobs /\ Reports(w, k)
  BY DEF PlacedInv, Placement, ResultShape, FailureChargedToReported, Reports
<1>2. ResultShape(w)'
  BY DEF ResultShape
<1>3. ASSUME NEW j \in Jobs PROVE Placed(j)'
  <2>1. ~Reports(w, j)' /\ (Holds(w, j)' => Holds(w, j))
    BY DEF Reports, Holds
  <2>2. Places(j)' \subseteq Places(j)
    BY <2>1, ConnectionFewer
  <2>3. CASE j = k
    <3>1. <<"report", w>> \in Places(j)
      BY <1>1, <2>3, PlaceKinds
    <3>2. <<"report", w>> \notin Places(j)'
      BY <2>1 DEF Places
    <3>3. Places(j)' \subseteq Places(j) \ {<<"report", w>>}
      BY <2>2, <3>2
    <3> QED BY <3>1, <3>3, Released DEF PlacedInv, Placement
  <2>4. CASE j # k
    BY <2>2, <2>4, Kept DEF PlacedInv, Placement
  <2> QED BY <2>3, <2>4
<1> QED BY <1>2, <1>3, ConnectionPlacement DEF PlacedInv, Placement

LEMMA RetryLaterPlacement ==
    ASSUME PlacedInv, NEW w \in Workers, RetryLater(w)
    PROVE  LifecycleStep /\ Placement'
<1>1. OnlyConnection(w)
  BY WorkerStepFrame DEF WorkerStep, HandlerStep
<1> DEFINE k == hjob[w].id
<1>2. /\ hpc[w] = "failing" /\ hpc'[w] = "outer"
      /\ UNCHANGED <<worker, doneCh>> /\ job' = PutBackAt(job, k, FALSE)
  BY DEF RetryLater, BackToSelect, PlacedInv, IInv, TypeOK
<1>3. k \in Jobs /\ Reports(w, k)
  BY <1>2 DEF PlacedInv, Placement, ResultShape, FailureChargedToReported, Reports
<1>4. job[k].status = "running" /\ job \in [Jobs -> Row]
  BY <1>3, PlaceMeansRunning DEF PlacedInv, IInv, TypeOK
<1>5. \A j \in Jobs : /\ job'[j].attempts = job[j].attempts
                      /\ job'[j].status = IF j \in {k} THEN "pending" ELSE job[j].status
  BY <1>2, <1>3, <1>4 DEF PutBackAt, Rows, Row
<1>6. LifecycleStep
  BY <1>3, <1>4, <1>5, GiveBackStep
<1> QED BY <1>1, <1>2, <1>5, <1>6, VerdictPlacement

LEMMA MarkFailedPlacement ==
    ASSUME PlacedInv, NEW w \in Workers, MarkFailed(w)
    PROVE  LifecycleStep /\ Placement'
<1>1. OnlyConnection(w)
  BY WorkerStepFrame DEF WorkerStep, HandlerStep
<1> DEFINE k == hjob[w].id
<1>2. /\ hpc[w] = "failing" /\ hpc'[w] = "bury" /\ ~MayRetry(k, hjob[w].attempts)
      /\ UNCHANGED <<worker, doneCh>> /\ job' = SetFailed(job, k)
  BY DEF MarkFailed, PlacedInv, IInv, TypeOK
<1>3. k \in Jobs /\ Reports(w, k) /\ hjob[w].attempts = job[k].attempts
  BY <1>2 DEF PlacedInv, Placement, ResultShape, FailureChargedToReported, Reports
<1>4. job[k].status = "running" /\ job \in [Jobs -> Row]
  BY <1>3, PlaceMeansRunning DEF PlacedInv, IInv, TypeOK
<1>5. job[k].attempts >= Limit[k]
  BY <1>2, <1>3, <1>4, LimitAssumption DEF MayRetry, Row
<1>6. \A j \in Jobs : /\ job'[j].attempts = job[j].attempts
                      /\ job'[j].status = IF j = k THEN "failed" ELSE job[j].status
  BY <1>2, <1>3, <1>4 DEF SetFailed, Rows, Row
<1>7. LifecycleStep
  BY <1>3, <1>4, <1>5, <1>6, DeadLetterStep
<1> QED BY <1>1, <1>2, <1>6, <1>7, VerdictPlacement

LEMMA InsertDeadLetterPlacement ==
    ASSUME PlacedInv, NEW w \in Workers, InsertDeadLetter(w)
    PROVE  LifecycleStep /\ Placement'
<1>1. OnlyConnection(w)
  BY WorkerStepFrame DEF WorkerStep, HandlerStep
<1>2. /\ hpc[w] = "bury" /\ hpc'[w] = "outer" /\ UNCHANGED <<job, doneCh, worker>>
  BY DEF InsertDeadLetter, BackToSelect, PlacedInv, IInv, TypeOK
<1>3. ResultShape(w)'
  BY <1>2 DEF ResultShape
<1>4. \A j \in Jobs : (Holds(w, j)' => Holds(w, j)) /\ (Reports(w, j)' => Reports(w, j))
  BY <1>2 DEF Holds, Reports
<1> QED BY <1>1, <1>2, <1>3, <1>4, QuietConnection

(* rescheduleCurrentJob gives up the job and then its handler leaves. *)
LEMMA ReschedulePlacement ==
    ASSUME PlacedInv, NEW w \in Workers, Reschedule(w)
    PROVE  LifecycleStep /\ Placement'
<1>1. OnlyConnection(w)
  BY WorkerStepFrame DEF WorkerStep, HandlerStep
<1> DEFINE k == worker[w].currentJob.id
           S == {j \in {k} : j \in Jobs /\ job[j].status = "running"}
<1>2. /\ hpc[w] = "resched" /\ hpc'[w] = "exit" /\ job \in [Jobs -> Row]
      /\ UNCHANGED <<worker, doneCh>> /\ job' = PutBackIfRunning(job, {k})
  BY DEF Reschedule, PlacedInv, IInv, TypeOK
<1>3. \A j \in Jobs : /\ job'[j].attempts = job[j].attempts
                      /\ job'[j].status = IF j \in S THEN "pending" ELSE job[j].status
  BY <1>2 DEF PutBackIfRunning, Row
<1>4. LifecycleStep
  BY <1>3, GiveBackStep
<1>5. ResultShape(w)'
  BY <1>2 DEF ResultShape
<1>6. ASSUME NEW j \in Jobs PROVE Placed(j)'
  <2>1. ~Reports(w, j)' /\ ~Holds(w, j)'
    BY <1>2 DEF Reports, Holds
  <2>2. Places(j)' \subseteq Places(j)
    BY <1>1, <1>2, <2>1, ConnectionFewer
  <2>3. CASE j = k
    <3>1. <<"held", w>> \in Places(j)
      BY <1>2, <2>3, PlaceKinds DEF Holds
    <3>2. <<"held", w>> \notin Places(j)'
      BY <2>1 DEF Places
    <3>3. Places(j)' \subseteq Places(j) \ {<<"held", w>>}
      BY <2>2, <3>2
    <3> QED BY <3>1, <3>3, Released DEF PlacedInv, Placement
  <2>4. CASE j # k
    BY <1>3, <2>2, <2>4, Kept DEF PlacedInv, Placement
  <2> QED BY <2>3, <2>4
<1> QED BY <1>1, <1>2, <1>4, <1>5, <1>6, ConnectionPlacement DEF PlacedInv, Placement

LEMMA ExitPlacement ==
    ASSUME PlacedInv, NEW w \in Workers, Exit(w)
    PROVE  LifecycleStep /\ Placement'
<1>1. OnlyConnection(w)
  BY WorkerStepFrame DEF WorkerStep, HandlerStep
<1>2. /\ hpc'[w] = "off" /\ worker'[w].currentJob = Nil /\ UNCHANGED <<job, doneCh>>
  BY DEF Exit, FreshWorker, PlacedInv, IInv, TypeOK
<1>3. ResultShape(w)'
  BY <1>2 DEF ResultShape
<1>4. \A j \in Jobs : ~Holds(w, j)' /\ ~Reports(w, j)'
  BY <1>2, JobsAssumption DEF Holds, Reports, Nil
<1> QED BY <1>1, <1>2, <1>3, <1>4, QuietConnection

(* One step of the system: the lifecycle allows it and ownership remains. *)
LEMMA StepPlacement ==
    ASSUME PlacedInv, FailureChargedToReported', "earlyreap" \notin Env, [Next]_vars
    PROVE  LifecycleStep /\ Placement'
<1>1. CASE \E w \in Workers : WorkerStep(w)
  BY <1>1, OutsidePlacement, SelectPlacement, TakeResultPlacement, ReportSuccessPlacement,
     ReadCachedJobPlacement, LookupJobPlacement, RetryLaterPlacement, MarkFailedPlacement,
     InsertDeadLetterPlacement, ReschedulePlacement, ExitPlacement
  DEF WorkerStep, HandlerStep
<1>2. CASE UNCHANGED vars
  <2>1. UNCHANGED <<job, worker, hpc, hresult, hjob, batch, dpc, doneCh>>
    BY <1>2 DEF vars, handlerVars, dispVars
  <2>2. LifecycleStep
    BY <2>1, Untouched
  <2> QED BY <2>1, <2>2, RowsOnly
<1> QED BY <1>1, <1>2, JobStepPlacement, QueueStepPlacement, FlushDonePlacement,
           CrashRestartPlacement DEF Next

LEMMA InitPlacement == Init => Placement /\ Lifecycle!Init
<1> SUFFICES ASSUME Init PROVE Placement /\ Lifecycle!Init
  OBVIOUS
<1>1. \A j \in Jobs : job[j] = NoRow
  BY DEF Init, EmptyTable
<1>2. /\ \A q \in Queues : batch[q] = {}
      /\ \A w \in Workers : hpc[w] = "off" /\ worker[w].currentJob = Nil
      /\ doneCh = <<>>
  BY DEF Init, FreshWorker
<1>3. ASSUME NEW j \in Jobs PROVE Placed(j)
  <2>1. Places(j) = {}
    BY <1>2, JobsAssumption DEF Places, InBatch, Holds, Reports, Nil, Range
  <2> QED BY <2>1 DEF Placed
<1>4. (\A q \in Queues : BatchShape(q)) /\ (\A w \in Workers : ResultShape(w)) /\ IsInjective(doneCh)
  BY <1>2 DEF BatchShape, ResultShape, IsInjective
<1>5. Lifecycle!Init
  BY <1>1 DEF Lifecycle!Init, NoRow
<1> QED BY <1>1, <1>3, <1>4, <1>5 DEF Placement, NoRow
-----------------------------------------------------------------------------
(* Whom a failure is charged to. A handler that is not waiting for a result*)
(* has a current job only while the message for it is still in the send    *)
(* channel; so the job found instead of the reported one is that job.      *)
ChargeShape(w) ==
    /\ hpc[w] \notin {"inner", "resched", "exit"} /\ worker[w].currentJob # Nil =>
        worker[w].send = worker[w].currentJob.id
    /\ hpc[w] \in {"failing", "bury"} =>
        \/ hjob[w].id = hresult[w].job
        \/ /\ hjob[w] = worker[w].currentJob
           /\ hjob[w].id = worker[w].send
           /\ ~worker[w].idle

(* A connection of which nothing changes but its results and its signals. *)
LEMMA ChargeFrame ==
    ASSUME NEW w, ChargeShape(w), hpc'[w] = hpc[w], hresult'[w] = hresult[w],
           hjob'[w] = hjob[w], worker'[w].currentJob = worker[w].currentJob,
           worker'[w].send = worker[w].send, worker'[w].idle = worker[w].idle
    PROVE  ChargeShape(w)'
  BY DEF ChargeShape

LEMMA QueueStepCharge ==
    ASSUME IInv, NEW w \in Workers, ChargeShape(w), NEW q \in Queues, QueueStep(q)
    PROVE  ChargeShape(w)'
<1>1. worker \in [Workers -> WsWorker] /\ hpc \in [Workers -> HandlerPc]
  BY DEF IInv, TypeOK
<1>2. CASE HandToWorker(q)
  <2>1. PICK ref \in batch[q], i \in Takers(q) :
          worker' = [worker EXCEPT ![RingAt(i)].idle = FALSE, ![RingAt(i)].send = ref.id,
                                   ![RingAt(i)].currentJob = ref]
    BY <1>2 DEF HandToWorker
  <2> DEFINE v == RingAt(i)
  <2>2. v \in Workers /\ worker[v].idle
    BY RingAtType DEF IInv, TypeOK, Takers, IdleWorkers
  <2> HIDE DEF v
  <2>3. worker' = [worker EXCEPT ![v].idle = FALSE, ![v].send = ref.id, ![v].currentJob = ref]
    BY <2>1 DEF v
  <2>4. UNCHANGED <<hpc, hresult, hjob>>
    BY <1>2 DEF HandToWorker, handlerVars
  <2>5. CASE v = w
    <3>1. worker'[w].send = ref.id /\ worker'[w].currentJob = ref
      BY <1>1, <2>3, <2>5 DEF WsWorker
    <3>2. hpc[w] \in {"failing", "bury"} => hjob[w].id = hresult[w].job
      BY <2>2, <2>5 DEF ChargeShape
    <3> QED BY <2>4, <3>1, <3>2 DEF ChargeShape
  <2>6. CASE v # w
    BY <1>1, <2>2, <2>3, <2>4, <2>6, ChargeFrame
  <2> QED BY <2>5, <2>6
<1>3. CASE ~HandToWorker(q)
  <2>1. UNCHANGED <<worker, hpc, hresult, hjob>>
    BY <1>3 DEF QueueStep, DispatcherStep, PauseQueue, ResumeQueue, Wake, CountIdle,
       ReserveBatch, RefuseByRate, NoTaker, PutBackUntaken, EndBatch, handlerVars
  <2> QED BY <2>1, ChargeFrame
<1> QED BY <1>2, <1>3

LEMMA WorkerStepCharge ==
    ASSUME IInv, NEW w \in Workers, ChargeShape(w), NEW v \in Workers, WorkerStep(v)
    PROVE  ChargeShape(w)'
<1>1. /\ worker \in [Workers -> WsWorker] /\ hpc \in [Workers -> HandlerPc]
      /\ hresult \in [Workers -> Result] /\ hjob \in [Workers -> JobRef]
      /\ HandlerShape(w)
  BY DEF IInv, TypeOK
<1>2. CASE v # w
  <2>1. /\ worker'[w] = worker[w] /\ hpc'[w] = hpc[w]
        /\ hresult'[w] = hresult[w] /\ hjob'[w] = hjob[w]
    BY <1>1, <1>2 DEF WorkerStep, HandlerStep, Connect, KickWorker, HeartbeatExpire, SendResult,
       Disconnect, WriteJob, WriteFails, SeeKick, SeeDone, JobTimeout, TakeResult, ReportSuccess,
       ReadCachedJob, LookupJob, RetryLater, MarkFailed, InsertDeadLetter, Reschedule, Exit,
       BackToSelect, handlerVars
  <2> QED BY <2>1, ChargeFrame
<1>3. CASE v = w
  <2>1. CASE KickWorker(w) \/ HeartbeatExpire(w) \/ SendResult(w) \/ Disconnect(w)
    <3>1. UNCHANGED <<hpc, hresult, hjob>>
      BY <2>1 DEF KickWorker, HeartbeatExpire, SendResult, Disconnect, handlerVars
    <3>2. /\ worker'[w].currentJob = worker[w].currentJob
          /\ worker'[w].send = worker[w].send /\ worker'[w].idle = worker[w].idle
      BY <1>1, <2>1 DEF KickWorker, HeartbeatExpire, SendResult, Disconnect, WsWorker
    <3> QED BY <3>1, <3>2, ChargeFrame
  <2>2. CASE Connect(w) \/ Exit(w)
    <3>1. worker'[w].currentJob = Nil /\ hpc'[w] \in {"off", "outer"}
      BY <1>1, <2>2 DEF Connect, Exit, FreshWorker
    <3> QED BY <3>1 DEF ChargeShape
  <2>3. CASE WriteJob(w) \/ WriteFails(w) \/ SeeKick(w) \/ SeeDone(w) \/ JobTimeout(w)
    <3>1. hpc'[w] \in {"inner", "resched"}
      BY <1>1, <2>3 DEF WriteJob, WriteFails, SeeKick, SeeDone, JobTimeout
    <3> QED BY <3>1 DEF ChargeShape
  <2>4. CASE TakeResult(w)
    <3>1. worker'[w].currentJob = Nil /\ hpc'[w] = "report"
      BY <1>1, <2>4 DEF TakeResult, WsWorker
    <3> QED BY <3>1 DEF ChargeShape
  <2>5. CASE ReportSuccess(w) \/ RetryLater(w) \/ InsertDeadLetter(w) \/ Reschedule(w)
    <3>1. worker' = worker /\ hpc'[w] \in {"outer", "exit"}
      BY <1>1, <2>5 DEF ReportSuccess, RetryLater, InsertDeadLetter, Reschedule, BackToSelect
    <3>2. hpc[w] \notin {"inner", "exit"} /\ (hpc[w] = "resched" => hpc'[w] = "exit")
      BY <1>1, <2>5 DEF ReportSuccess, RetryLater, InsertDeadLetter, Reschedule
    <3> QED BY <3>1, <3>2 DEF ChargeShape
  <2>6. CASE ReadCachedJob(w)
    <3>1. worker' = worker /\ hresult' = hresult /\ hpc[w] = "report"
      BY <2>6 DEF ReadCachedJob
    <3>2. CASE worker[w].currentJob = Nil
      <4>1. hpc'[w] = "lookup"
        BY <1>1, <2>6, <3>2 DEF ReadCachedJob
      <4> QED BY <3>1, <3>2, <4>1 DEF ChargeShape
    <3>3. CASE worker[w].currentJob # Nil
      <4>1. worker[w].send = worker[w].currentJob.id /\ ~worker[w].idle
        BY <1>1, <3>1, <3>3 DEF ChargeShape, HandlerShape
      <4>2. hjob'[w] = worker[w].currentJob /\ hpc'[w] = "failing"
        BY <1>1, <2>6, <3>3 DEF ReadCachedJob
      <4> QED BY <3>1, <4>1, <4>2 DEF ChargeShape
    <3> QED BY <3>2, <3>3
  <2>7. CASE LookupJob(w)
    <3>1. hjob'[w].id = hresult[w].job /\ hpc'[w] = "failing" /\ hpc[w] = "lookup"
      BY <1>1, <2>7 DEF LookupJob
    <3> QED BY <2>7, <3>1 DEF LookupJob, ChargeShape
  <2>8. CASE MarkFailed(w)
    <3>1. hpc'[w] = "bury" /\ hpc[w] = "failing" /\ UNCHANGED <<worker, hresult, hjob>>
      BY <1>1, <2>8 DEF MarkFailed
    <3> QED BY <3>1 DEF ChargeShape
  <2> QED BY <1>3, <2>1, <2>2, <2>3, <2>4, <2>5, <2>6, <2>7, <2>8 DEF WorkerStep, HandlerStep
<1> QED BY <1>2, <1>3

(* A failure that is not charged to the job reported is charged to the job *)
(* in the worker's own send channel, for every environment: through what   *)
(* other connections, dispatchers, reapers and administrators do between   *)
(* the result and the statement that deals with it.                        *)
THEOREM ChargeStays == Spec => []ChargeStaysWithWorker
<1> DEFINE ChargeInv == \A w \in Workers : ChargeShape(w)
<1>1. Init => ChargeInv
  BY DEF Init, ChargeShape, FreshWorker
<1>2. IInv /\ ChargeInv /\ [Next]_vars => ChargeInv'
  <2> SUFFICES ASSUME IInv, ChargeInv, [Next]_vars, NEW w \in Workers PROVE ChargeShape(w)'
    OBVIOUS
  <2>1. CASE \E j \in Jobs : JobStep(j)
    <3>1. UNCHANGED <<worker, hpc, hresult, hjob>>
      BY <2>1 DEF JobStep, Dispatch, BecomeDue, Cancel, ReapStale, ReapEarly, handlerVars
    <3> QED BY <3>1, ChargeFrame
  <2>2. CASE FlushDone \/ UNCHANGED vars
    <3>1. UNCHANGED <<worker, hpc, hresult, hjob>>
      BY <2>2 DEF FlushDone, vars, handlerVars
    <3> QED BY <3>1, ChargeFrame
  <2>3. CASE CrashRestart
    BY <2>3 DEF CrashRestart, FreshWorker, ChargeShape
  <2> QED BY <2>1, <2>2, <2>3, QueueStepCharge, WorkerStepCharge DEF Next
<1>3. ChargeInv => ChargeStaysWithWorker
  BY DEF ChargeShape, ChargeStaysWithWorker
<1> HIDE DEF ChargeInv
<1> QED BY <1>1, <1>2, <1>3, Invariance, PTL DEF Spec
-----------------------------------------------------------------------------
(* The reaper's threshold is as the README asks: no early reap. *)
LEMMA PlacedThroughout ==
    ASSUME "earlyreap" \notin Env
    PROVE  Spec /\ []FailureChargedToReported => []PlacedInv
<1>1. Init => Placement
  BY InitPlacement
<1>2. IInv /\ Placement /\ FailureChargedToReported /\ FailureChargedToReported' /\ [Next]_vars
        => Placement'
  BY StepPlacement DEF PlacedInv
<1>3. IInv /\ Placement /\ FailureChargedToReported => PlacedInv
  BY DEF PlacedInv
<1> QED BY <1>1, <1>2, <1>3, Invariance, PTL DEF Spec

(* No job is held by two connections, and a held job is running, as long   *)
(* as failures are charged to the job reported: through disconnections,    *)
(* kicks, timeouts, requeues, refusals, reaps and crashes.                 *)
THEOREM HeldOnce ==
    ASSUME "earlyreap" \notin Env
    PROVE  Spec /\ []FailureChargedToReported => []OneHolder
<1>1. PlacedInv => OneHolder
  <2> SUFFICES ASSUME PlacedInv, NEW w \in Workers, NEW j \in Jobs, Holds(w, j)
               PROVE  job[j].status = "running" /\ \A v \in Workers \ {w} : ~Holds(v, j)
    BY DEF OneHolder
  <2>1. ASSUME NEW v \in Workers, Holds(v, j) PROVE v = w
    <3>1. <<"held", v>> \in Places(j) /\ <<"held", w>> \in Places(j)
      BY <2>1, PlaceKinds
    <3>2. <<"held", v>> = <<"held", w>>
      BY <3>1 DEF PlacedInv, Placement, Placed
    <3> QED BY <3>2
  <2> QED BY <2>1, PlaceMeansRunning
<1> QED BY <1>1, PlacedThroughout, PTL

(* Under the same condition every statement that changes a row is a step   *)
(* of JobLifecycle: no row is leased, given back, finished, dead-lettered  *)
(* or cancelled but from the status, and with the attempts, it allows.     *)
THEOREM Refines ==
    ASSUME "earlyreap" \notin Env
    PROVE  Spec /\ []FailureChargedToReported => ImplementsLifecycle
<1>1. Init => Lifecycle!Init
  BY InitPlacement
<1>2. PlacedInv /\ PlacedInv' /\ [Next]_vars => [Lifecycle!Next]_(Lifecycle!lifecycleVars)
  BY StepPlacement DEF PlacedInv, LifecycleStep
<1> QED BY <1>1, <1>2, PlacedThroughout, PTL DEF Spec, ImplementsLifecycle, Lifecycle!Spec
(* Who changes the done queue, and who ends the report of a success. *)
LEMMA DoneChOnlyBy ==
    ASSUME [Next]_vars, ~CrashRestart, ~FlushDone, ~\E w \in Workers : ReportSuccess(w)
    PROVE  doneCh' = doneCh
<1>1. ASSUME NEW j \in Jobs, JobStep(j) PROVE doneCh' = doneCh
  BY <1>1 DEF JobStep, Dispatch, BecomeDue, Cancel, ReapStale, ReapEarly
<1>2. ASSUME NEW q \in Queues, QueueStep(q) PROVE doneCh' = doneCh
  BY <1>2 DEF QueueStep, DispatcherStep, PauseQueue, ResumeQueue, Wake, CountIdle,
     ReserveBatch, RefuseByRate, HandToWorker, NoTaker, PutBackUntaken, EndBatch
<1>3. ASSUME NEW w \in Workers, WorkerStep(w) PROVE doneCh' = doneCh
  BY <1>3 DEF WorkerStep, HandlerStep, Connect, KickWorker, HeartbeatExpire, SendResult, Disconnect,
     WriteJob, WriteFails, SeeKick, SeeDone, JobTimeout, TakeResult, ReadCachedJob, LookupJob,
     RetryLater, MarkFailed, InsertDeadLetter, Reschedule, Exit
<1>4. CASE UNCHANGED vars
  BY <1>4 DEF vars
<1> QED BY <1>1, <1>2, <1>3, <1>4 DEF Next

LEMMA ReportEndsOnlyBy ==
    ASSUME PlacedInv, [Next]_vars, ~CrashRestart, NEW w \in Workers, hpc[w] = "report",
           hresult[w].ok, ~ReportSuccess(w)
    PROVE  hpc'[w] = "report" /\ hresult'[w] = hresult[w]
<1>1. CASE \E v \in Workers : WorkerStep(v)
  <2>1. PICK v \in Workers : WorkerStep(v)
    BY <1>1
  <2>2. CASE v = w
    BY <2>1, <2>2 DEF WorkerStep, HandlerStep, Connect, KickWorker, HeartbeatExpire, SendResult,
       Disconnect, WriteJob, WriteFails, SeeKick, SeeDone, JobTimeout, TakeResult, ReadCachedJob,
       LookupJob, RetryLater, MarkFailed, InsertDeadLetter, Reschedule, Exit, handlerVars
  <2>3. CASE v # w
    BY <2>1, <2>3, WorkerStepFrame DEF OnlyConnection
  <2> QED BY <2>2, <2>3
<1>2. ASSUME NEW j \in Jobs, JobStep(j) PROVE UNCHANGED <<hpc, hresult>>
  BY <1>2 DEF JobStep, Dispatch, BecomeDue, Cancel, ReapStale, ReapEarly, handlerVars
<1>3. ASSUME NEW q \in Queues, QueueStep(q) PROVE UNCHANGED <<hpc, hresult>>
  BY <1>3 DEF QueueStep, DispatcherStep, PauseQueue, ResumeQueue, Wake, CountIdle,
     ReserveBatch, RefuseByRate, HandToWorker, NoTaker, PutBackUntaken, EndBatch, handlerVars
<1>4. CASE FlushDone \/ UNCHANGED vars
  BY <1>4 DEF FlushDone, vars, handlerVars
<1> QED BY <1>1, <1>2, <1>3, <1>4 DEF Next

(* A success moves on, from the handler to the coalescer and from there to *)
(* the table, and nobody else owns the job meanwhile. *)
LEMMA SuccessKept ==
    ASSUME PlacedInv, FailureChargedToReported', "earlyreap" \notin Env, [Next]_vars,
           ~CrashRestart, NEW j \in Jobs, Succeeded(j)
    PROVE  Succeeded(j)'
<1>0. LifecycleStep
  BY StepPlacement
<1>1. CASE job[j].status = "done"
  BY <1>0, <1>1, LifecycleKeeps DEF Succeeded
<1>2. CASE j \in Range(doneCh)
  <2>1. CASE FlushDone
    <3>1. PICK n \in 1..Len(doneCh) :
            /\ job' = SetDone(job, {doneCh[i] : i \in 1..n})
            /\ doneCh' = SubSeq(doneCh, n + 1, Len(doneCh))
      BY <2>1 DEF FlushDone
    <3>2. doneCh \in Seq(Jobs) /\ job \in [Jobs -> Row] /\ job[j].status = "running"
      BY <1>2, PlaceMeansRunning DEF PlacedInv, IInv, TypeOK
    <3>3. PICK k \in 1..Len(doneCh) : doneCh[k] = j
      BY <1>2, <3>2 DEF Range
    <3>4. CASE k <= n
      <4>1. j \in {doneCh[i] : i \in 1..n}
        BY <3>3, <3>4
      <4> QED BY <3>1, <3>2, <4>1 DEF SetDone, Rows, Row, Succeeded
    <3>5. CASE k > n
      <4>0. /\ Len(doneCh) \in Nat /\ Len(doneCh') = Len(doneCh) - n
            /\ DOMAIN doneCh' = 1..(Len(doneCh) - n)
            /\ \A i \in 1..(Len(doneCh) - n) : doneCh'[i] = doneCh[i + n]
        BY <3>1, <3>2
      <4>1. k - n \in DOMAIN doneCh' /\ doneCh'[k - n] = j
        <5>1. k - n \in 1..(Len(doneCh) - n) /\ (k - n) + n = k
          BY <3>3, <3>5, <4>0
        <5>2. doneCh'[k - n] = doneCh[(k - n) + n]
          BY <4>0, <5>1
        <5> QED BY <3>3, <4>0, <5>1, <5>2
      <4> QED BY <4>1 DEF Range, Succeeded
    <3> QED BY <3>3, <3>4, <3>5
  <2>2. CASE \E w \in Workers : ReportSuccess(w)
    <3>1. PICK w \in Workers : doneCh' = Append(doneCh, hresult[w].job)
      BY <2>2 DEF ReportSuccess
    <3>2. doneCh \in Seq(Jobs)
      BY DEF PlacedInv, IInv, TypeOK
    <3>3. \A i \in DOMAIN doneCh : i \in DOMAIN doneCh' /\ doneCh'[i] = doneCh[i]
      BY <3>1, <3>2
    <3>4. j \in Range(doneCh')
      BY <1>2, <3>3 DEF Range
    <3> QED BY <3>4 DEF Succeeded
  <2>3. CASE ~FlushDone /\ ~\E w \in Workers : ReportSuccess(w)
    <3>1. doneCh' = doneCh
      BY <2>3, DoneChOnlyBy
    <3> QED BY <1>2, <3>1 DEF Succeeded
  <2> QED BY <2>1, <2>2, <2>3
<1>3. ASSUME NEW w \in Workers, hpc[w] = "report", hresult[w] = [job |-> j, ok |-> TRUE]
      PROVE  Succeeded(j)'
  <2>1. CASE ReportSuccess(w)
    <3>1. doneCh' = Append(doneCh, j) /\ doneCh \in Seq(Jobs)
      BY <1>3, <2>1 DEF ReportSuccess, PlacedInv, IInv, TypeOK
    <3>2. Len(doneCh) + 1 \in DOMAIN doneCh' /\ doneCh'[Len(doneCh) + 1] = j
      BY <3>1
    <3>3. j \in Range(doneCh')
      BY <3>2 DEF Range
    <3> QED BY <3>3 DEF Succeeded
  <2>2. CASE ~ReportSuccess(w)
    <3>1. hpc'[w] = "report" /\ hresult'[w] = hresult[w]
      BY <1>3, <2>2, ReportEndsOnlyBy
    <3> QED BY <1>3, <3>1 DEF Succeeded
  <2> QED BY <2>1, <2>2
<1> QED BY <1>1, <1>2, <1>3 DEF Succeeded

(* A success that was taken off the connection stays one: no later failure *)
(* report, requeue, reap or cancellation makes the job run again.          *)
THEOREM SuccessFinal ==
    ASSUME "earlyreap" \notin Env
    PROVE  Spec /\ []FailureChargedToReported => SuccessIsFinal
<1>1. PlacedInv /\ PlacedInv' /\ [Next]_vars =>
        [CrashRestart \/ \A j \in Jobs : Succeeded(j) => Succeeded(j)']_vars
  BY SuccessKept DEF PlacedInv
<1> QED BY <1>1, PlacedThroughout, PTL DEF Spec, SuccessIsFinal

-----------------------------------------------------------------------------
(* The handlers about to write j's dead letter. *)
Burying(j) == {w \in Workers : hpc[w] = "bury" /\ hjob[w].id = j}

LetterInv ==
    /\ DeadLetterAgrees
    /\ \A w \in Workers : hpc[w] = "bury" => hjob[w].id \in Jobs

LEMMA BuryingFinite ==
    ASSUME NEW j
    PROVE  IsFiniteSet(Burying(j)) /\ Cardinality(Burying(j)) \in Nat
<1>1. Burying(j) \subseteq Workers
  BY DEF Burying
<1> QED BY <1>1, WorkersAssumption, FS_Subset, FS_CardinalityType

(* A step that marks nothing failed and changes no burial. *)
LEMMA LettersKept ==
    ASSUME LetterInv, UNCHANGED dlq,
           \A j \in Jobs : job'[j].status = "failed" <=> job[j].status = "failed",
           \A w \in Workers : hpc'[w] = "bury" <=> hpc[w] = "bury",
           \A w \in Workers : hpc[w] = "bury" => hjob'[w] = hjob[w]
    PROVE  LetterInv'
<1>1. ASSUME NEW j \in Jobs PROVE Burying(j)' = Burying(j)
  BY DEF Burying
<1>2. DeadLetterAgrees'
  BY <1>1 DEF LetterInv, DeadLetterAgrees, Burying
<1> QED BY <1>2 DEF LetterInv

LEMMA NobodyElseBuries ==
    ASSUME PlacedInv, [Next]_vars, ~CrashRestart,
           ~\E w \in Workers : MarkFailed(w) \/ InsertDeadLetter(w)
    PROVE  /\ UNCHANGED dlq
           /\ \A w \in Workers : hpc'[w] = "bury" <=> hpc[w] = "bury"
           /\ \A w \in Workers : hpc[w] = "bury" => hjob'[w] = hjob[w]
<1>1. hpc \in [Workers -> HandlerPc] /\ hjob \in [Workers -> JobRef]
  BY DEF PlacedInv, IInv, TypeOK
<1>2. ASSUME NEW j \in Jobs, JobStep(j) PROVE UNCHANGED <<dlq, hpc, hjob>>
  BY <1>2 DEF JobStep, Dispatch, BecomeDue, Cancel, ReapStale, ReapEarly, handlerVars
<1>3. ASSUME NEW q \in Queues, QueueStep(q) PROVE UNCHANGED <<dlq, hpc, hjob>>
  BY <1>3 DEF QueueStep, DispatcherStep, PauseQueue, ResumeQueue, Wake, CountIdle,
     ReserveBatch, RefuseByRate, HandToWorker, NoTaker, PutBackUntaken, EndBatch, handlerVars
<1>4. CASE FlushDone \/ UNCHANGED vars
  BY <1>4 DEF FlushDone, vars, handlerVars
<1>5. ASSUME NEW v \in Workers, NEW w \in Workers, WorkerStep(v)
      PROVE  /\ UNCHANGED dlq
             /\ hpc'[w] = "bury" <=> hpc[w] = "bury"
             /\ hpc[w] = "bury" => hjob'[w] = hjob[w]
  <2>1. CASE Connect(v) \/ KickWorker(v) \/ HeartbeatExpire(v) \/ SendResult(v) \/ Disconnect(v)
    BY <1>1, <2>1 DEF Connect, KickWorker, HeartbeatExpire, SendResult, Disconnect, handlerVars
  <2>2. CASE WriteJob(v) \/ WriteFails(v) \/ SeeKick(v) \/ SeeDone(v) \/ JobTimeout(v) \/ TakeResult(v)
    BY <1>1, <2>2 DEF WriteJob, WriteFails, SeeKick, SeeDone, JobTimeout, TakeResult
  <2>3. CASE ReportSuccess(v) \/ RetryLater(v) \/ Reschedule(v) \/ Exit(v)
    BY <1>1, <2>3 DEF ReportSuccess, RetryLater, Reschedule, Exit, BackToSelect
  <2>4. CASE ReadCachedJob(v) \/ LookupJob(v)
    BY <1>1, <2>4 DEF ReadCachedJob, LookupJob
  <2> QED BY <1>5, <2>1, <2>2, <2>3, <2>4 DEF WorkerStep, HandlerStep
<1> QED BY <1>2, <1>3, <1>4, <1>5 DEF Next
(* No statement but one marks a row failed. *)
LEMMA OtherStatements ==
    ASSUME NEW t \in [Jobs -> Row], NEW k, NEW S, NEW due \in BOOLEAN, NEW j \in Jobs,
           t[j].status # "failed"
    PROVE  /\ InsertJob(t, k, due)[j].status # "failed"
           /\ SetRunning(t, S)[j].status # "failed"
           /\ PutBack(t, k)[j].status # "failed"
           /\ PutBackAt(t, k, due)[j].status # "failed"
           /\ PutBackIfRunning(t, S)[j].status # "failed"
           /\ SetDone(t, S)[j].status # "failed"
           /\ CancelIfPending(t, k)[j].status # "failed"
<1>1. InsertJob(t, k, due)[j].status # "failed"
  BY DEF InsertJob
<1>3. SetRunning(t, S)[j].status # "failed"
  BY DEF SetRunning, Row
<1>4. PutBack(t, k)[j].status # "failed" /\ PutBackAt(t, k, due)[j].status # "failed"
  BY DEF PutBack, PutBackAt, Row
<1>5. PutBackIfRunning(t, S)[j].status # "failed" /\ SetDone(t, S)[j].status # "failed"
  BY DEF PutBackIfRunning, SetDone, Row
<1>6. CancelIfPending(t, k)[j].status # "failed"
  BY DEF CancelIfPending, Row
<1> QED BY <1>1, <1>3, <1>4, <1>5, <1>6

(* Only a handler's verdict makes a row failed. *)
LEMMA NobodyElseFails ==
    ASSUME PlacedInv, [Next]_vars, ~\E w \in Workers : MarkFailed(w), NEW j \in Jobs,
           job[j].status # "failed"
    PROVE  job'[j].status # "failed"
<1>0. job \in [Jobs -> Row]
  BY DEF PlacedInv, IInv, TypeOK
<1>1. ASSUME NEW k \in Jobs, JobStep(k) PROVE job'[j].status # "failed"
  <2>1. CASE Dispatch(k)
    <3>1. PICK due \in BOOLEAN : job' = InsertJob(job, k, due)
      BY <2>1 DEF Dispatch
    <3> QED BY <1>0, <3>1, OtherStatements
  <2>2. CASE BecomeDue(k)
    <3>1. job' = [job EXCEPT ![k].due = TRUE]
      BY <2>2 DEF BecomeDue
    <3> QED BY <1>0, <3>1 DEF Row
  <2>3. CASE Cancel(k)
    BY <1>0, <2>3, OtherStatements DEF Cancel
  <2>4. CASE ReapStale(k) \/ ReapEarly(k)
    BY <1>0, <2>4, OtherStatements DEF ReapStale, ReapEarly
  <2> QED BY <1>1, <2>1, <2>2, <2>3, <2>4 DEF JobStep
<1>2. ASSUME NEW q \in Queues, QueueStep(q) PROVE job'[j].status # "failed"
  <2>1. CASE ReserveBatch(q)
    BY <1>0, <2>1, OtherStatements DEF ReserveBatch
  <2>2. CASE RefuseByRate(q)
    <3>1. PICK ref \in batch[q] : job' = PutBackAt(job, ref.id, FALSE)
      BY <2>2 DEF RefuseByRate
    <3> QED BY <1>0, <3>1, OtherStatements
  <2>3. CASE PutBackUntaken(q)
    <3>1. PICK ref \in batch[q] : job' = PutBack(job, ref.id)
      BY <2>3 DEF PutBackUntaken
    <3> QED BY <1>0, <3>1, OtherStatements
  <2>4. CASE UNCHANGED job
    BY <2>4
  <2> QED BY <1>2, <2>1, <2>2, <2>3, <2>4 DEF QueueStep, DispatcherStep, PauseQueue, ResumeQueue,
             Wake, CountIdle, HandToWorker, NoTaker, EndBatch
<1>3. ASSUME NEW w \in Workers, WorkerStep(w) PROVE job'[j].status # "failed"
  <2>1. CASE RetryLater(w)
    BY <1>0, <2>1, OtherStatements DEF RetryLater
  <2>2. CASE Reschedule(w)
    BY <1>0, <2>2, OtherStatements DEF Reschedule
  <2>3. CASE UNCHANGED job
    BY <2>3
  <2> QED BY <1>3, <2>1, <2>2, <2>3 DEF WorkerStep, HandlerStep, Connect, KickWorker,
             HeartbeatExpire, SendResult, Disconnect, WriteJob, WriteFails, SeeKick, SeeDone,
             JobTimeout, TakeResult, ReportSuccess, ReadCachedJob, LookupJob, InsertDeadLetter, Exit
<1>4. CASE FlushDone
  <2>1. PICK n \in 1..Len(doneCh) : job' = SetDone(job, {doneCh[i] : i \in 1..n})
    BY <1>4 DEF FlushDone
  <2> QED BY <1>0, <2>1, OtherStatements
<1>5. CASE CrashRestart
  BY <1>0, <1>5, OtherStatements DEF CrashRestart
<1>6. CASE UNCHANGED vars
  BY <1>6 DEF vars
<1> QED BY <1>1, <1>2, <1>3, <1>4, <1>5, <1>6 DEF Next

(* The two statements of a burial: the row first, its letter second. *)
LEMMA MarkFailedLetters ==
    ASSUME PlacedInv, LetterInv, NEW w \in Workers, MarkFailed(w)
    PROVE  LetterInv'
<1> DEFINE k == hjob[w].id
<1>1. /\ hpc \in [Workers -> HandlerPc] /\ hpc[w] = "failing"
      /\ hpc' = [hpc EXCEPT ![w] = "bury"] /\ UNCHANGED <<dlq, hjob>>
      /\ job' = SetFailed(job, k) /\ job \in [Jobs -> Row] /\ dlq \in [Jobs -> Nat]
  BY DEF MarkFailed, PlacedInv, IInv, TypeOK
<1>2. k \in Jobs /\ Reports(w, k)
  BY <1>1 DEF PlacedInv, Placement, ResultShape, FailureChargedToReported, Reports
<1>3. job[k].status = "running"
  BY <1>2, PlaceMeansRunning
<1>4. job'[k].status = "failed" /\ \A j \in Jobs \ {k} : job'[j] = job[j]
  BY <1>1, <1>2, <1>3 DEF SetFailed, Rows, Row
<1>5. Burying(k)' = Burying(k) \cup {w} /\ w \notin Burying(k)
  BY <1>1 DEF Burying
<1>6. \A j \in Jobs \ {k} : Burying(j)' = Burying(j)
  BY <1>1 DEF Burying
<1>7. ASSUME NEW j \in Jobs
      PROVE  dlq'[j] + Cardinality(Burying(j)') = IF job'[j].status = "failed" THEN 1 ELSE 0
  <2>1. dlq[j] + Cardinality(Burying(j)) = IF job[j].status = "failed" THEN 1 ELSE 0
    BY DEF LetterInv, DeadLetterAgrees, Burying
  <2>2. CASE j = k
    <3>1. Cardinality(Burying(k)') = Cardinality(Burying(k)) + 1
      BY <1>5, BuryingFinite, FS_AddElement
    <3>2. Cardinality(Burying(k)) \in Nat /\ dlq[k] \in Nat
      BY <1>1, <1>2, BuryingFinite
    <3> QED BY <1>1, <1>3, <1>4, <2>1, <2>2, <3>1, <3>2
  <2>3. CASE j # k
    BY <1>1, <1>4, <1>6, <2>1, <2>3
  <2> QED BY <2>2, <2>3
<1>8. \A v \in Workers : hpc'[v] = "bury" => hjob'[v].id \in Jobs
  BY <1>1, <1>2 DEF LetterInv
<1> QED BY <1>7, <1>8 DEF LetterInv, DeadLetterAgrees, Burying

LEMMA InsertDeadLetterLetters ==
    ASSUME PlacedInv, LetterInv, NEW w \in Workers, InsertDeadLetter(w)
    PROVE  LetterInv'
<1>0. PICK k : k = hjob[w].id
  OBVIOUS
<1>1. /\ hpc \in [Workers -> HandlerPc] /\ hjob \in [Workers -> JobRef] /\ hpc[w] = "bury"
      /\ dlq' = [dlq EXCEPT ![k] = @ + 1] /\ UNCHANGED job
      /\ hpc' = [hpc EXCEPT ![w] = "outer"] /\ hjob' = [hjob EXCEPT ![w] = Nil]
      /\ dlq \in [Jobs -> Nat]
  BY <1>0 DEF InsertDeadLetter, BackToSelect, PlacedInv, IInv, TypeOK
<1>2. k \in Jobs
  BY <1>0, <1>1 DEF LetterInv
<1>3. Burying(k)' = Burying(k) \ {w} /\ w \in Burying(k)
  <2>1. w \in Burying(k) /\ w \notin Burying(k)'
    BY <1>0, <1>1, <1>2, JobsAssumption DEF Burying, Nil
  <2>2. ASSUME NEW v \in Workers, v # w PROVE v \in Burying(k)' <=> v \in Burying(k)
    BY <1>1, <2>2 DEF Burying
  <2>3. Burying(k) \subseteq Workers /\ Burying(k)' \subseteq Workers
    BY DEF Burying
  <2> QED BY <2>1, <2>2, <2>3
<1>4. \A j \in Jobs \ {k} : Burying(j)' = Burying(j)
  BY <1>0, <1>1, JobsAssumption DEF Burying, Nil
<1>5. ASSUME NEW j \in Jobs
      PROVE  dlq'[j] + Cardinality(Burying(j)') = IF job'[j].status = "failed" THEN 1 ELSE 0
  <2>1. dlq[j] + Cardinality(Burying(j)) = IF job[j].status = "failed" THEN 1 ELSE 0
    BY DEF LetterInv, DeadLetterAgrees, Burying
  <2>2. CASE j = k
    <3>1. Cardinality(Burying(k)') = Cardinality(Burying(k)) - 1
      BY <1>3, BuryingFinite, FS_RemoveElement
    <3>2. Cardinality(Burying(k)) \in Nat /\ dlq[k] \in Nat /\ dlq'[k] = dlq[k] + 1
      BY <1>1, <1>2, BuryingFinite
    <3>3. job'[j].status = job[j].status
      BY <1>1
    <3>4. dlq'[j] + Cardinality(Burying(j)') = dlq[j] + Cardinality(Burying(j))
      BY <2>2, <3>1, <3>2
    <3> QED BY <2>1, <3>3, <3>4
  <2>3. CASE j # k
    BY <1>1, <1>4, <2>1, <2>3
  <2> QED BY <2>2, <2>3
<1>6. \A v \in Workers : hpc'[v] = "bury" => hjob'[v].id \in Jobs
  BY <1>1 DEF LetterInv
<1> QED BY <1>5, <1>6 DEF LetterInv, DeadLetterAgrees, Burying

(* Without a crash between the two statements of handleJobFailure a failed *)
(* job has exactly one failed_jobs row, or is about to get it, and no other*)
(* job has one.                                                            *)
THEOREM DeadLettersAgree ==
    ASSUME "earlyreap" \notin Env, "crash" \notin Env
    PROVE  Spec /\ []FailureChargedToReported => []DeadLetterAgrees
<1>1. Init => LetterInv
  <2> SUFFICES ASSUME Init PROVE LetterInv
    OBVIOUS
  <2>1. /\ \A j \in Jobs : job[j].status = "absent" /\ dlq[j] = 0
        /\ \A w \in Workers : hpc[w] = "off"
    BY DEF Init, EmptyTable, NoRow
  <2>2. \A j \in Jobs : Burying(j) = {}
    BY <2>1 DEF Burying
  <2>3. Cardinality({}) = 0
    BY FS_EmptySet
  <2>4. \A j \in Jobs : dlq[j] + Cardinality(Burying(j)) = 0
    BY <2>1, <2>2, <2>3
  <2> QED BY <2>1, <2>4 DEF LetterInv, DeadLetterAgrees, Burying
<1>2. LetterInv /\ PlacedInv /\ PlacedInv' /\ [Next]_vars => LetterInv'
  <2> SUFFICES ASSUME LetterInv, PlacedInv, PlacedInv', [Next]_vars PROVE LetterInv'
    OBVIOUS
  <2>1. CASE \E w \in Workers : MarkFailed(w) \/ InsertDeadLetter(w)
    BY <2>1, MarkFailedLetters, InsertDeadLetterLetters
  <2>2. CASE ~\E w \in Workers : MarkFailed(w) \/ InsertDeadLetter(w)
    <3>1. ~CrashRestart
      BY DEF CrashRestart
    <3>2. /\ UNCHANGED dlq
          /\ \A w \in Workers : hpc'[w] = "bury" <=> hpc[w] = "bury"
          /\ \A w \in Workers : hpc[w] = "bury" => hjob'[w] = hjob[w]
      BY <2>2, <3>1, NobodyElseBuries
    <3>3. LifecycleStep
      BY StepPlacement DEF PlacedInv
    <3>4. \A j \in Jobs : job'[j].status = "failed" <=> job[j].status = "failed"
      BY <2>2, <3>3, LifecycleKeeps, NobodyElseFails
    <3> QED BY <3>2, <3>4, LettersKept
  <2> QED BY <2>1, <2>2
<1>3. LetterInv => DeadLetterAgrees
  BY DEF LetterInv
<1> QED BY <1>1, <1>2, <1>3, PlacedThroughout, PTL DEF Spec
=============================================================================
