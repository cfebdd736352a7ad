------------------------- MODULE WsDispatchHistory --------------------------
(***************************************************************************)
(* WsDispatch with a history variable: how many leases of a job ended in a *)
(* rate-limit refusal. It records what happened and constrains nothing.    *)
(***************************************************************************)
EXTENDS WsDispatch

VARIABLES
    refused     \* leases of each job that checkRateLimit took back

historyVars == <<vars, refused>>

HistoryInit ==
    /\ Init
    /\ refused = [j \in Jobs |-> 0]

Refusal(q) ==
    /\ RefuseByRate(q)
    /\ \E ref \in batch[q] \ batch'[q] : refused' = [refused EXCEPT ![ref.id] = @ + 1]

(* Every other step of WsDispatch. *)
Unrecorded ==
    /\ \/ \E j \in Jobs : Dispatch(j) \/ BecomeDue(j) \/ Cancel(j) \/ ReapStale(j) \/ ReapEarly(j)
       \/ \E q \in Queues :
            \/ PauseQueue(q)  \/ ResumeQueue(q)  \/ Wake(q)  \/ CountIdle(q)  \/ ReserveBatch(q)
            \/ HandToWorker(q) \/ NoTaker(q) \/ PutBackUntaken(q) \/ EndBatch(q)
       \/ \E w \in Workers : WorkerStep(w)
       \/ FlushDone
       \/ CrashRestart
    /\ UNCHANGED refused

HistoryNext == (\E q \in Queues : Refusal(q)) \/ Unrecorded

HistorySpec == HistoryInit /\ [][HistoryNext]_historyVars

-----------------------------------------------------------------------------
(* "Rate limiting is no failure and leaves attempts alone, so that a job   *)
(* does not use up its retries and enter the DLQ because of it":           *)
(* a dead-lettered job would be exhausted without its refused leases too.  *)
RateLimitNeverExhausts ==
    \A j \in Jobs :
        job[j].status = "failed" => job[j].attempts - refused[j] >= Limit[j]
=============================================================================
