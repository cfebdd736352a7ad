------------------------ MODULE WsDispatchRefinement ------------------------
(***************************************************************************)
(* WsDispatch implements JobLifecycle: the lifecycle's status and attempts *)
(* are the columns of the jobs table, and hub, handlers, dispatchers and   *)
(* coalescer are implementation detail.                                    *)
(***************************************************************************)
EXTENDS WsDispatch

Lifecycle == INSTANCE JobLifecycle WITH
    status   <- [j \in Jobs |-> job[j].status],
    attempts <- [j \in Jobs |-> job[j].attempts]

(* Every statement that changes a row is a step the lifecycle allows: no   *)
(* row is put back, finished or dead-lettered unless it is running, and    *)
(* no final status is ever left.                                           *)
ImplementsLifecycle == Lifecycle!Spec
=============================================================================
