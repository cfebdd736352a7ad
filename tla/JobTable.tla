------------------------------ MODULE JobTable ------------------------------
(***************************************************************************)
(* The jobs table and the SQL statements the queue runs against it, as     *)
(* pure operators from a table to the table the statement leaves behind.   *)
(* A table is a function from job ids to rows; a row keeps the columns the *)
(* queue decides by: status, attempts and whether available_at has passed. *)
(* Every statement runs inside the one writer goroutine (the DB arbiter),  *)
(* so a statement is atomic and the modules that use it make it one step.  *)
(***************************************************************************)
EXTENDS Naturals, FiniteSets

CONSTANTS
    Jobs,        \* job ids; ids order the jobs of equal priority
    Queues,      \* queue names
    JobQueue,    \* the queue each job was dispatched to
    Prio,        \* jobs.priority
    Limit        \* per-job max_attempts, MaxAttempts where the payload has none

ASSUME JobsAssumption  == Jobs \subseteq Nat \ {0}
ASSUME QueueAssumption == JobQueue \in [Jobs -> Queues]
ASSUME PrioAssumption  == Prio \in [Jobs -> 1..10]
ASSUME LimitAssumption == Limit \in [Jobs -> Nat \ {0}]

Status == {"absent", "pending", "running", "done", "failed", "cancelled"}

Row == [status : Status, attempts : Nat, due : BOOLEAN]

NoRow == [status |-> "absent", attempts |-> 0, due |-> TRUE]

EmptyTable == [j \in Jobs |-> NoRow]

Rows(t) == {j \in Jobs : t[j].status # "absent"}

-----------------------------------------------------------------------------
(* INSERT: a new row is pending with attempts 0; due says whether          *)
(* available_at = now + delay has already passed.                          *)
InsertJob(t, j, due) ==
    [t EXCEPT ![j] = [status |-> "pending", attempts |-> 0, due |-> due]]

(* ORDER BY priority DESC, id ASC *)
Before(a, b) == Prio[a] > Prio[b] \/ (Prio[a] = Prio[b] /\ a < b)

(* WHERE queue=? AND status='pending' AND available_at<=now *)
Candidates(t, q) ==
    {j \in Jobs : JobQueue[j] = q /\ t[j].status = "pending" /\ t[j].due}

(* ... LIMIT n: the candidates fewer than n others come before *)
FirstCandidates(t, q, n) ==
    LET C == Candidates(t, q)
    IN  {j \in C : Cardinality({k \in C : Before(k, j)}) < n}

(* UPDATE ... SET status='running', attempts=attempts+1 for each id of S *)
SetRunning(t, S) ==
    [j \in Jobs |->
        IF j \in S
        THEN [t[j] EXCEPT !.status = "running", !.attempts = @ + 1]
        ELSE t[j]]

(* UPDATE ... SET status='pending' WHERE id=?, available_at left alone *)
PutBack(t, j) ==
    IF j \in Rows(t) THEN [t EXCEPT ![j].status = "pending"] ELSE t

(* UPDATE ... SET status='pending', available_at=? WHERE id=? *)
PutBackAt(t, j, due) ==
    IF j \in Rows(t)
    THEN [t EXCEPT ![j].status = "pending", ![j].due = due]
    ELSE t

(* UPDATE ... SET status='pending' WHERE status='running', for the ids of S *)
PutBackIfRunning(t, S) ==
    [j \in Jobs |->
        IF j \in S /\ t[j].status = "running"
        THEN [t[j] EXCEPT !.status = "pending"]
        ELSE t[j]]

(* UPDATE ... SET status='done' WHERE id=?, for the ids of one batch *)
SetDone(t, S) ==
    [j \in Jobs |->
        IF j \in S \cap Rows(t) THEN [t[j] EXCEPT !.status = "done"] ELSE t[j]]

(* UPDATE ... SET status='failed' WHERE id=? *)
SetFailed(t, j) ==
    IF j \in Rows(t) THEN [t EXCEPT ![j].status = "failed"] ELSE t

(* UPDATE ... SET status='cancelled' WHERE id=? AND status='pending' *)
CancelIfPending(t, j) ==
    IF t[j].status = "pending" THEN [t EXCEPT ![j].status = "cancelled"] ELSE t

(* Slip: the attempt that just failed is counted twice. *)
MayRetryOffByOne(j, attempts) == attempts + 1 < Limit[j]

(* handleJobFailure's decision, on the attempts of the Job it was handed *)
MayRetry(j, attempts) == attempts < Limit[j]
=============================================================================
