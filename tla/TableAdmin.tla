---------------------------- MODULE TableAdmin ----------------------------
(***************************************************************************)
(* Administration of the jobs and failed_jobs tables while jobs execute:   *)
(* re-queueing and clearing failed jobs, each in two statements, and the   *)
(* reset, which is one transaction and starts the ids of jobs over. What   *)
(* executors do is reduced to the statements they run in the end.          *)
(***************************************************************************)
EXTENDS Naturals, FiniteSets, Functions

CONSTANTS
    Executors,    \* goroutines that execute jobs
    Admins,       \* administrative requests
    MaxAttempts,  \* the same for all jobs
    MaxJobs,      \* bound on the jobs submitted
    MaxTime       \* bound on the second

ConstantsOK ==
    /\ MaxAttempts \in Nat \ {0}
    /\ MaxJobs \in Nat
    /\ MaxTime \in Nat

VARIABLES
    second,     \* seconds; updated_at has this resolution
    rows,      \* jobs: a function from the ids there are to rows
    lastId,    \* sqlite_sequence
    letters,   \* ids with a row in failed_jobs
    work,      \* each executor's job and the statement it will run next
    admin,     \* each request's kind, what it has to do next, and its now
    submitted, \* history: jobs ever submitted
    crossed    \* history: a reset found an executor with a job

vars == <<second, rows, lastId, letters, work, admin, submitted, crossed>>

(* A row keeps as history which submission it is. *)
JobRow == [status : {"pending", "running", "done", "failed"}, attempts : Nat,
           updated : Nat, submission : Nat]

Idle == [id |-> 0, attempts |-> 0, next |-> "reserve", submission |-> 0]

Init ==
    /\ second = 0
    /\ rows = << >>
    /\ lastId = 0
    /\ letters = {}
    /\ work = [e \in Executors |-> Idle]
    /\ admin = [a \in Admins |-> [next |-> "ask", now |-> 0]]
    /\ submitted = 0
    /\ crossed = FALSE

(* UPDATE jobs SET ... for the ids of S; there need not be a row for them *)
Set(S, new(_)) == [i \in DOMAIN rows |-> IF i \in S THEN new(rows[i]) ELSE rows[i]]

WithStatus(status) == {i \in DOMAIN rows : rows[i].status = status}

-----------------------------------------------------------------------------
(* Jobs                                                                    *)

NewRow == [status |-> "pending", attempts |-> 0, updated |-> second,
           submission |-> submitted + 1]

(* Slip: ids without AUTOINCREMENT. *)
SubmitReusingIds ==
    /\ submitted < MaxJobs
    /\ LET i == CHOOSE n \in 1..MaxJobs : n \notin DOMAIN rows /\ \A m \in DOMAIN rows : m < n
       IN  /\ rows' = [j \in DOMAIN rows \cup {i} |->
                        IF j = i THEN NewRow ELSE rows[j]]
           /\ lastId' = i
    /\ submitted' = submitted + 1
    /\ UNCHANGED <<second, letters, work, admin, crossed>>

(* INSERT with AUTOINCREMENT *)
Submit ==
    /\ submitted < MaxJobs
    /\ rows' = [i \in DOMAIN rows \cup {lastId + 1} |->
                    IF i = lastId + 1 THEN NewRow ELSE rows[i]]
    /\ lastId' = lastId + 1
    /\ submitted' = submitted + 1
    /\ UNCHANGED <<second, letters, work, admin, crossed>>

Reserve(e) ==
    /\ work[e].next = "reserve"
    /\ \E i \in WithStatus("pending") :
        /\ rows' = Set({i}, LAMBDA row :
                [row EXCEPT !.status = "running", !.attempts = @ + 1,
                            !.updated = second])
        /\ work' = [work EXCEPT ![e] =
                [id |-> i, attempts |-> rows[i].attempts + 1, next |-> "report",
                 submission |-> rows[i].submission]]
    /\ UNCHANGED <<second, lastId, letters, admin, submitted, crossed>>

(* The job succeeds, or fails and is to be retried or not:                 *)
(* UPDATE ... SET status=... WHERE id=?                                    *)
Report(e) ==
    /\ work[e].next = "report"
    /\ \E status \in {"done", IF work[e].attempts < MaxAttempts THEN "pending" ELSE "failed"} :
        /\ rows' = Set({work[e].id}, LAMBDA row :
                        [row EXCEPT !.status = status, !.updated = second])
        /\ work' = [work EXCEPT ![e] =
                        IF status = "failed" THEN [@ EXCEPT !.next = "letter"] ELSE Idle]
    /\ UNCHANGED <<second, lastId, letters, admin, submitted, crossed>>

(* INSERT INTO failed_jobs *)
InsertLetter(e) ==
    /\ work[e].next = "letter"
    /\ letters' = letters \cup {work[e].id}
    /\ work' = [work EXCEPT ![e] = Idle]
    /\ UNCHANGED <<second, rows, lastId, admin, submitted, crossed>>

-----------------------------------------------------------------------------
(* Administration                                                          *)

Then(a, n) ==
    admin' = [admin EXCEPT ![a] =
                [next |-> n, now |-> IF n = "unletter" THEN second ELSE 0]]

(* handleRetryFailed: UPDATE ... WHERE status='failed' ... *)
Retry(a) ==
    /\ admin[a].next = "ask"
    /\ rows' = Set(WithStatus("failed"), LAMBDA row :
            [row EXCEPT !.status = "pending", !.attempts = 0, !.updated = second])
    /\ Then(a, "unletter")
    /\ UNCHANGED <<second, lastId, letters, work, submitted, crossed>>

(* Slip: all letters go. *)
RetryClearsLetters(a) ==
    /\ admin[a].next = "unletter"
    /\ letters' = {}
    /\ Then(a, "end")
    /\ UNCHANGED <<second, rows, lastId, work, submitted, crossed>>

(* ... DELETE FROM failed_jobs for the jobs that look just re-queued *)
RetryUnletter(a) ==
    /\ admin[a].next = "unletter"
    /\ letters' = letters \ {i \in WithStatus("pending") :
            rows[i].attempts = 0 /\ rows[i].updated = admin[a].now}
    /\ Then(a, "end")
    /\ UNCHANGED <<second, rows, lastId, work, submitted, crossed>>

(* handleClearFailed: DELETE FROM failed_jobs ... *)
Clear(a) ==
    /\ admin[a].next = "ask"
    /\ letters' = {}
    /\ Then(a, "unrow")
    /\ UNCHANGED <<second, rows, lastId, work, submitted, crossed>>

(* ... DELETE FROM jobs WHERE status='failed' *)
ClearRows(a) ==
    /\ admin[a].next = "unrow"
    /\ rows' = Restrict(rows, DOMAIN rows \ WithStatus("failed"))
    /\ Then(a, "end")
    /\ UNCHANGED <<second, lastId, letters, work, submitted, crossed>>

(* handleDBReset: jobs and their sequence; failed_jobs stays, and so do    *)
(* the executors' jobs.                                                    *)
Reset(a) ==
    /\ admin[a].next = "ask"
    /\ rows' = << >>
    /\ lastId' = 0
    /\ Then(a, "end")
    /\ crossed' = (crossed \/ \E e \in Executors : work[e] # Idle)
    /\ UNCHANGED <<second, letters, work, submitted>>

Tick ==
    /\ second < MaxTime
    /\ second' = second + 1
    /\ UNCHANGED <<rows, lastId, letters, work, admin, submitted, crossed>>

AdminStep(a) == Retry(a) \/ RetryUnletter(a) \/ Clear(a) \/ ClearRows(a) \/ Reset(a)

Next ==
    \/ Submit \/ Tick
    \/ \E e \in Executors : Reserve(e) \/ Report(e) \/ InsertLetter(e)
    \/ \E a \in Admins : AdminStep(a)

Spec == Init /\ [][Next]_vars

-----------------------------------------------------------------------------
(* Properties                                                              *)

TypeOK ==
    /\ second \in 0..MaxTime
    /\ DOMAIN rows \subseteq 1..lastId
    /\ \A i \in DOMAIN rows : rows[i] \in JobRow
    /\ lastId \in 0..MaxJobs
    /\ letters \subseteq 1..MaxJobs
    /\ \A e \in Executors : work[e].next \in {"reserve", "report", "letter"}
    /\ \A a \in Admins : admin[a].next \in {"ask", "unletter", "unrow", "end"}

(* A failed job always has its dead letter, except while the executor that *)
(* failed it or a clearing is between two statements: re-queueing deletes  *)
(* no letter of a job that has failed again meanwhile, nor of one that was *)
(* not re-queued.                                                          *)
FailedHasLetter ==
    \A i \in WithStatus("failed") :
        \/ i \in letters
        \/ \E e \in Executors : work[e].next = "letter" /\ work[e].id = i
        \/ \E a \in Admins : admin[a].next = "unrow"

(* What an executor will still write about its job, to jobs or to          *)
(* failed_jobs, is written about that job: its id is not given to another  *)
(* one meanwhile, not even if the job is cleared. A reset breaks this for  *)
(* the jobs that execute while it happens.                                 *)
ExecutorsKeepTheirJob ==
    ~crossed => \A e \in Executors :
        work[e].id \in DOMAIN rows =>
            rows[work[e].id].submission = work[e].submission
===========================================================================
