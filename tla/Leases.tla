------------------------------- MODULE Leases -------------------------------
(***************************************************************************)
(* How long a running job belongs to its executor. Three clocks decide:    *)
(* the timer of the WebSocket handler or the context of the pool goroutine *)
(* that executes the job, the job's own timeout_sec, and the stale job     *)
(* reaper, which knows only the updated_at that the reservation left.      *)
(*                                                                         *)
(* One job, several executors, whole seconds. A lease is the number of the *)
(* reservation, the attempts column.                                       *)
(***************************************************************************)
EXTENDS Integers

CONSTANTS
    Remote,      \* remote workers
    Local,       \* pool goroutines
    Settings,    \* values of the *_TIMEOUT_SEC environment variables
    Preset,      \* the three timeouts if these are not set
    JobTimeouts, \* timeout_sec of the job, 0 if it has none
    MaxDelay,    \* seconds that may pass between reservation and execution
    MaxLeases,   \* bound on reservations
    MaxTime      \* bound on the clock

Holders == Remote \cup Local

Timeouts == {"stale", "ws", "pool"}

ConstantsOK ==
    /\ Remote \cap Local = {}
    /\ Settings \subseteq Int
    /\ Preset \in [Timeouts -> Nat \ {0}]
    /\ JobTimeouts \subseteq Nat
    /\ MaxDelay \in Nat /\ MaxLeases \in Nat /\ MaxTime \in Nat

VARIABLES
    sec,       \* time.Now().Unix()
    seconds,   \* StaleJobTimeout, WsJobTimeoutSec, DefaultJobTimeoutSec
    booted,    \* initTimeouts has run
    wants,     \* timeout_sec in the payload
    row,       \* the job's row
    exec       \* what each executor is doing

settingVars == <<seconds, booted, wants>>
vars == <<sec, settingVars, row, exec>>

Free == [at |-> "free", lease |-> 0, limit |-> 0]

Init ==
    /\ sec = 0
    /\ seconds = Preset /\ booted = FALSE
    /\ wants = 0
    /\ row = [status |-> "none", updated |-> 0, attempts |-> 0]
    /\ exec = [h \in Holders |-> Free]

(* initTimeouts: a variable that is not positive does not count. *)
ReadSettings ==
    /\ ~booted
    /\ \E setting \in [Timeouts -> Settings] :
        seconds' = [t \in Timeouts |-> IF setting[t] > 0 THEN setting[t] ELSE Preset[t]]
    /\ booted' = TRUE
    /\ UNCHANGED <<sec, wants, row, exec>>

(* timeout_sec comes first, for the handler's timer as for the context. *)
Allowed(h) ==
    IF wants > 0 THEN wants ELSE seconds[IF h \in Remote THEN "ws" ELSE "pool"]

SetStatus(s) == row' = [row EXCEPT !.status = s, !.updated = sec]

-----------------------------------------------------------------------------
(* The job is inserted. *)
Submit ==
    /\ booted
    /\ row.status = "none"
    /\ wants' \in JobTimeouts
    /\ SetStatus("pending")
    /\ UNCHANGED <<sec, seconds, booted, exec>>

(* Slip: updated_at is left as it was. *)
ReserveUntouched(h) ==
    /\ row.status = "pending"
    /\ row.attempts < MaxLeases
    /\ exec[h].at = "free"
    /\ row' = [row EXCEPT !.status = "running", !.attempts = @ + 1]
    /\ exec' = [exec EXCEPT
                 ![h] = [at |-> "given", lease |-> row.attempts + 1, limit |-> sec + MaxDelay]]
    /\ UNCHANGED <<sec, settingVars>>

(* reserve and reserveBatch write status, attempts and updated_at. *)
Reserve(h) ==
    /\ row.status = "pending"
    /\ row.attempts < MaxLeases
    /\ exec[h].at = "free"
    /\ row' = [status |-> "running", updated |-> sec, attempts |-> row.attempts + 1]
    /\ exec' = [exec EXCEPT
                 ![h] = [at |-> "given", lease |-> row.attempts + 1, limit |-> sec + MaxDelay]]
    /\ UNCHANGED <<sec, settingVars>>

(* The handler has written the job and waits, or the goroutine executes:   *)
(* the timeout starts here.                                                *)
Begin(h) ==
    /\ exec[h].at = "given"
    /\ exec' = [exec EXCEPT ![h].at = "busy", ![h].limit = sec + Allowed(h)]
    /\ UNCHANGED <<sec, settingVars, row>>

(* A success is written by id, whoever holds the job now. *)
Succeed(h) ==
    /\ exec[h].at = "busy"
    /\ SetStatus("done")
    /\ exec' = [exec EXCEPT ![h] = Free]
    /\ UNCHANGED <<sec, settingVars>>

(* handleJobFailure writes by id, too. *)
Fail(h) ==
    /\ exec[h].at = "busy"
    /\ \E s \in {"pending", "failed"} : SetStatus(s)
    /\ exec' = [exec EXCEPT ![h] = Free]
    /\ UNCHANGED <<sec, settingVars>>

(* The handler's timer puts a running job back; the context of a goroutine *)
(* ends like a failure.                                                    *)
TimeOut(h) ==
    /\ h \in Remote
    /\ exec[h].at = "busy"
    /\ sec >= exec[h].limit
    /\ IF row.status = "running" THEN SetStatus("pending") ELSE UNCHANGED row
    /\ exec' = [exec EXCEPT ![h] = Free]
    /\ UNCHANGED <<sec, settingVars>>

(* The stale job reaper: running, and updated_at < now - StaleJobTimeout.  *)
Reap ==
    /\ row.status = "running"
    /\ row.updated < sec - seconds["stale"]
    /\ SetStatus("pending")
    /\ UNCHANGED <<sec, settingVars, exec>>

(* Timers are punctual to the second, and so is the start of a job up to   *)
(* MaxDelay. The reaper comes when it comes.                               *)
Tick ==
    /\ sec < MaxTime
    /\ row.status # "none"
    /\ \A h \in Holders : exec[h].at # "free" => sec < exec[h].limit
    /\ sec' = sec + 1
    /\ UNCHANGED <<settingVars, row, exec>>

Next ==
    \/ \E h \in Holders :
        Reserve(h) \/ Begin(h) \/ Succeed(h) \/ Fail(h) \/ TimeOut(h)
    \/ ReadSettings \/ Submit \/ Reap \/ Tick

Spec == Init /\ [][Next]_vars

-----------------------------------------------------------------------------
(* Properties                                                              *)

TypeOK ==
    /\ sec \in 0..MaxTime
    /\ seconds \in [Timeouts -> Nat \ {0}] /\ booted \in BOOLEAN
    /\ wants \in JobTimeouts \cup {0}
    /\ row \in [status : {"none", "pending", "running", "done", "failed"},
                updated : 0..MaxTime, attempts : 0..MaxLeases]
    /\ exec \in [Holders -> [at : {"free", "given", "busy"}, lease : 0..MaxLeases, limit : Nat]]

(* The stale timeout covers every execution of this job. *)
Fits == \A h \in Holders : Allowed(h) + MaxDelay <= seconds["stale"]

(* If the stale timeout covers hand-over and execution, to the second, the *)
(* job runs under the lease of its executor as long as that is at work: it *)
(* is neither put back nor given to another, however long it has waited    *)
(* before and however often it has been put back.                          *)
LiveLeaseIsKept ==
    Fits => \A h \in Holders : exec[h].at # "free" =>
                row.status = "running" /\ row.attempts = exec[h].lease

(* README.md: with STALE_JOB_TIMEOUT_SEC >= WS_JOB_TIMEOUT_SEC the reaper  *)
(* does not put back a job that a remote worker still has time for.        *)
NotPutBackInTime ==
    seconds["stale"] >= seconds["ws"] =>
        \A h \in Remote : exec[h].at = "busy" => row.status = "running"
=============================================================================
