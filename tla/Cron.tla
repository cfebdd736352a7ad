-------------------------------- MODULE Cron --------------------------------
(***************************************************************************)
(* One row of cron_jobs, the scheduler goroutine that scans the table, and *)
(* the HTTP handlers that change the row meanwhile. A scan copies the rows *)
(* that are due or expired and then works through the copies, statement by *)
(* statement, while the table may change under it. Other rows only delay   *)
(* the scheduler between its SELECT and the copy of this one.              *)
(*                                                                         *)
(* The clock counts scan intervals from 1; every and expr come down to the *)
(* same, a period after which the cron is due again, or none: a cron       *)
(* expression may match no date, and a schedule may not parse. Run logs    *)
(* are left out.                                                           *)
(***************************************************************************)
EXTENDS Integers, Sequences, FiniteSets

CONSTANTS
    Rules,      \* the rules a client may give the cron; 0 is no limit
    MaxTime,    \* bound on the clock
    MaxEdits,   \* bound on the requests that change or trigger the cron
    Events      \* the sets of events considered, one of them in each behaviour

(* What a schedule may be besides a period: an expression that matches no  *)
(* date, and one that calcNextRun does not accept. A period of less than a *)
(* second is one of 0.                                                     *)
NoDate  == -1
Invalid == -2

Rule == [every : Nat \cup {NoDate, Invalid}, expiresAt : Nat, oneTime : BOOLEAN,
         maxRuns : Nat, withoutOverlapping : BOOLEAN]

(* "unscheduled" is not a request: clients also give schedules without a   *)
(* period.                                                                 *)
Event == {"put", "patch", "toggle", "delete", "trigger", "dispatchfail", "crash",
          "unscheduled"}

ASSUME RulesAssumption  == Rules \subseteq Rule
ASSUME BoundsAssumption == MaxTime \in Nat \ {0} /\ MaxEdits \in Nat
ASSUME EventsAssumption == Events \subseteq SUBSET Event

VARIABLES
    clock,      \* time.Now()
    cron,       \* the row in cron_jobs
    stage,      \* what runDueCrons does next
    now,        \* its local now, -1 before the first scan
    copy,       \* its copy of the row
    ours,       \* the job it is dispatching, an index into job
    job,        \* the jobs dispatched for the cron, in this order
    handler,    \* what an HTTP handler between two statements does next
    theirs,     \* the job it is dispatching
    edits,      \* client requests so far
    crashes,    \* crashes so far
    env         \* the events of this behaviour

schedulerVars == <<stage, now, copy, ours>>
handlerVars   == <<handler, theirs>>
boundVars     == <<edits, crashes, env>>
vars == <<clock, cron, job, schedulerVars, handlerVars, boundVars>>

Row == [exists : BOOLEAN, enabled : BOOLEAN, rule : Rules, runCount : Nat, nextRun : Int]

JobRow == [status : {"pending", "running", "done"}, tagged : BOOLEAN, manual : BOOLEAN]

(* calcNextRun from now on: without a date the Unix time of Go's zero time,*)
(* which is negative, and 0 beside the error for an invalid schedule.      *)
NextRun(rule) ==
    CASE rule.every = Invalid -> 0
      [] rule.every = NoDate  -> -1
      [] OTHER                -> clock + rule.every

(* The rules clients give. *)
Offered == IF "unscheduled" \in env THEN Rules ELSE {r \in Rules : r.every \in Nat}

(* POST and PUT answer 400 to a schedule that calcNextRun does not accept. *)
Accepted == {r \in Offered : r.every # Invalid}

(* POST /api/crons; the row is there when the behaviour begins. *)
Init ==
    /\ clock = 1
    /\ env \in Events
    /\ \E r \in Accepted :
        cron = [exists |-> TRUE, enabled |-> TRUE, rule |-> r, runCount |-> 0,
                nextRun |-> NextRun(r)]
    /\ stage = "idle"
    /\ now = -1
    /\ copy = cron
    /\ ours = 0
    /\ job = <<>>
    /\ handler = "none"
    /\ theirs = 0
    /\ edits = 0 /\ crashes = 0

(* UPDATE cron_jobs ... WHERE id=? *)
Update(row) == cron' = IF cron.exists THEN row ELSE cron

(* dispatchJobRaw *)
DispatchJob(manual) ==
    job' = Append(job, [status |-> "pending", tagged |-> FALSE, manual |-> manual])

(* dispatchJobWithTags *)
TagJob(j) == job' = [job EXCEPT ![j].tagged = TRUE]

Goto(s) == stage' = s

-----------------------------------------------------------------------------
(* The scheduler                                                           *)

Due(row) == row.nextRun > 0 /\ row.nextRun <= clock

ScanDue ==
    /\ stage = "idle"
    /\ now < clock
    /\ now' = clock
    /\ IF cron.exists /\ cron.enabled /\ Due(cron)
       THEN copy' = cron /\ Goto("check")
       ELSE UNCHANGED <<copy, stage>>
    /\ UNCHANGED <<clock, cron, ours, job, handlerVars, boundVars>>

(* The SELECT of runDueCrons, one scan per interval: rows that are due or  *)
(* whose expires_at has come.                                              *)
Scan ==
    /\ stage = "idle"
    /\ now < clock
    /\ now' = clock
    /\ IF /\ cron.exists /\ cron.enabled
          /\ \/ Due(cron)
             \/ cron.rule.expiresAt > 0 /\ cron.rule.expiresAt <= clock
       THEN copy' = cron /\ Goto("check")
       ELSE UNCHANGED <<copy, stage>>
    /\ UNCHANGED <<clock, cron, ours, job, handlerVars, boundVars>>

Expired == copy.rule.expiresAt > 0 /\ now > copy.rule.expiresAt

Exhausted == copy.rule.maxRuns > 0 /\ copy.runCount >= copy.rule.maxRuns

Overlapping ==
    copy.rule.withoutOverlapping
        /\ \E j \in DOMAIN job : job[j].tagged /\ job[j].status = "running"

(* expires_at has passed, or max_runs is used up. *)
GiveUp ==
    /\ stage = "check"
    /\ Expired \/ Exhausted
    /\ Goto("disable")
    /\ UNCHANGED <<clock, cron, now, copy, ours, job, handlerVars, boundVars>>

(* The COUNT over running jobs with the cron's tag *)
CheckOverlap ==
    /\ stage = "check"
    /\ ~Expired /\ ~Exhausted
    /\ Goto(IF Overlapping THEN "skip" ELSE "fire")
    /\ UNCHANGED <<clock, cron, now, copy, ours, job, handlerVars, boundVars>>

(* Slip: next_run_at stays where it is. *)
SkipInPlace ==
    /\ stage = "skip"
    /\ Goto("idle")
    /\ UNCHANGED <<clock, cron, now, copy, ours, job, handlerVars, boundVars>>

(* Overlapping, or the dispatch failed: only next_run_at moves on. *)
Skip ==
    /\ stage = "skip"
    /\ Update([cron EXCEPT !.nextRun = NextRun(copy.rule)])
    /\ Goto("idle")
    /\ UNCHANGED <<clock, now, copy, ours, job, handlerVars, boundVars>>

(* Slip: only the tags of the cron's definition are written, not its own. *)
FireWithoutTag ==
    /\ stage = "fire"
    /\ DispatchJob(FALSE)
    /\ ours' = Len(job')
    /\ Goto("count")
    /\ UNCHANGED <<clock, cron, now, copy, handlerVars, boundVars>>

(* fireCronJob, first statement *)
Fire ==
    /\ stage = "fire"
    /\ DispatchJob(FALSE)
    /\ ours' = Len(job')
    /\ Goto("tag")
    /\ UNCHANGED <<clock, cron, now, copy, handlerVars, boundVars>>

FireFails ==
    /\ "dispatchfail" \in env
    /\ stage = "fire"
    /\ Goto("skip")
    /\ UNCHANGED <<clock, cron, now, copy, ours, job, handlerVars, boundVars>>

(* ... and second, the tag the overlap check looks for *)
Tag ==
    /\ stage = "tag"
    /\ TagJob(ours)
    /\ Goto("count")
    /\ UNCHANGED <<clock, cron, now, copy, ours, handlerVars, boundVars>>

(* Slip: the run is counted only when it does not use up max_runs. *)
CountRunBelowMax ==
    /\ stage = "count"
    /\ LET n == copy.runCount + 1
           last == copy.rule.maxRuns > 0 /\ n >= copy.rule.maxRuns
       IN  /\ Update([cron EXCEPT !.runCount = IF last THEN @ ELSE n,
                                  !.nextRun = NextRun(copy.rule)])
           /\ Goto(IF copy.rule.oneTime \/ last THEN "disable" ELSE "idle")
    /\ UNCHANGED <<clock, now, copy, ours, job, handlerVars, boundVars>>

(* last_run_at, next_run_at and run_count, computed from the copy *)
CountRun ==
    /\ stage = "count"
    /\ LET n == copy.runCount + 1
       IN  /\ Update([cron EXCEPT !.runCount = n, !.nextRun = NextRun(copy.rule)])
           /\ Goto(IF copy.rule.oneTime \/ (copy.rule.maxRuns > 0 /\ n >= copy.rule.maxRuns)
                   THEN "disable" ELSE "idle")
    /\ UNCHANGED <<clock, now, copy, ours, job, handlerVars, boundVars>>

(* enabled = 0; one_time and max_runs together would write it twice. *)
Disable ==
    /\ stage = "disable"
    /\ Update([cron EXCEPT !.enabled = FALSE])
    /\ Goto("idle")
    /\ UNCHANGED <<clock, now, copy, ours, job, handlerVars, boundVars>>

-----------------------------------------------------------------------------
(* HTTP handlers, one request at a time: they interleave with the          *)
(* scheduler, not with one another.                                        *)

Request(event) ==
    /\ event \in env
    /\ handler = "none"
    /\ edits < MaxEdits
    /\ edits' = edits + 1
    /\ UNCHANGED <<clock, schedulerVars, crashes, env>>

(* PUT: one UPDATE that keeps enabled and run_count *)
Put ==
    /\ Request("put")
    /\ \E r \in Accepted : Update([cron EXCEPT !.rule = r, !.nextRun = NextRun(r)])
    /\ UNCHANGED <<job, handlerVars>>

(* PATCH: one UPDATE for each field given; with several fields it is like  *)
(* several requests. The schedule is stored whatever it is ...             *)
Patch ==
    /\ Request("patch")
    /\ \E r \in Offered, field \in DOMAIN cron.rule :
        /\ [cron.rule EXCEPT ![field] = r[field]] \in Rules
        /\ Update([cron EXCEPT !.rule[field] = r[field]])
        /\ handler' = IF field = "every" THEN "reschedule" ELSE "none"
    /\ UNCHANGED <<job, theirs>>

(* ... and followed by a last one if it can be computed from. *)
Reschedule ==
    /\ handler = "reschedule"
    /\ Update(IF cron.rule.every = Invalid THEN cron
              ELSE [cron EXCEPT !.nextRun = NextRun(cron.rule)])
    /\ handler' = "none"
    /\ UNCHANGED <<clock, schedulerVars, job, theirs, boundVars>>

Toggle ==
    /\ Request("toggle")
    /\ Update([cron EXCEPT !.enabled = ~@])
    /\ UNCHANGED <<job, handlerVars>>

Delete ==
    /\ Request("delete")
    /\ Update([cron EXCEPT !.exists = FALSE])
    /\ UNCHANGED <<job, handlerVars>>

(* POST .../trigger: a job at once, run_count and next_run_at left alone *)
Trigger ==
    /\ Request("trigger")
    /\ cron.exists
    /\ DispatchJob(TRUE)
    /\ theirs' = Len(job')
    /\ handler' = "tag"
    /\ UNCHANGED cron

TagTriggered ==
    /\ handler = "tag"
    /\ TagJob(theirs)
    /\ handler' = "none"
    /\ UNCHANGED <<clock, cron, schedulerVars, theirs, boundVars>>

-----------------------------------------------------------------------------
(* Workers, time and crashes                                               *)

(* reserved, finished, put back *)
JobStep(j) ==
    /\ \/ job[j].status = "pending" /\ job' = [job EXCEPT ![j].status = "running"]
       \/ /\ job[j].status = "running"
          /\ \E s \in {"pending", "done"} : job' = [job EXCEPT ![j].status = s]
    /\ UNCHANGED <<clock, cron, schedulerVars, handlerVars, boundVars>>

Tick ==
    /\ clock < MaxTime
    /\ clock' = clock + 1
    /\ UNCHANGED <<cron, job, schedulerVars, handlerVars, boundVars>>

(* After the restart running jobs are pending again, and the scheduler     *)
(* scans at once.                                                          *)
CrashRestart ==
    /\ "crash" \in env
    /\ crashes = 0
    /\ crashes' = 1
    /\ stage' = "idle"
    /\ now' = -1
    /\ handler' = "none"
    /\ job' = [j \in DOMAIN job |->
                [job[j] EXCEPT !.status = IF @ = "running" THEN "pending" ELSE @]]
    /\ UNCHANGED <<clock, cron, copy, ours, theirs, edits, env>>

SchedulerStep ==
    \/ Scan \/ GiveUp \/ CheckOverlap \/ Skip \/ Fire \/ FireFails
    \/ Tag  \/ CountRun \/ Disable

HandlerStep ==
    \/ Put \/ Patch \/ Toggle \/ Delete \/ Trigger

Next ==
    \/ SchedulerStep
    \/ HandlerStep \/ Reschedule \/ TagTriggered
    \/ \E j \in DOMAIN job : JobStep(j)
    \/ Tick \/ CrashRestart

Spec == Init /\ [][Next]_vars

(* Time passes, goroutines run; the ticker brings a scan in each interval. *)
FairSpec ==
    /\ Spec
    /\ WF_vars(Tick) /\ WF_vars(SchedulerStep) /\ WF_vars(Reschedule \/ TagTriggered)

-----------------------------------------------------------------------------
(* Properties                                                              *)

(* Every variable has the type its Go or SQL counterpart has; jobs in hand *)
(* are jobs that were dispatched.                                          *)
TypeOK ==
    /\ clock \in 1..MaxTime
    /\ cron \in Row /\ copy \in Row
    /\ stage \in {"idle", "check", "skip", "fire", "tag", "count", "disable"}
    /\ now \in -1..MaxTime
    /\ job \in Seq(JobRow)
    /\ ours \in 0..Len(job) /\ theirs \in 0..Len(job)
    /\ stage = "tag" => ours > 0
    /\ handler \in {"none", "reschedule", "tag"}
    /\ handler = "tag" => theirs > 0
    /\ edits \in 0..MaxEdits /\ crashes \in {0, 1} /\ env \subseteq Event

Scheduled == {j \in DOMAIN job : ~job[j].manual}

Fired == Cardinality(Scheduled)

(* run_count is the number of jobs the scheduler has dispatched, except    *)
(* for the one it is still counting and for one that a crash kept it from  *)
(* counting; edits and manual triggers leave it alone.                     *)
RunCountAgrees ==
    LET counting == IF stage \in {"tag", "count"} THEN 1 ELSE 0
    IN  cron.exists => Fired - counting - cron.runCount \in 0..crashes

(* max_runs and one_time: while the rule is not edited, each crash costs   *)
(* at most one run too many, even if a client enables the cron again.      *)
LimitsRespected ==
    env \cap {"put", "patch"} = {} =>
        /\ cron.rule.maxRuns > 0 => Fired <= cron.rule.maxRuns + crashes
        /\ cron.rule.oneTime /\ "toggle" \notin env => Fired <= 1 + crashes

(* The scheduler keeps count, of variables that keep their types. *)
RunsAreCounted == TypeOK /\ RunCountAgrees /\ LimitsRespected

(* without_overlapping: when the scheduler decides to fire, no job of the  *)
(* cron is running, scheduled or triggered, but for one that a handler has *)
(* yet to tag, unless a crash left one without its tag. A pending job may  *)
(* still start between this decision and the dispatch.                     *)
NoOverlap ==
    [][stage = "check" /\ stage' = "fire" /\ copy.rule.withoutOverlapping /\ crashes = 0
        => \A j \in DOMAIN job :
             job[j].status = "running" => handler = "tag" /\ j = theirs]_vars

Active == cron.exists /\ cron.enabled

(* A due cron is dealt with: it becomes due at a later time, or it is      *)
(* disabled or deleted. Neither a crash nor a failing dispatch nor an edit *)
(* during the scan leaves it behind or without a next_run_at, except by a  *)
(* schedule that has no period: its own, or the one the scan had copied,   *)
(* with which it may lose the time of a schedule given since. (After the   *)
(* last tick no scan comes.)                                               *)
DueIsHandled ==
    \A t \in 1..(MaxTime - 1) :
        Active /\ cron.nextRun = t /\ t <= clock /\ clock < MaxTime
            ~> ~Active \/ cron.nextRun > t \/ {cron.rule.every, copy.rule.every} \cap {NoDate, Invalid} # {}

(* A scan leaves no cron enabled that had expired when it began, due or    *)
(* not, unless clients change the rule or enable the cron again.           *)
ExpiredIsDisabled ==
    stage = "idle" /\ env \cap {"put", "patch", "toggle"} = {} =>
        ~(Active /\ 0 < cron.rule.expiresAt /\ cron.rule.expiresAt < now)
=============================================================================
