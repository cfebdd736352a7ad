----------------------------- MODULE Cron_proofs -----------------------------
(***************************************************************************)
(* The count of runs, the limits on them and the expiry of a cron, for all *)
(* rules, any number of requests and of intervals.                         *)
(***************************************************************************)
EXTENDS Cron, TLAPS, FiniteSetTheorems, SequenceTheorems

(* Before the dispatch and after it: the stages in which the copy counts.  *)
Judging == {"check", "skip", "fire"}
Firing  == {"tag", "count"}

Kept == env \cap {"put", "patch"} = {}

(* The copy counts what the scheduler has dispatched, but for a run that   *)
(* was lost in a crash, and for the one it is firing.                      *)
CopyCounts ==
    /\ stage \in Judging => Fired - copy.runCount \in 0..crashes
    /\ stage \in Firing  => Fired - 1 - copy.runCount \in 0..crashes
    /\ stage \in Judging \cup Firing /\ cron.exists => cron.runCount = copy.runCount

(* While nobody edits the rule, the scheduler decides by the rule in force.*)
CopyDecides ==
    /\ Kept /\ stage # "idle" => copy.rule = cron.rule
    /\ stage \in {"skip", "fire"} => ~Exhausted
    /\ stage \in {"skip", "fire"} \cup Firing => ~Expired

(* A one-time cron that is still enabled has not run, or a crash kept the  *)
(* scheduler from disabling it.                                            *)
OneTimeOpen ==
    /\ Kept /\ cron.rule.oneTime /\ "toggle" \notin env
    /\ stage \in Judging \/ (stage = "idle" /\ Active)
    => Fired <= crashes

(* Only a crash can leave a job without the tag by which the overlap check *)
(* finds it, apart from those the scheduler and a handler are dispatching. *)
JobsTagged ==
    crashes = 0 => \A j \in DOMAIN job :
        \/ job[j].tagged
        \/ stage = "tag" /\ j = ours
        \/ handler = "tag" /\ j = theirs

IInv ==
    /\ TypeOK
    /\ JobsTagged
    /\ CopyCounts /\ CopyDecides /\ OneTimeOpen
    /\ RunCountAgrees /\ LimitsRespected
    /\ ExpiredIsDisabled

-----------------------------------------------------------------------------
(* The jobs a scheduler has dispatched are finitely many.                  *)
LEMMA FiredType == TypeOK => IsFiniteSet(Scheduled) /\ Fired \in Nat
<1> SUFFICES ASSUME TypeOK PROVE IsFiniteSet(Scheduled) /\ Fired \in Nat
  OBVIOUS
<1>1. IsFiniteSet(1..Len(job))
  BY FS_Interval DEF TypeOK
<1>2. Scheduled \in SUBSET (1..Len(job))
  BY DEF TypeOK, Scheduled
<1> QED BY <1>1, <1>2, FS_Subset, FS_CardinalityType DEF Fired

(* A dispatch adds one job to the scheduled ones unless it was triggered   *)
(* by a client.                                                            *)
LEMMA DispatchCounts ==
    ASSUME TypeOK, NEW m \in BOOLEAN, DispatchJob(m)
    PROVE  /\ job' \in Seq(JobRow) /\ Len(job') = Len(job) + 1
           /\ Fired' = IF m THEN Fired ELSE Fired + 1
<1>1. [status |-> "pending", tagged |-> FALSE, manual |-> m] \in JobRow
  BY DEF JobRow
<1>2. /\ job' \in Seq(JobRow) /\ Len(job') = Len(job) + 1
      /\ \A i \in 1..Len(job) : job'[i] = job[i]
      /\ job'[Len(job) + 1].manual = m
  BY <1>1 DEF TypeOK, DispatchJob
<1>3. Scheduled' = IF m THEN Scheduled ELSE Scheduled \cup {Len(job) + 1}
  BY <1>2 DEF TypeOK, Scheduled
<1>4. Len(job) + 1 \notin Scheduled
  BY DEF TypeOK, Scheduled
<1> QED BY <1>2, <1>3, <1>4, FiredType, FS_AddElement DEF Fired

(* What changes a job otherwise keeps who has dispatched it.               *)
LEMMA SameJobsCount ==
    ASSUME TypeOK, job' \in Seq(JobRow), Len(job') = Len(job),
           \A j \in DOMAIN job : job'[j].manual = job[j].manual
    PROVE  Fired' = Fired
<1>1. DOMAIN job' = DOMAIN job
  BY DEF TypeOK
<1>2. Scheduled' = Scheduled
  BY <1>1 DEF Scheduled
<1> QED BY <1>2 DEF Fired

LEMMA TagType ==
    ASSUME TypeOK, NEW j \in 1..Len(job), TagJob(j)
    PROVE  job' \in Seq(JobRow) /\ Len(job') = Len(job) /\ Fired' = Fired
<1> DEFINE e == [job[j] EXCEPT !.tagged = TRUE]
<1>1. e \in JobRow /\ e.manual = job[j].manual
  <2>1. job[j] \in JobRow
    BY ElementOfSeq DEF TypeOK
  <2> QED BY <2>1 DEF JobRow
<1>2. job' = [job EXCEPT ![j] = e]
  BY DEF TagJob
<1> HIDE DEF e
<1>3. /\ job' \in Seq(JobRow) /\ Len(job') = Len(job)
      /\ \A i \in DOMAIN job : job'[i].manual = job[i].manual
  BY <1>1, <1>2, ExceptSeq DEF TypeOK
<1> QED BY <1>3, SameJobsCount

LEMMA JobStepType ==
    ASSUME TypeOK, NEW j \in DOMAIN job, JobStep(j)
    PROVE  job' \in Seq(JobRow) /\ Len(job') = Len(job) /\ Fired' = Fired
<1>1. PICK s \in {"running", "pending", "done"} : job' = [job EXCEPT ![j].status = s]
  BY DEF JobStep
<1> DEFINE e == [job[j] EXCEPT !.status = s]
<1>2. e \in JobRow /\ e.manual = job[j].manual
  <2>1. job[j] \in JobRow
    BY ElementOfSeq DEF TypeOK
  <2> QED BY <2>1 DEF JobRow
<1>3. job' = [job EXCEPT ![j] = e]
  BY <1>1
<1> HIDE DEF e
<1>4. /\ job' \in Seq(JobRow) /\ Len(job') = Len(job)
      /\ \A i \in DOMAIN job : job'[i].manual = job[i].manual
  BY <1>2, <1>3, ExceptSeq DEF TypeOK
<1> QED BY <1>4, SameJobsCount

LEMMA CrashType ==
    ASSUME TypeOK, CrashRestart
    PROVE  job' \in Seq(JobRow) /\ Len(job') = Len(job) /\ Fired' = Fired
<1> DEFINE e(j) == [job[j] EXCEPT !.status = IF @ = "running" THEN "pending" ELSE @]
<1>1. ASSUME NEW j \in 1..Len(job) PROVE e(j) \in JobRow /\ e(j).manual = job[j].manual
  <2>1. job[j] \in JobRow
    BY ElementOfSeq DEF TypeOK
  <2> QED BY <2>1 DEF JobRow
<1>2. job' = [j \in 1..Len(job) |-> e(j)] /\ Len(job) \in Nat
  BY DEF TypeOK, CrashRestart
<1> HIDE DEF e
<1>3. /\ job' \in Seq(JobRow) /\ Len(job') = Len(job)
      /\ \A i \in DOMAIN job : job'[i].manual = job[i].manual
  BY <1>1, <1>2 DEF TypeOK
<1> QED BY <1>3, SameJobsCount

-----------------------------------------------------------------------------
LEMMA NextRunType == ASSUME clock \in Nat, NEW r \in Rule PROVE NextRun(r) \in Int
<1>1. r.every \in Nat \cup {NoDate, Invalid}
  BY DEF Rule
<1>2. CASE r.every \in Nat
  BY <1>2 DEF NextRun, NoDate, Invalid
<1>3. CASE r.every \in {NoDate, Invalid}
  BY <1>3 DEF NextRun, NoDate, Invalid
<1> QED BY <1>1, <1>2, <1>3

LEMMA InitIInv == Init => IInv
<1> SUFFICES ASSUME Init PROVE IInv
  OBVIOUS
<1>1. PICK r \in Rules :
        cron = [exists |-> TRUE, enabled |-> TRUE, rule |-> r, runCount |-> 0,
                nextRun |-> NextRun(r)]
  BY DEF Init, Accepted, Offered
<1>2. r \in Rule
  BY RulesAssumption
<1>12. clock \in Nat
  BY DEF Init
<1>3. cron \in Row
  BY <1>1, <1>2, <1>12, NextRunType DEF Row
<1>4. TypeOK
  BY <1>3, BoundsAssumption, EventsAssumption DEF Init, TypeOK
<1>5. Scheduled = {}
  BY DEF Init, Scheduled
<1>6. Fired = 0
  BY <1>5, FS_EmptySet DEF Fired
<1>7. CopyCounts /\ CopyDecides /\ OneTimeOpen
  BY <1>6 DEF Init, CopyCounts, CopyDecides, OneTimeOpen, Judging, Firing
<1>8. RunCountAgrees
  BY <1>1, <1>6 DEF Init, RunCountAgrees
<1>9. LimitsRespected
  BY <1>1, <1>2, <1>6 DEF Init, LimitsRespected, Rule
<1>10. ExpiredIsDisabled
  BY <1>1, <1>2 DEF Init, ExpiredIsDisabled, Rule
<1>11. JobsTagged
  BY DEF Init, JobsTagged
<1> QED BY <1>4, <1>7, <1>8, <1>9, <1>10, <1>11 DEF IInv

LEMMA RowType ==
    ASSUME TypeOK
    PROVE  /\ cron \in Row /\ copy \in Row
           /\ cron.rule \in Rule /\ copy.rule \in Rule
           /\ NextRun(copy.rule) \in Int /\ NextRun(cron.rule) \in Int
           /\ \A r \in Rules : r \in Rule /\ NextRun(r) \in Int
<1>1. cron.rule \in Rules /\ copy.rule \in Rules /\ clock \in Nat
  BY BoundsAssumption DEF TypeOK, Row
<1>2. \A r \in Rules : r \in Rule
  BY RulesAssumption
<1>3. \A r \in Rule : NextRun(r) \in Int
  BY <1>1, NextRunType
<1> QED BY <1>1, <1>2, <1>3 DEF TypeOK

(* The steps of the scheduler, which leave the requests alone ...          *)
LEMMA SchedulerTypeStep == TypeOK /\ SchedulerStep => TypeOK'
<1> SUFFICES ASSUME TypeOK, SchedulerStep PROVE TypeOK'
  OBVIOUS
<1> USE RowType DEF handlerVars, boundVars, Goto
<1>1. CASE Scan
  BY <1>1 DEF Scan, TypeOK
<1>2. CASE GiveUp \/ CheckOverlap \/ FireFails
  BY <1>2 DEF GiveUp, CheckOverlap, FireFails, TypeOK
<1>3. CASE Skip
  BY <1>3 DEF Skip, TypeOK, Row, Update
<1>4. CASE Fire
  <2>1. job' \in Seq(JobRow) /\ Len(job') = Len(job) + 1
    BY <1>4, DispatchCounts DEF Fire
  <2> QED BY <1>4, <2>1 DEF Fire, TypeOK
<1>5. CASE Tag
  <2>1. ours \in 1..Len(job)
    BY <1>5 DEF Tag, TypeOK
  <2>2. job' \in Seq(JobRow) /\ Len(job') = Len(job)
    BY <1>5, <2>1, TagType DEF Tag
  <2> QED BY <1>5, <2>2 DEF Tag, TypeOK
<1>6. CASE CountRun
  <2>1. copy.runCount + 1 \in Nat
    BY DEF Row
  <2> QED BY <1>6, <2>1 DEF CountRun, TypeOK, Row, Update
<1>7. CASE Disable
  BY <1>7 DEF Disable, TypeOK, Row, Update
<1> QED BY <1>1, <1>2, <1>3, <1>4, <1>5, <1>6, <1>7 DEF SchedulerStep

(* ... and all others.                                                     *)
LEMMA TypeStep == TypeOK /\ [Next]_vars => TypeOK'
<1> SUFFICES ASSUME TypeOK, [Next]_vars PROVE TypeOK'
  OBVIOUS
<1> USE RowType DEF handlerVars, boundVars, schedulerVars
<1>1. CASE SchedulerStep
  BY <1>1, SchedulerTypeStep
<1>2. CASE Put
  <2>1. cron' \in Row
    BY <1>2 DEF Put, Accepted, Offered, Update, Row
  <2> QED BY <1>2, <2>1, BoundsAssumption DEF Put, Request, TypeOK
<1>3. CASE Patch
  <2>1. PICK r \in Offered, field \in DOMAIN cron.rule :
          /\ [cron.rule EXCEPT ![field] = r[field]] \in Rules
          /\ Update([cron EXCEPT !.rule[field] = r[field]])
          /\ handler' = IF field = "every" THEN "reschedule" ELSE "none"
    BY <1>3 DEF Patch
  <2>2. cron' \in Row
    BY <2>1 DEF Update, Row
  <2> QED BY <1>3, <2>1, <2>2, BoundsAssumption DEF Patch, Request, TypeOK
<1>4. CASE Toggle
  <2>1. cron' \in Row
    BY <1>4 DEF Toggle, Update, Row
  <2> QED BY <1>4, <2>1, BoundsAssumption DEF Toggle, Request, TypeOK
<1>5. CASE Delete
  <2>1. cron' \in Row
    BY <1>5 DEF Delete, Update, Row
  <2> QED BY <1>5, <2>1, BoundsAssumption DEF Delete, Request, TypeOK
<1>6. CASE Trigger
  <2>1. job' \in Seq(JobRow) /\ Len(job') = Len(job) + 1
    BY <1>6, DispatchCounts DEF Trigger
  <2> QED BY <1>6, <2>1, BoundsAssumption DEF Trigger, Request, TypeOK
<1>7. CASE Reschedule
  BY <1>7 DEF Reschedule, Update, TypeOK, Row
<1>8. CASE TagTriggered
  <2>1. theirs \in 1..Len(job)
    BY <1>8 DEF TagTriggered, TypeOK
  <2>2. job' \in Seq(JobRow) /\ Len(job') = Len(job)
    BY <1>8, <2>1, TagType DEF TagTriggered
  <2> QED BY <1>8, <2>2 DEF TagTriggered, TypeOK
<1>9. ASSUME NEW j \in DOMAIN job, JobStep(j) PROVE TypeOK'
  <2>1. job' \in Seq(JobRow) /\ Len(job') = Len(job)
    BY <1>9, JobStepType
  <2> QED BY <1>9, <2>1 DEF JobStep, TypeOK
<1>10. CASE Tick
  BY <1>10, BoundsAssumption DEF Tick, TypeOK
<1>11. CASE CrashRestart
  <2>1. job' \in Seq(JobRow) /\ Len(job') = Len(job)
    BY <1>11, CrashType
  <2> QED BY <1>11, <2>1, BoundsAssumption DEF CrashRestart, TypeOK
<1>12. CASE UNCHANGED vars
  BY <1>12 DEF vars, TypeOK
<1> QED BY <1>1, <1>2, <1>3, <1>4, <1>5, <1>6, <1>7, <1>8, <1>9, <1>10, <1>11, <1>12
        DEF Next, HandlerStep

-----------------------------------------------------------------------------
(* Requests that write the row: none counts a run or brings the row back,  *)
(* and only the three they are named for change the rule or enable it.     *)
LEMMA EditStep ==
    ASSUME TypeOK, Put \/ Patch \/ Toggle \/ Delete \/ Reschedule
    PROVE  /\ UNCHANGED <<clock, stage, now, copy, crashes, env>>
           /\ Fired' = Fired
           /\ cron'.runCount = cron.runCount
           /\ cron'.exists => cron.exists
           /\ Kept => cron'.rule = cron.rule
           /\ Kept /\ "toggle" \notin env => cron'.enabled = cron.enabled
<1> USE DEF schedulerVars, boundVars, Update
<1>1. UNCHANGED <<clock, stage, now, copy, crashes, env, job>>
  BY DEF Put, Patch, Toggle, Delete, Reschedule, Request
<1>2. Fired' = Fired
  BY <1>1 DEF Fired, Scheduled
<1>3. cron \in Row
  BY DEF TypeOK
<1>4. CASE Put
  BY <1>1, <1>2, <1>3, <1>4 DEF Put, Request, Kept, Row
<1>5. CASE Patch
  <2>1. PICK r \in Offered, field \in DOMAIN cron.rule :
            Update([cron EXCEPT !.rule[field] = r[field]])
    BY <1>5 DEF Patch
  <2>2. cron'.runCount = cron.runCount /\ cron'.exists = cron.exists
    BY <1>3, <2>1 DEF Row
  <2>3. "patch" \in env
    BY <1>5 DEF Patch, Request
  <2> QED BY <1>1, <1>2, <2>2, <2>3 DEF Kept
<1>6. CASE Toggle
  BY <1>1, <1>2, <1>3, <1>6 DEF Toggle, Request, Row
<1>7. CASE Delete
  BY <1>1, <1>2, <1>3, <1>7 DEF Delete, Row
<1>8. CASE Reschedule
  BY <1>1, <1>2, <1>3, <1>8 DEF Reschedule, Row
<1> QED BY <1>4, <1>5, <1>6, <1>7, <1>8

(* Manual triggers, workers and the clock touch neither row nor count.     *)
LEMMA OtherStep ==
    ASSUME TypeOK,
           Trigger \/ TagTriggered \/ (\E j \in DOMAIN job : JobStep(j)) \/ Tick \/ UNCHANGED vars
    PROVE  UNCHANGED <<cron, stage, now, copy, crashes, env>> /\ Fired' = Fired
<1> USE DEF schedulerVars, boundVars, handlerVars
<1>1. CASE Trigger
  BY <1>1, DispatchCounts DEF Trigger, Request
<1>2. CASE TagTriggered
  <2>1. theirs \in 1..Len(job)
    BY <1>2 DEF TagTriggered, TypeOK
  <2> QED BY <1>2, <2>1, TagType DEF TagTriggered
<1>3. ASSUME NEW j \in DOMAIN job, JobStep(j)
      PROVE  UNCHANGED <<cron, stage, now, copy, crashes, env>> /\ Fired' = Fired
  BY <1>3, JobStepType DEF JobStep
<1>4. CASE Tick \/ UNCHANGED vars
  BY <1>4 DEF Tick, vars, Fired, Scheduled
<1> QED BY <1>1, <1>2, <1>3, <1>4

(* Of the scheduler's steps one counts. *)
LEMMA SchedulerFired ==
    ASSUME TypeOK, SchedulerStep
    PROVE  Fired' = IF Fire THEN Fired + 1 ELSE Fired
<1>1. CASE Fire
  BY <1>1, DispatchCounts DEF Fire
<1>2. CASE Tag /\ ~Fire
  <2>1. ours \in 1..Len(job)
    BY <1>2 DEF Tag, TypeOK
  <2> QED BY <1>2, <2>1, TagType DEF Tag
<1>3. CASE ~Fire /\ ~Tag
  BY <1>3 DEF SchedulerStep, Scan, GiveUp, CheckOverlap, Skip, FireFails, CountRun, Disable,
     Fired, Scheduled
<1> QED BY <1>1, <1>2, <1>3

(* run_count keeps up: with the dispatch the copy is one behind, and with  *)
(* the UPDATE the row has caught up.                                       *)
LEMMA CountsStep == IInv /\ [Next]_vars => CopyCounts' /\ RunCountAgrees'
<1> SUFFICES ASSUME IInv, [Next]_vars PROVE CopyCounts' /\ RunCountAgrees'
  OBVIOUS
<1>0. /\ TypeOK /\ CopyCounts /\ RunCountAgrees
      /\ Fired \in Nat /\ crashes \in {0, 1}
      /\ cron \in Row /\ copy \in Row /\ cron.runCount \in Nat /\ copy.runCount \in Nat
  BY FiredType DEF IInv, TypeOK, Row
<1> USE DEF CopyCounts, RunCountAgrees, Judging, Firing, Goto, boundVars
<1>1. CASE SchedulerStep
  <2>1. Fired' = IF Fire THEN Fired + 1 ELSE Fired
    BY <1>0, <1>1, SchedulerFired
  <2>2. CASE Scan
    BY <1>0, <2>1, <2>2 DEF Scan, Fire
  <2>3. CASE GiveUp \/ CheckOverlap \/ FireFails
    BY <1>0, <2>1, <2>3 DEF GiveUp, CheckOverlap, FireFails, Fire
  <2>4. CASE Skip
    BY <1>0, <2>1, <2>4 DEF Skip, Fire, Update, Row
  <2>5. CASE Fire
    BY <1>0, <2>1, <2>5 DEF Fire
  <2>6. CASE Tag
    BY <1>0, <2>1, <2>6 DEF Tag, Fire
  <2>7. CASE CountRun
    <3>1. /\ stage = "count" /\ stage' \in {"disable", "idle"}
          /\ UNCHANGED crashes /\ Fired' = Fired
      BY <2>1, <2>7 DEF CountRun, Fire
    <3>2. cron'.exists => cron.exists /\ cron'.runCount = copy.runCount + 1
      BY <1>0, <2>7 DEF CountRun, Update, Row
    <3> QED BY <1>0, <3>1, <3>2
  <2>8. CASE Disable
    BY <1>0, <2>1, <2>8 DEF Disable, Fire, Update, Row
  <2> QED BY <1>1, <2>2, <2>3, <2>4, <2>5, <2>6, <2>7, <2>8 DEF SchedulerStep
<1>2. CASE Put \/ Patch \/ Toggle \/ Delete \/ Reschedule
  BY <1>0, <1>2, EditStep
<1>3. CASE Trigger \/ TagTriggered \/ (\E j \in DOMAIN job : JobStep(j)) \/ Tick \/ UNCHANGED vars
  BY <1>0, <1>3, OtherStep
<1>4. CASE CrashRestart
  <2>1. Fired' = Fired /\ stage' = "idle" /\ UNCHANGED <<cron, copy>>
        /\ crashes = 0 /\ crashes' = 1
    BY <1>0, <1>4, CrashType DEF CrashRestart
  <2> QED BY <1>0, <2>1
<1> QED BY <1>1, <1>2, <1>3, <1>4 DEF Next, HandlerStep

(* The scheduler decides by the rule in force, and fires only below the    *)
(* limit and before the expiry.                                            *)
LEMMA DecidesStep == IInv /\ [Next]_vars => CopyDecides'
<1> SUFFICES ASSUME IInv, [Next]_vars PROVE CopyDecides'
  OBVIOUS
<1>0. TypeOK /\ CopyDecides /\ cron \in Row
  BY DEF IInv, TypeOK
<1> USE DEF CopyDecides, Firing, Goto, boundVars, Kept, Expired, Exhausted
<1>1. CASE SchedulerStep
  <2>1. CASE Scan \/ GiveUp \/ CheckOverlap \/ Fire \/ FireFails \/ Tag
    BY <1>0, <2>1 DEF Scan, GiveUp, CheckOverlap, Fire, FireFails, Tag
  <2>2. CASE Skip \/ CountRun \/ Disable
    BY <1>0, <2>2 DEF Skip, CountRun, Disable, Update, Row
  <2> QED BY <1>1, <2>1, <2>2 DEF SchedulerStep
<1>2. CASE Put \/ Patch \/ Toggle \/ Delete \/ Reschedule
  BY <1>0, <1>2, EditStep
<1>3. CASE Trigger \/ TagTriggered \/ (\E j \in DOMAIN job : JobStep(j)) \/ Tick \/ UNCHANGED vars
  BY <1>0, <1>3, OtherStep
<1>4. CASE CrashRestart
  BY <1>0, <1>4 DEF CrashRestart
<1> QED BY <1>1, <1>2, <1>3, <1>4 DEF Next, HandlerStep

(* The limits: a dispatch follows a copy below the limit; what the copy    *)
(* does not count was lost in a crash.                                     *)
LEMMA LimitsStep == IInv /\ [Next]_vars => OneTimeOpen' /\ LimitsRespected'
<1> SUFFICES ASSUME IInv, [Next]_vars PROVE OneTimeOpen' /\ LimitsRespected'
  OBVIOUS
<1>0. /\ TypeOK /\ CopyCounts /\ CopyDecides /\ OneTimeOpen /\ LimitsRespected
      /\ Fired \in Nat /\ crashes \in {0, 1}
      /\ cron \in Row /\ copy \in Row /\ copy.runCount \in Nat
      /\ cron.rule.maxRuns \in Nat
  BY FiredType, RowType DEF IInv, TypeOK, Row, Rule
<1> USE DEF OneTimeOpen, LimitsRespected, Kept, Judging, Goto, boundVars, Active
<1>1. CASE SchedulerStep
  <2>1. Fired' = IF Fire THEN Fired + 1 ELSE Fired
    BY <1>0, <1>1, SchedulerFired
  <2>2. CASE Scan \/ GiveUp \/ CheckOverlap \/ FireFails \/ Tag
    BY <1>0, <2>1, <2>2 DEF Scan, GiveUp, CheckOverlap, FireFails, Tag, Fire
  <2>3. CASE Fire
    <3>1. UNCHANGED <<cron, copy, crashes, env>> /\ stage = "fire" /\ stage' = "tag"
          /\ Fired' = Fired + 1
      BY <2>1, <2>3 DEF Fire
    <3>2. Kept /\ cron.rule.maxRuns > 0 => copy.runCount < cron.rule.maxRuns
      BY <1>0, <3>1 DEF CopyDecides, Exhausted
    <3>3. Fired <= copy.runCount + crashes
      BY <1>0, <3>1 DEF CopyCounts
    <3> QED BY <1>0, <3>1, <3>2, <3>3
  <2>4. CASE Skip
    <3>1. cron'.exists = cron.exists /\ cron'.enabled = cron.enabled /\ cron'.rule = cron.rule
      BY <1>0, <2>4 DEF Skip, Update, Row
    <3> QED BY <1>0, <2>1, <2>4, <3>1 DEF Skip, Fire
  <2>5. CASE CountRun
    <3>1. cron'.rule = cron.rule
      BY <1>0, <2>5 DEF CountRun, Update, Row
    <3>2. Kept => copy.rule = cron.rule
      BY <1>0, <2>5 DEF CountRun, CopyDecides
    <3> QED BY <1>0, <2>1, <2>5, <3>1, <3>2 DEF CountRun, Fire
  <2>6. CASE Disable
    <3>1. cron'.rule = cron.rule /\ ~(cron'.exists /\ cron'.enabled)
      BY <1>0, <2>6 DEF Disable, Update, Row
    <3> QED BY <1>0, <2>1, <2>6, <3>1 DEF Disable, Fire
  <2> QED BY <1>1, <2>2, <2>3, <2>4, <2>5, <2>6 DEF SchedulerStep
<1>2. CASE Put \/ Patch \/ Toggle \/ Delete \/ Reschedule
  BY <1>0, <1>2, EditStep
<1>3. CASE Trigger \/ TagTriggered \/ (\E j \in DOMAIN job : JobStep(j)) \/ Tick \/ UNCHANGED vars
  BY <1>0, <1>3, OtherStep
<1>4. CASE CrashRestart
  <2>1. Fired' = Fired /\ UNCHANGED <<cron, copy, env>> /\ stage' = "idle"
        /\ crashes = 0 /\ crashes' = 1
    BY <1>0, <1>4, CrashType DEF CrashRestart
  <2> QED BY <1>0, <2>1
<1> QED BY <1>1, <1>2, <1>3, <1>4 DEF Next, HandlerStep

(* A scan either passes over a cron because it has not expired, or takes   *)
(* it and comes back to idle by way of the expiry check.                   *)
LEMMA ExpiryStep == IInv /\ [Next]_vars => ExpiredIsDisabled'
<1> SUFFICES ASSUME IInv, [Next]_vars PROVE ExpiredIsDisabled'
  OBVIOUS
<1>0. /\ TypeOK /\ CopyDecides /\ ExpiredIsDisabled
      /\ cron \in Row /\ cron.rule.expiresAt \in Nat /\ now \in Int /\ clock \in Nat
  BY RowType, BoundsAssumption DEF IInv, TypeOK, Rule
<1> USE DEF ExpiredIsDisabled, Kept, Goto, boundVars, Active
<1>1. CASE SchedulerStep
  <2>1. CASE Scan
    BY <1>0, <2>1 DEF Scan
  <2>2. CASE GiveUp \/ CheckOverlap \/ Fire \/ FireFails \/ Tag
    BY <2>2 DEF GiveUp, CheckOverlap, Fire, FireFails, Tag
  <2>3. CASE Skip \/ CountRun
    <3>1. cron'.rule = cron.rule /\ UNCHANGED <<now, env>> /\ stage # "idle"
      BY <1>0, <2>3 DEF Skip, CountRun, Update, Row
    <3>2. Kept => copy.rule = cron.rule
      BY <1>0, <3>1 DEF CopyDecides
    <3>3. ~Expired
      BY <1>0, <2>3 DEF Skip, CountRun, CopyDecides, Firing
    <3> QED BY <1>0, <3>1, <3>2, <3>3 DEF Expired
  <2>4. CASE Disable
    BY <1>0, <2>4 DEF Disable, Update, Row
  <2> QED BY <1>1, <2>1, <2>2, <2>3, <2>4 DEF SchedulerStep
<1>2. CASE Put \/ Patch \/ Toggle \/ Delete \/ Reschedule
  BY <1>0, <1>2, EditStep
<1>3. CASE Trigger \/ TagTriggered \/ (\E j \in DOMAIN job : JobStep(j)) \/ Tick \/ UNCHANGED vars
  BY <1>0, <1>3, OtherStep
<1>4. CASE CrashRestart
  BY <1>0, <1>4 DEF CrashRestart
<1> QED BY <1>1, <1>2, <1>3, <1>4 DEF Next, HandlerStep

(* The jobs there are keep what the overlap check looks at, or gain a tag. *)
LEMMA TagsStep == IInv /\ [Next]_vars => JobsTagged'
<1> DEFINE Tagged(j) == \/ job[j].tagged
                        \/ stage = "tag" /\ j = ours
                        \/ handler = "tag" /\ j = theirs
<1> SUFFICES ASSUME IInv, [Next]_vars, crashes' = 0, NEW j \in DOMAIN job'
             PROVE  Tagged(j)'
  BY DEF JobsTagged
<1>0. TypeOK /\ JobsTagged /\ job \in Seq(JobRow)
  BY DEF IInv, TypeOK
<1> USE DEF JobsTagged, Goto, schedulerVars, boundVars, handlerVars
<1>1. CASE UNCHANGED <<job, crashes, handler, theirs>> /\ stage # "tag"
  BY <1>0, <1>1
<1>2. CASE UNCHANGED <<job, crashes, stage, ours, theirs>> /\ (handler = "tag" => handler' = "tag")
  BY <1>0, <1>2
<1>3. CASE Fire
  <2>1. /\ UNCHANGED <<crashes, handler, theirs>> /\ stage = "fire"
        /\ stage' = "tag" /\ ours' = Len(job')
    BY <1>3 DEF Fire
  <2>2. /\ Len(job') = Len(job) + 1 /\ DOMAIN job' = 1..Len(job') /\ DOMAIN job = 1..Len(job)
        /\ \A i \in DOMAIN job : job'[i] = job[i]
    BY <1>0, <1>3 DEF Fire, DispatchJob
  <2> QED BY <1>0, <2>1, <2>2
<1>4. CASE Trigger
  <2>1. /\ UNCHANGED <<crashes, stage, ours>> /\ handler = "none"
        /\ handler' = "tag" /\ theirs' = Len(job')
    BY <1>4 DEF Trigger, Request
  <2>2. /\ Len(job') = Len(job) + 1 /\ DOMAIN job' = 1..Len(job') /\ DOMAIN job = 1..Len(job)
        /\ \A i \in DOMAIN job : job'[i] = job[i]
    BY <1>0, <1>4 DEF Trigger, DispatchJob
  <2> QED BY <1>0, <2>1, <2>2
<1>5. CASE Tag \/ TagTriggered
  <2>1. PICK k \in DOMAIN job :
            /\ TagJob(k) /\ UNCHANGED <<crashes, ours, theirs>>
            /\ (stage = "tag" /\ k = ours) \/ UNCHANGED stage
            /\ (handler = "tag" /\ k = theirs) \/ UNCHANGED handler
    BY <1>0, <1>5 DEF Tag, TagTriggered, TypeOK
  <2>2. job[j] \in JobRow /\ j \in DOMAIN job
    BY <1>0, <2>1, ElementOfSeq DEF TagJob
  <2>3. job'[j].tagged = (job[j].tagged \/ j = k)
    BY <1>0, <2>1, <2>2 DEF TagJob, JobRow
  <2>4. crashes = 0
    BY <2>1
  <2>5. CASE j = k
    BY <2>3, <2>5
  <2>6. CASE j # k
    <3>1. Tagged(j)
      BY <1>0, <2>2, <2>4
    <3>2. CASE job[j].tagged
      BY <2>3, <3>2
    <3>3. CASE stage = "tag" /\ j = ours
      BY <2>1, <2>6, <3>3
    <3>4. CASE handler = "tag" /\ j = theirs
      BY <2>1, <2>6, <3>4
    <3> QED BY <3>1, <3>2, <3>3, <3>4
  <2> QED BY <2>5, <2>6
<1>6. ASSUME NEW k \in DOMAIN job, JobStep(k) PROVE Tagged(j)'
  <2>1. PICK s \in {"running", "pending", "done"} : job' = [job EXCEPT ![k].status = s]
    BY <1>6 DEF JobStep
  <2>2. job[j] \in JobRow /\ j \in DOMAIN job
    BY <1>0, <2>1, ElementOfSeq
  <2>3. job'[j].tagged = job[j].tagged
    BY <1>0, <2>1, <2>2 DEF JobRow
  <2> QED BY <1>0, <1>6, <2>2, <2>3 DEF JobStep
<1>7. CASE SchedulerStep /\ ~Fire /\ ~Tag
  BY <1>1, <1>7 DEF SchedulerStep, Scan, GiveUp, CheckOverlap, Skip, FireFails, CountRun, Disable
<1>8. CASE Put \/ Patch \/ Toggle \/ Delete \/ Reschedule \/ Tick \/ UNCHANGED vars
  BY <1>2, <1>8 DEF Put, Patch, Toggle, Delete, Reschedule, Request, Tick, vars
<1>9. CASE CrashRestart
  BY <1>9 DEF CrashRestart
<1> QED BY <1>3, <1>4, <1>5, <1>6, <1>7, <1>8, <1>9 DEF Next, HandlerStep

-----------------------------------------------------------------------------
LEMMA Invariance == Spec => []IInv
<1>1. IInv /\ [Next]_vars => IInv'
  BY TypeStep, CountsStep, DecidesStep, LimitsStep, ExpiryStep, TagsStep
     DEF IInv
<1> QED BY InitIInv, <1>1, PTL DEF Spec

(* run_count and the limits hold for every set of rules, however many      *)
(* requests interleave with the scheduler and however long it runs.        *)
THEOREM RunsCounted == Spec => []RunsAreCounted
<1>1. IInv => RunsAreCounted
  BY DEF IInv, RunsAreCounted
<1> QED BY Invariance, <1>1, PTL

(* After a scan no cron that had expired is enabled.                       *)
THEOREM ExpiredDisabled == Spec => []ExpiredIsDisabled
<1>1. IInv => ExpiredIsDisabled
  BY DEF IInv
<1> QED BY Invariance, <1>1, PTL

(* When the scheduler decides to fire, the COUNT over running jobs with    *)
(* the cron's tag has missed none, scheduled or triggered, but for one     *)
(* whose handler is between its two statements, as long as there was no    *)
(* crash.                                                                  *)
THEOREM RunsDoNotOverlap == Spec => NoOverlap
<1>1. ASSUME IInv, Next, stage = "check", stage' = "fire",
             copy.rule.withoutOverlapping, crashes = 0,
             NEW j \in DOMAIN job, job[j].status = "running"
      PROVE  handler = "tag" /\ j = theirs
  <2>1. CheckOverlap
    BY <1>1 DEF Next, SchedulerStep, HandlerStep, Scan, GiveUp, Skip, Fire, FireFails, Tag,
       CountRun, Disable, Put, Patch, Toggle, Delete, Trigger, Reschedule, TagTriggered,
       JobStep, Tick, CrashRestart, Request, Goto, schedulerVars
  <2>2. ~Overlapping
    BY <1>1, <2>1 DEF CheckOverlap, Goto
  <2>3. ~job[j].tagged
    BY <1>1, <2>2 DEF Overlapping
  <2> QED BY <1>1, <2>3 DEF IInv, JobsTagged
<1>2. IInv /\ [Next]_vars =>
      [stage = "check" /\ stage' = "fire" /\ copy.rule.withoutOverlapping /\ crashes = 0
        => \A j \in DOMAIN job :
             job[j].status = "running" => handler = "tag" /\ j = theirs]_vars
  BY <1>1
<1> QED BY Invariance, <1>2, PTL DEF Spec, NoOverlap
=============================================================================
