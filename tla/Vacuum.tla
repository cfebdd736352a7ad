------------------------------ MODULE Vacuum ------------------------------
(***************************************************************************)
(* VACUUM: a goroutine that compacts the database after enough idle checks *)
(* in a row, and requests that ask for it at once. All share the fields of *)
(* vacuumState without a lock. The work itself is one function run by the  *)
(* DB arbiter, which may fail.                                             *)
(***************************************************************************)
EXTENDS Naturals, FiniteSets

CONSTANTS
    Requests,     \* POST /api/admin/vacuum requests
    RequiredIdle, \* idle checks in a row before an automatic VACUUM, >= 2
    MaxRuns       \* bound on the automatic VACUUMs

ConstantsOK ==
    /\ "vacuumer" \notin Requests
    /\ RequiredIdle \in Nat \ {0, 1}
    /\ MaxRuns \in Nat

VARIABLES
    idle,        \* whether the queue is idle: no jobs, nothing in a channel
    running,     \* vacuumState.running
    totalRuns,   \* vacuumState.totalRuns
    idleCount,   \* vacuumer local
    pc,          \* where the vacuumer and each request are
    outcome,     \* what runVacuum returned to each: "ok", "error" or "none"
    read,        \* the value each has read to increment it
    auto,        \* history: automatic VACUUMs
    succeeded,   \* history: successful VACUUMs
    overlapped   \* history: two have been between check and end at once

historyVars == <<auto, succeeded, overlapped>>
vars == <<idle, running, totalRuns, idleCount, pc, outcome, read, historyVars>>

Runners == Requests \cup {"vacuumer"}

(* A runner that has found running unset and is not finished *)
UnderWay(r) == pc[r] \in {"free", "start", "queued", "answered", "count", "add"}

Init ==
    /\ idle = FALSE
    /\ running = FALSE
    /\ totalRuns = 0
    /\ idleCount = 0
    /\ pc = [r \in Runners |-> IF r = "vacuumer" THEN "sleep" ELSE "new"]
    /\ outcome = [r \in Runners |-> "none"]
    /\ read = [r \in Runners |-> 0]
    /\ auto = 0
    /\ succeeded = 0
    /\ overlapped = FALSE

Go(r, place) == pc' = [pc EXCEPT ![r] = place]

Overlap(r) == overlapped' = (overlapped \/ \E o \in Runners \ {r} : UnderWay(o))

(* Jobs come and go. *)
Activity ==
    /\ idle' = ~idle
    /\ UNCHANGED <<running, totalRuns, idleCount, pc, outcome, read, historyVars>>

-----------------------------------------------------------------------------
(* The vacuumer wakes up and looks at the flag ... *)
WakeUp ==
    /\ pc["vacuumer"] = "sleep"
    /\ auto < MaxRuns
    /\ IF running THEN idleCount' = 0 /\ Go("vacuumer", "sleep") /\ UNCHANGED overlapped
                  ELSE Go("vacuumer", "free") /\ Overlap("vacuumer") /\ UNCHANGED idleCount
    /\ UNCHANGED <<idle, running, totalRuns, outcome, read, auto, succeeded>>

(* ... then at the queue. *)
CheckIdle ==
    /\ pc["vacuumer"] = "free"
    /\ LET count == IF idle THEN idleCount + 1 ELSE 0
       IN  IF count < RequiredIdle
           THEN idleCount' = count /\ Go("vacuumer", "sleep")
           ELSE idleCount' = 0 /\ Go("vacuumer", "start")
    /\ UNCHANGED <<idle, running, totalRuns, outcome, read, historyVars>>

(* A request is refused while the flag is set; "start" is reached with the *)
(* flag unset.                                                             *)
Ask(r) ==
    /\ pc[r] = "new"
    /\ IF running THEN Go(r, "end") /\ UNCHANGED overlapped
                  ELSE Go(r, "start") /\ Overlap(r)
    /\ UNCHANGED <<idle, running, totalRuns, idleCount, outcome, read, auto, succeeded>>

(* running is set, and runVacuum sends its function to the arbiter. *)
Start(r) ==
    /\ pc[r] = "start"
    /\ running' = TRUE
    /\ Go(r, "queued")
    /\ auto' = IF r = "vacuumer" THEN auto + 1 ELSE auto
    /\ UNCHANGED <<idle, totalRuns, idleCount, outcome, read, succeeded, overlapped>>

(* The arbiter executes it: two checkpoints and the VACUUM, each of which  *)
(* may fail. The answer is put into a channel in every case.               *)
Execute(r) ==
    /\ pc[r] = "queued"
    /\ \E o \in {"ok", "error"} :
        /\ outcome' = [outcome EXCEPT ![r] = o]
        /\ succeeded' = IF o = "ok" THEN succeeded + 1 ELSE succeeded
    /\ Go(r, "answered")
    /\ UNCHANGED <<idle, running, totalRuns, idleCount, read, auto, overlapped>>

Home(r) == IF r = "vacuumer" THEN "sleep" ELSE "end"

(* Slip: an error is counted. *)
ClearAndCount(r) ==
    /\ pc[r] = "answered"
    /\ running' = FALSE
    /\ Go(r, "count")
    /\ UNCHANGED <<idle, totalRuns, idleCount, outcome, read, historyVars>>

(* The flag is cleared first; only a success is counted. *)
Clear(r) ==
    /\ pc[r] = "answered"
    /\ running' = FALSE
    /\ Go(r, IF outcome[r] = "ok" THEN "count" ELSE Home(r))
    /\ UNCHANGED <<idle, totalRuns, idleCount, outcome, read, historyVars>>

(* totalRuns++ is a read ... *)
ReadTotal(r) ==
    /\ pc[r] = "count"
    /\ read' = [read EXCEPT ![r] = totalRuns]
    /\ Go(r, "add")
    /\ UNCHANGED <<idle, running, totalRuns, idleCount, outcome, historyVars>>

(* ... and a write. *)
WriteTotal(r) ==
    /\ pc[r] = "add"
    /\ totalRuns' = read[r] + 1
    /\ Go(r, Home(r))
    /\ UNCHANGED <<idle, running, idleCount, outcome, read, historyVars>>

RunnerStep(r) ==
    Start(r) \/ Execute(r) \/ Clear(r) \/ ReadTotal(r) \/ WriteTotal(r)

Next ==
    \/ Activity \/ WakeUp \/ CheckIdle
    \/ \E r \in Requests : Ask(r)
    \/ \E r \in Runners : RunnerStep(r)

Spec == Init /\ [][Next]_vars

-----------------------------------------------------------------------------
(* Properties                                                              *)

TypeOK ==
    /\ idle \in BOOLEAN /\ running \in BOOLEAN /\ overlapped \in BOOLEAN
    /\ idleCount \in 0..(RequiredIdle - 1)
    /\ pc \in [Runners -> {"new", "sleep", "free", "start", "queued", "answered",
                           "count", "add", "end"}]
    /\ outcome \in [Runners -> {"none", "ok", "error"}]
    /\ auto \in 0..MaxRuns
    /\ succeeded \in Nat /\ totalRuns \in Nat /\ read \in [Runners -> Nat]

(* vacuumState tells the truth. With running set a VACUUM is queued or has *)
(* just ended, and totalRuns never exceeds the VACUUMs that succeeded. As  *)
(* long as no two have passed the check at once, a VACUUM under way has    *)
(* running set, and with none under way totalRuns is the number of those   *)
(* that succeeded; two at once may clear each other's flag and lose one.   *)
StateTellsTruth ==
    LET working == {r \in Runners : pc[r] \in {"queued", "answered"}}
    IN  /\ running => working # {}
        /\ totalRuns <= succeeded
        /\ ~overlapped =>
            /\ working # {} => running
            /\ (\A r \in Runners : ~UnderWay(r)) => totalRuns = succeeded
===========================================================================
