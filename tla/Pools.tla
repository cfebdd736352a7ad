-------------------------------- MODULE Pools --------------------------------
(***************************************************************************)
(* Dynamic worker pools of one queue: the POST handler that configures the *)
(* queue's pool or starts one, each pool's goroutines with the semaphore   *)
(* that bounds them, and the loop that adds goroutines while jobs wait.    *)
(* What a goroutine does with a job is in Completion; here a job is taken  *)
(* from the backlog and finished.                                          *)
(***************************************************************************)
EXTENDS Integers, Sequences, FiniteSets

CONSTANTS
    Requests,    \* POST /api/autoscale requests
    Configs,     \* what they may ask for; 0 leaves a field to its default
    ScaleUpAt,   \* scale_up_at, the same for all here
    DefaultMax,  \* max_workers if a new pool is given none, 10 in the code
    MaxBacklog   \* bound on the jobs that wait

Config == [min : Nat, max : Nat]

ConstantsOK ==
    /\ Configs \subseteq Config
    /\ DefaultMax \in Nat \ {0}
    /\ ScaleUpAt \in Nat \ {0}
    /\ MaxBacklog \in Nat

VARIABLES
    pools,       \* every pool ever started; none is stopped
    registered,  \* the pool in globalPools, an index into pools, 0 if none
    backlog,     \* pending jobs that are due
    asked,       \* how far each request is
    found        \* handler local: the pool it found or started, 0 if none

requestVars == <<asked, found>>
vars == <<pools, registered, backlog, requestVars>>

(* A dynamicWorkerPool: its limits, the capacity of sem, the goroutines, how *)
(* many of them hold sem and execute, and the pending count adjust has     *)
(* read, -1 between its runs.                                              *)
Pool == [min : Nat, max : Nat, cap : Nat, workers : Nat, busy : Nat,
         pending : Nat \cup {-1}]

Init ==
    /\ pools = <<>>
    /\ registered = 0
    /\ backlog = 0
    /\ asked = [r \in Requests |-> "new"]
    /\ found = [r \in Requests |-> 0]

OrDefault(n, default) == IF n = 0 THEN default ELSE n

-----------------------------------------------------------------------------
(* handleAutoScale                                                         *)

(* globalPools is read under its mutex, which is then released. *)
Lookup(r) ==
    /\ asked[r] = "new"
    /\ found' = [found EXCEPT ![r] = registered]
    /\ asked' = [asked EXCEPT ![r] = IF registered = 0 THEN "start" ELSE "update"]
    /\ UNCHANGED <<pools, registered, backlog>>

(* A field that is given replaces the pool's; sem keeps its capacity. *)
Update(r) ==
    /\ asked[r] = "update"
    /\ \E c \in Configs :
        pools' = [pools EXCEPT ![found[r]].min = OrDefault(c.min, @),
                               ![found[r]].max = OrDefault(c.max, @)]
    /\ asked' = [asked EXCEPT ![r] = "served"]
    /\ UNCHANGED <<registered, backlog, found>>

(* startDynamicWorker spawns the first goroutines ... *)
Start(r) ==
    /\ asked[r] = "start"
    /\ \E c \in Configs :
        LET min == OrDefault(c.min, 1)
            max == OrDefault(c.max, DefaultMax)
        IN  pools' = Append(pools,
                [min |-> min, max |-> max, cap |-> max, workers |-> min, busy |-> 0,
                 pending |-> -1])
    /\ found' = [found EXCEPT ![r] = Len(pools')]
    /\ asked' = [asked EXCEPT ![r] = "register"]
    /\ UNCHANGED <<registered, backlog>>

(* ... and enters the pool, over another one if there is one by now. *)
Register(r) ==
    /\ asked[r] = "register"
    /\ registered' = found[r]
    /\ asked' = [asked EXCEPT ![r] = "served"]
    /\ UNCHANGED <<pools, backlog, found>>

-----------------------------------------------------------------------------
(* A pool's goroutines                                                     *)

(* A goroutine takes a place in sem and reserves a job. Finding none it    *)
(* gives the place back.                                                   *)
Take(p) ==
    /\ pools[p].busy < pools[p].workers
    /\ pools[p].busy < pools[p].cap
    /\ backlog > 0
    /\ pools' = [pools EXCEPT ![p].busy = @ + 1]
    /\ backlog' = backlog - 1
    /\ UNCHANGED <<registered, requestVars>>

(* The job is finished, refused by the rate limit or put back. *)
Release(p) ==
    /\ pools[p].busy > 0
    /\ pools' = [pools EXCEPT ![p].busy = @ - 1]
    /\ \E n \in {backlog, backlog + 1} : n <= MaxBacklog /\ backlog' = n
    /\ UNCHANGED <<registered, requestVars>>

-----------------------------------------------------------------------------
(* autoScaleLoop                                                           *)

(* Slip: what executes is taken off the count once more. *)
CountPendingBehind(p) ==
    /\ pools[p].pending = -1
    /\ pools' = [pools EXCEPT ![p].pending = backlog - pools[p].busy]
    /\ UNCHANGED <<registered, backlog, requestVars>>

(* The COUNT of adjust *)
CountPending(p) ==
    /\ pools[p].pending = -1
    /\ pools' = [pools EXCEPT ![p].pending = backlog]
    /\ UNCHANGED <<registered, backlog, requestVars>>

(* Slip: the pool stays one goroutine below its limit. *)
AdjustBelowMax(p) ==
    /\ pools[p].pending >= 0
    /\ LET grow == pools[p].pending >= ScaleUpAt /\ pools[p].workers + 1 < pools[p].max
       IN  pools' = [pools EXCEPT ![p].pending = -1,
                                  ![p].workers = IF grow THEN @ + 1 ELSE @]
    /\ UNCHANGED <<registered, backlog, requestVars>>

(* ... and its decision: one goroutine more, or nothing. Scaling down is a *)
(* line in the log.                                                        *)
Adjust(p) ==
    /\ pools[p].pending >= 0
    /\ LET grow == pools[p].pending >= ScaleUpAt /\ pools[p].workers < pools[p].max
       IN  pools' = [pools EXCEPT ![p].pending = -1,
                                  ![p].workers = IF grow THEN @ + 1 ELSE @]
    /\ UNCHANGED <<registered, backlog, requestVars>>

Submit ==
    /\ backlog < MaxBacklog
    /\ backlog' = backlog + 1
    /\ UNCHANGED <<pools, registered, requestVars>>

RequestStep(r) == Lookup(r) \/ Update(r) \/ Start(r) \/ Register(r)

PoolStep(p) == Take(p) \/ Release(p)

LoopStep(p) == CountPending(p) \/ Adjust(p)

Next ==
    \/ \E r \in Requests : RequestStep(r)
    \/ \E p \in DOMAIN pools : PoolStep(p) \/ LoopStep(p)
    \/ Submit

(* Handlers run and tickers fire for ever. *)
MustRun == 0..Cardinality(Requests)

MustStep(k) ==
    IF k = 0 THEN \E r \in Requests : RequestStep(r)
             ELSE k \in DOMAIN pools /\ LoopStep(k)

Spec == Init /\ [][Next]_vars /\ \A k \in MustRun : WF_vars(MustStep(k))

-----------------------------------------------------------------------------
(* Properties                                                              *)

TypeOK ==
    /\ pools \in Seq(Pool)
    /\ registered \in 0..Len(pools)
    /\ backlog \in 0..MaxBacklog
    /\ asked \in [Requests -> {"new", "start", "update", "register", "served"}]
    /\ found \in [Requests -> 0..Len(pools)]

(* A backlog that stays above scale_up_at is answered with all the         *)
(* goroutines the limit allows, in a pool that nobody reconfigures. (The   *)
(* code adds goroutines at scale_up_at already, the docs say above it.)    *)
BacklogScalesUp ==
    \A p \in 1..Cardinality(Requests) :
        []<>(p \in DOMAIN pools /\ backlog > ScaleUpAt =>
                pools[p].workers >= pools[p].max)
=============================================================================
