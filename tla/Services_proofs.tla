--------------------------- MODULE Services_proofs ---------------------------
(***************************************************************************)
(* What is proved of Leases, Sessions and Shutdown holds in the behaviours *)
(* of Services: a step of Services is a step of each component or leaves   *)
(* its variables alone. The same is used to prove what heartbeats, VACUUM, *)
(* the cache, the administration, the client program, the rate limiter and *)
(* the WebSocket framing promise.                                          *)
(***************************************************************************)
EXTENDS Services, TLAPS, FiniteSetTheorems, SequenceTheorems

LeaseProof == INSTANCE Leases_proofs WITH MaxTime <- LeaseTime
LoginProof == INSTANCE Sessions_proofs WITH MaxTime <- SessionTime
StopProof  == INSTANCE Shutdown_proofs

(* A step of Services, for the components with a proof                     *)
LEMMA StepOfComponents ==
    [Next]_vars => /\ Lease!Next \/ UNCHANGED leaseVars
                   /\ Login!Next \/ UNCHANGED loginVars
                   /\ Stop!Next  \/ UNCHANGED stopVars
<1>1. ASSUME UNCHANGED vars
      PROVE  UNCHANGED leaseVars /\ UNCHANGED loginVars /\ UNCHANGED stopVars
  BY <1>1 DEF vars
<1>2. ASSUME NEW c \in Components, Only(c)
      PROVE  /\ c # "lease" => UNCHANGED leaseVars
             /\ c # "login" => UNCHANGED loginVars
             /\ c # "stop"  => UNCHANGED stopVars
  BY <1>2 DEF Only
<1>3. ASSUME Next, NEW c \in Components, Only(c)
      PROVE  /\ c = "lease" => Lease!Next
             /\ c = "login" => Login!Next
             /\ c = "stop"  => Stop!Next
  BY <1>3 DEF Next, Only
<1>4. Next => \E c \in Components : Only(c)
  BY DEF Next, Components
<1> QED BY <1>1, <1>2, <1>3, <1>4

-----------------------------------------------------------------------------
(* LeaseProof speaks of the same component as Lease.                       *)
LEMMA LeaseInit == Init => LeaseProof!Init
  BY DEF Init, Lease!Init, Lease!Free, Lease!Holders,
         LeaseProof!Init, LeaseProof!Free, LeaseProof!Holders

LEMMA LeaseNext == Lease!Next => LeaseProof!Next
  BY DEF Lease!Next, Lease!Reserve, Lease!Begin, Lease!Succeed, Lease!Fail,
         Lease!TimeOut, Lease!ReadSettings, Lease!Submit, Lease!Reap, Lease!Tick,
         Lease!Holders, Lease!SetStatus, Lease!Allowed, Lease!Free,
         Lease!settingVars, Lease!Timeouts,
         LeaseProof!Next, LeaseProof!Reserve, LeaseProof!Begin, LeaseProof!Succeed,
         LeaseProof!Fail, LeaseProof!TimeOut, LeaseProof!ReadSettings, LeaseProof!Submit,
         LeaseProof!Reap, LeaseProof!Tick, LeaseProof!Holders, LeaseProof!SetStatus,
         LeaseProof!Allowed, LeaseProof!Free, LeaseProof!settingVars, LeaseProof!Timeouts

(* main.go: under a stale timeout that fits, the reaper takes no job from  *)
(* an executor at work.                                                    *)
THEOREM LeaseKeptInServices == Spec => []LiveLeaseIsKept
<1>1. LeaseProof!ConstantsOK
  BY ConstantsAssumption DEF LeaseProof!ConstantsOK, LeaseProof!Timeouts,
     Lease!ConstantsOK, Lease!Timeouts
<1>2. LeaseProof!Spec => []LeaseProof!LiveLeaseIsKept
  BY <1>1, LeaseProof!LeaseKept
<1>3. [Next]_vars => [LeaseProof!Next]_LeaseProof!vars
  BY StepOfComponents, LeaseNext DEF leaseVars, LeaseProof!vars, LeaseProof!settingVars
<1>4. LeaseProof!LiveLeaseIsKept => LiveLeaseIsKept
  BY DEF LiveLeaseIsKept, Lease!LiveLeaseIsKept, Lease!Fits, Lease!Holders, Lease!Allowed,
     LeaseProof!LiveLeaseIsKept, LeaseProof!Fits, LeaseProof!Holders, LeaseProof!Allowed
<1> QED BY <1>2, <1>3, <1>4, LeaseInit, PTL DEF Spec, LeaseProof!Spec

-----------------------------------------------------------------------------
(* LoginProof speaks of the same component as Login.                       *)
LEMMA LoginInit == Init => LoginProof!Init
  BY DEF Init, Login!Init, Login!None, LoginProof!Init, LoginProof!None

LEMMA LoginNext == Login!Next => LoginProof!Next
  BY DEF Login!Next, Login!Login, Login!Logout, Login!Arrive, Login!Lookup, Login!Judge,
         Login!Reap, Login!Tick, Login!Ended, Login!None,
         LoginProof!Next, LoginProof!Login, LoginProof!Logout, LoginProof!Arrive,
         LoginProof!Lookup, LoginProof!Judge, LoginProof!Reap, LoginProof!Tick,
         LoginProof!Ended, LoginProof!None

(* auth.go: a request is let in or turned away as its session deserves.    *)
THEOREM SessionsJudgedInServices == Spec => SessionsEndOnTime
<1>1. LoginProof!ConstantsOK
  BY ConstantsAssumption DEF LoginProof!ConstantsOK, Login!ConstantsOK
<1>2. LoginProof!Spec => LoginProof!SessionsEndOnTime
  BY <1>1, LoginProof!SessionsJudged
<1>3. [Next]_vars => [LoginProof!Next]_LoginProof!vars
  BY StepOfComponents, LoginNext DEF loginVars, LoginProof!vars
<1>4. LoginProof!SessionsEndOnTime => SessionsEndOnTime
  <2>1. [\A v \in Visits : visit[v].at = "looked" /\ visit'[v].at = "answered" =>
           IF LoginProof!Admits(v) THEN ~visit[v].late
                                   ELSE LoginProof!Ended(visit[v].token)]_LoginProof!vars
        => [\A v \in Visits : visit[v].at = "looked" /\ visit'[v].at = "answered" =>
              IF Login!Admits(v) THEN ~visit[v].late
                                 ELSE Login!Ended(visit[v].token)]_Login!vars
    BY DEF Login!Admits, Login!Ended, Login!None, Login!vars,
       LoginProof!Admits, LoginProof!Ended, LoginProof!None, LoginProof!vars
  <2> QED BY <2>1, PTL DEF SessionsEndOnTime, Login!SessionsEndOnTime,
                           LoginProof!SessionsEndOnTime
<1> QED BY <1>2, <1>3, <1>4, LoginInit, PTL DEF Spec, LoginProof!Spec

-----------------------------------------------------------------------------
(* StopProof speaks of the same component as Stop.                         *)
LEMMA StopInit == Init => StopProof!Init
  BY DEF Init, Stop!Init, StopProof!Init

LEMMA StopNext == Stop!Next => StopProof!Next
  BY DEF Stop!Next, Stop!HandStep, Stop!Stopping, Stop!Goto, Stop!Look, Stop!ReserveJob,
         Stop!FindNothing, Stop!Count, Stop!Write, Stop!Succeed, Stop!Fail, Stop!Chain,
         Stop!ReceiveAnswer, Stop!Leave, Stop!Flush, Stop!CoalescerReturns, Stop!Insert,
         Stop!CloseStop, Stop!AllFinished, Stop!GiveUp, Stop!ReturnMain,
         Stop!handVars, Stop!chainVars,
         StopProof!Next, StopProof!HandStep, StopProof!Stopping, StopProof!Goto,
         StopProof!Look, StopProof!ReserveJob, StopProof!FindNothing, StopProof!Count,
         StopProof!Write, StopProof!Succeed, StopProof!Fail, StopProof!Chain,
         StopProof!ReceiveAnswer, StopProof!Leave, StopProof!Flush,
         StopProof!CoalescerReturns, StopProof!Insert, StopProof!CloseStop,
         StopProof!AllFinished, StopProof!GiveUp, StopProof!ReturnMain,
         StopProof!handVars, StopProof!chainVars

(* main.go: a shutdown that ends by itself has left no job half done.      *)
THEOREM NoneLeftHalfDoneInServices == Spec => []BegunAreAwaited
<1>1. StopProof!ConstantsOK
  BY ConstantsAssumption DEF StopProof!ConstantsOK, Stop!ConstantsOK
<1>2. StopProof!Spec => []StopProof!BegunAreAwaited
  BY <1>1, StopProof!NoneLeftHalfDone
<1>3. [Next]_vars => [StopProof!Next]_StopProof!vars
  BY StepOfComponents, StopNext DEF stopVars, StopProof!vars, StopProof!handVars, StopProof!chainVars
<1>4. StopProof!BegunAreAwaited => BegunAreAwaited
  BY DEF BegunAreAwaited, Stop!BegunAreAwaited, StopProof!BegunAreAwaited
<1> QED BY <1>2, <1>3, <1>4, StopInit, PTL DEF Spec, StopProof!Spec

-----------------------------------------------------------------------------
LEMMA StepOfOthers ==
    [Next]_vars => /\ Beats!Next  \/ UNCHANGED beatsVars
                   /\ Vac!Next    \/ UNCHANGED vacuumVars
                   /\ Cache!Next  \/ UNCHANGED cacheVars
                   /\ Admin!Next  \/ UNCHANGED adminVars
                   /\ Client!Next \/ UNCHANGED clientVars
<1>1. ASSUME UNCHANGED vars
      PROVE  /\ UNCHANGED beatsVars /\ UNCHANGED vacuumVars /\ UNCHANGED cacheVars
             /\ UNCHANGED adminVars /\ UNCHANGED clientVars
  BY <1>1 DEF vars
<1>2. ASSUME NEW c \in Components, Only(c)
      PROVE  /\ c # "beats"  => UNCHANGED beatsVars
             /\ c # "vacuum" => UNCHANGED vacuumVars
             /\ c # "cache"  => UNCHANGED cacheVars
             /\ c # "admin"  => UNCHANGED adminVars
             /\ c # "client" => UNCHANGED clientVars
  BY <1>2 DEF Only
<1>3. ASSUME Next, NEW c \in Components, Only(c)
      PROVE  /\ c = "beats"  => Beats!Next
             /\ c = "vacuum" => Vac!Next
             /\ c = "cache"  => Cache!Next
             /\ c = "admin"  => Admin!Next
             /\ c = "client" => Client!Next
  BY <1>3 DEF Next, Only
<1>4. Next => \E c \in Components : Only(c)
  BY DEF Next, Components
<1> QED BY <1>1, <1>2, <1>3, <1>4

-----------------------------------------------------------------------------
(* A steady worker has been heard of within every Timeout since it         *)
(* connected, so that no scan takes it.                                    *)
SteadyInv ==
    /\ clock \in Nat
    /\ connected \in [Ids -> {"new", "registered", "gone"}]
    /\ seen \in [Ids -> Int]
    /\ reaping \subseteq stale /\ stale \subseteq Ids \ Steady
    /\ \A w \in Steady :
        /\ connected[w] # "gone"
        /\ connected[w] = "new" => seen[w] = -1
        /\ seen[w] # -1 => clock - seen[w] <= Timeout

(* p2.go: a worker that beats in time is never unregistered by the reaper, *)
(* for any workers, any timeout and any order of the reaper's steps.       *)
THEOREM SteadyStayInServices == Spec => []SteadyStay
<1>0. Steady \subseteq Ids /\ Timeout \in Nat \ {0}
  BY ConstantsAssumption DEF Beats!ConstantsOK
<1>1. Init => SteadyInv
  BY <1>0 DEF Init, Beats!Init, SteadyInv
<1>2. SteadyInv /\ [Next]_vars => SteadyInv'
  <2> SUFFICES ASSUME SteadyInv, Beats!Next \/ UNCHANGED beatsVars PROVE SteadyInv'
    BY StepOfOthers
  <2>1. CASE UNCHANGED beatsVars
    BY <2>1 DEF SteadyInv, beatsVars
  <2>2. ASSUME NEW w \in Ids, Beats!Connect(w) PROVE SteadyInv'
    BY <1>0, <2>2 DEF SteadyInv, Beats!Connect, Beats!reaperVars
  <2>3. ASSUME NEW w \in Ids, Beats!Disconnect(w) PROVE SteadyInv'
    BY <1>0, <2>3 DEF SteadyInv, Beats!Disconnect, Beats!reaperVars
  <2>4. ASSUME NEW w \in Ids, Beats!Beat(w) PROVE SteadyInv'
    BY <1>0, <2>4 DEF SteadyInv, Beats!Beat, Beats!reaperVars
  <2>5. CASE Beats!Scan
    BY <1>0, <2>5 DEF SteadyInv, Beats!Scan
  <2>6. ASSUME NEW w \in Ids, Beats!Unregister(w) PROVE SteadyInv'
    BY <1>0, <2>6 DEF SteadyInv, Beats!Unregister
  <2>7. ASSUME NEW w \in Ids, Beats!Forget(w) PROVE SteadyInv'
    BY <1>0, <2>7 DEF SteadyInv, Beats!Forget
  <2>8. CASE Beats!Tick
    BY <1>0, <2>8 DEF SteadyInv, Beats!Tick, Beats!reaperVars
  <2> QED BY <2>1, <2>2, <2>3, <2>4, <2>5, <2>6, <2>7, <2>8 DEF Beats!Next, Beats!ReaperStep
<1>3. SteadyInv => SteadyStay
  BY DEF SteadyInv, SteadyStay, Beats!SteadyStay
<1> QED BY <1>1, <1>2, <1>3, PTL DEF Spec

-----------------------------------------------------------------------------
(* A GET that is about to delete a row has read an expired one.            *)
CacheInv ==
    /\ time \in Nat /\ expires \in Int
    /\ step \in [Readers -> {"new", "found", "drop", "missed", "served"}]
    /\ got \in [Readers -> Int]
    /\ \A r \in Readers : step[r] = "drop" => Cache!Expired(got[r])

LEMMA CacheInvariance == Spec => []CacheInv
<1>0. Ttls \subseteq Int /\ DefaultTtl \in Nat \ {0}
  BY ConstantsAssumption DEF Cache!ConstantsOK
<1>1. Init => CacheInv
  BY DEF Init, Cache!Init, CacheInv, Cache!NoRow
<1>2. CacheInv /\ [Next]_vars => CacheInv'
  <2> SUFFICES ASSUME CacheInv, Cache!Next \/ UNCHANGED cacheVars PROVE CacheInv'
    BY StepOfOthers
  <2> USE DEF CacheInv, Cache!Expired, Cache!NoRow, Cache!Remove
  <2>1. CASE UNCHANGED cacheVars
    BY <2>1 DEF cacheVars
  <2>2. CASE Cache!Set
    BY <1>0, <2>2 DEF Cache!Set
  <2>3. CASE Cache!Delete
    BY <2>3 DEF Cache!Delete
  <2>4. ASSUME NEW r \in Readers, Cache!Read(r) PROVE CacheInv'
    BY <2>4 DEF Cache!Read
  <2>5. ASSUME NEW r \in Readers, Cache!Answer(r) PROVE CacheInv'
    BY <2>5 DEF Cache!Answer
  <2>6. ASSUME NEW r \in Readers, Cache!Drop(r) PROVE CacheInv'
    BY <2>6 DEF Cache!Drop
  <2>7. CASE Cache!Cleanup
    BY <2>7 DEF Cache!Cleanup
  <2>8. CASE Cache!Tick
    BY <2>8 DEF Cache!Tick
  <2> QED BY <2>1, <2>2, <2>3, <2>4, <2>5, <2>6, <2>7, <2>8 DEF Cache!Next
<1> QED BY <1>1, <1>2, PTL DEF Spec

(* The step that LiveEntriesStay is about                                  *)
LiveGoes ==
    expires # Cache!NoRow /\ ~Cache!Expired(expires) /\ expires' = Cache!NoRow
        => \/ remover' = "client"
           \/ remover' = "get" /\ \E r \in Readers :
                    step[r] = "drop" /\ step'[r] # "drop" /\ Cache!Expired(got[r])

(* cache.go: no cleanup takes a row that is not expired, nor does a GET    *)
(* that read a row not expired, for any lifetimes and any number of GETs.  *)
THEOREM LiveEntriesStayInServices == Spec => LiveEntriesStay
<1>0. Ttls \subseteq Int /\ DefaultTtl \in Nat \ {0}
  BY ConstantsAssumption DEF Cache!ConstantsOK
<1>1. CacheInv /\ [Next]_vars => [LiveGoes]_Cache!vars
  <2> SUFFICES ASSUME CacheInv, Cache!Next PROVE LiveGoes
    BY StepOfOthers DEF cacheVars, Cache!vars
  <2> USE DEF CacheInv, LiveGoes, Cache!Expired, Cache!NoRow, Cache!Remove
  <2>1. CASE Cache!Set
    BY <1>0, <2>1 DEF Cache!Set
  <2>2. CASE Cache!Delete
    BY <2>2 DEF Cache!Delete
  <2>3. ASSUME NEW r \in Readers, Cache!Read(r) PROVE LiveGoes
    BY <2>3 DEF Cache!Read
  <2>4. ASSUME NEW r \in Readers, Cache!Answer(r) PROVE LiveGoes
    BY <2>4 DEF Cache!Answer
  <2>5. ASSUME NEW r \in Readers, Cache!Drop(r) PROVE LiveGoes
    BY <2>5 DEF Cache!Drop
  <2>6. CASE Cache!Cleanup
    BY <2>6 DEF Cache!Cleanup
  <2>7. CASE Cache!Tick
    BY <2>7 DEF Cache!Tick
  <2> QED BY <2>1, <2>2, <2>3, <2>4, <2>5, <2>6, <2>7 DEF Cache!Next
<1>2. [LiveGoes]_Cache!vars =>
        [expires # Cache!NoRow /\ ~Cache!Expired(expires) /\ expires' = Cache!NoRow
            => \/ remover' = "client"
               \/ remover' = "get" /\ \E r \in Readers :
                    step[r] = "drop" /\ step'[r] # "drop" /\ Cache!Expired(got[r])]_Cache!vars
  BY DEF LiveGoes
<1> QED BY <1>1, <1>2, CacheInvariance, PTL DEF Spec, LiveEntriesStay, Cache!LiveEntriesStay

-----------------------------------------------------------------------------
(* Runs that are or will be counted: a VACUUM that succeeded, up to the    *)
(* write that counts it.                                                   *)
Uncounted == {r \in Vac!Runners :
                \/ pc[r] \in {"count", "add"}
                \/ pc[r] = "answered" /\ outcome[r] = "ok"}

VacTypes ==
    /\ running \in BOOLEAN /\ overlapped \in BOOLEAN
    /\ pc \in [Vac!Runners -> {"new", "sleep", "free", "start", "queued", "answered",
                               "count", "add", "end"}]
    /\ outcome \in [Vac!Runners -> {"none", "ok", "error"}]
    /\ succeeded \in Nat /\ totalRuns \in Nat /\ read \in [Vac!Runners -> Nat]

(* However the increments interleave, what is written leaves room for      *)
(* those still to come. With one run at a time, nothing is lost.           *)
VacInv ==
    /\ VacTypes
    /\ IsFiniteSet(Uncounted)
    /\ totalRuns + Cardinality(Uncounted) <= succeeded
    /\ \A r \in Vac!Runners : pc[r] = "add" => read[r] + Cardinality(Uncounted) <= succeeded
    /\ running => \E r \in Vac!Runners : pc[r] \in {"queued", "answered"}
    /\ ~overlapped =>
        /\ \A r, q \in Vac!Runners : Vac!UnderWay(r) /\ Vac!UnderWay(q) => r = q
        /\ \A r \in Vac!Runners : pc[r] \in {"queued", "answered"} => running
        /\ \A r \in Vac!Runners : pc[r] = "add" => read[r] = totalRuns
        /\ totalRuns + Cardinality(Uncounted) = succeeded

LEMMA VacKept ==
    ASSUME VacInv, VacTypes', Uncounted' = Uncounted,
           totalRuns' = totalRuns, succeeded' = succeeded,
           \A r \in Vac!Runners : pc'[r] = "add" => pc[r] = "add" /\ read'[r] = read[r],
           running' => \E r \in Vac!Runners : pc'[r] \in {"queued", "answered"},
           ~overlapped' =>
            /\ ~overlapped
            /\ \A r, q \in Vac!Runners : Vac!UnderWay(r)' /\ Vac!UnderWay(q)' => r = q
            /\ \A r \in Vac!Runners : pc'[r] \in {"queued", "answered"} => running'
    PROVE  VacInv'
  BY DEF VacInv, VacTypes

LEMMA VacStep == VacInv /\ Vac!Next => VacInv'
<1> SUFFICES ASSUME VacInv, Vac!Next PROVE VacInv'
  OBVIOUS
<1>0. VacTypes /\ "vacuumer" \notin VacuumRequests /\ Vac!Runners = VacuumRequests \cup {"vacuumer"}
  BY ConstantsAssumption DEF Vac!ConstantsOK, VacInv, Vac!Runners
<1>1. CASE Vac!Activity
  <2>1. UNCHANGED <<running, totalRuns, idleCount, pc, outcome, read, auto, succeeded, overlapped>>
    BY <1>1 DEF Vac!Activity, Vac!historyVars
  <2>2. Uncounted' = Uncounted
    BY <2>1 DEF Uncounted
  <2> QED BY <1>0, <2>1, <2>2, VacKept DEF VacInv, VacTypes, Vac!UnderWay
<1>2. CASE Vac!WakeUp
  <2>1. /\ UNCHANGED <<running, totalRuns, outcome, read, succeeded>>
        /\ IF running THEN pc' = [pc EXCEPT !["vacuumer"] = "sleep"] /\ overlapped' = overlapped
                      ELSE /\ pc' = [pc EXCEPT !["vacuumer"] = "free"]
                           /\ overlapped' = (overlapped \/ \E o \in Vac!Runners \ {"vacuumer"} : Vac!UnderWay(o))
        /\ pc["vacuumer"] = "sleep"
    BY <1>2 DEF Vac!WakeUp, Vac!Go, Vac!Overlap
  <2>2. Uncounted' = Uncounted
    BY <1>0, <2>1 DEF Uncounted, VacTypes
  <2>3. VacTypes'
    BY <1>0, <2>1 DEF VacTypes
  <2> QED BY <1>0, <2>1, <2>2, <2>3, VacKept DEF VacInv, VacTypes, Vac!UnderWay
<1>3. CASE Vac!CheckIdle
  <2>1. /\ UNCHANGED <<running, totalRuns, outcome, read, succeeded, overlapped>>
        /\ pc["vacuumer"] = "free"
        /\ \E p \in {"sleep", "start"} : pc' = [pc EXCEPT !["vacuumer"] = p]
    BY <1>3 DEF Vac!CheckIdle, Vac!Go, Vac!historyVars
  <2>2. Uncounted' = Uncounted
    BY <1>0, <2>1 DEF Uncounted, VacTypes
  <2>3. VacTypes'
    BY <1>0, <2>1 DEF VacTypes
  <2> QED BY <1>0, <2>1, <2>2, <2>3, VacKept DEF VacInv, VacTypes, Vac!UnderWay
<1>4. ASSUME NEW r \in VacuumRequests, Vac!Ask(r) PROVE VacInv'
  <2>1. /\ UNCHANGED <<running, totalRuns, outcome, read, succeeded>>
        /\ IF running THEN pc' = [pc EXCEPT ![r] = "end"] /\ overlapped' = overlapped
                      ELSE /\ pc' = [pc EXCEPT ![r] = "start"]
                           /\ overlapped' = (overlapped \/ \E o \in Vac!Runners \ {r} : Vac!UnderWay(o))
        /\ pc[r] = "new" /\ r \in Vac!Runners
    BY <1>0, <1>4 DEF Vac!Ask, Vac!Go, Vac!Overlap
  <2>2. Uncounted' = Uncounted
    BY <1>0, <2>1 DEF Uncounted, VacTypes
  <2>3. VacTypes'
    BY <1>0, <2>1 DEF VacTypes
  <2> QED BY <1>0, <2>1, <2>2, <2>3, VacKept DEF VacInv, VacTypes, Vac!UnderWay
<1>5. ASSUME NEW r \in Vac!Runners, Vac!Start(r) PROVE VacInv'
  <2>1. /\ UNCHANGED <<totalRuns, outcome, read, succeeded, overlapped>>
        /\ pc[r] = "start" /\ pc' = [pc EXCEPT ![r] = "queued"] /\ running' = TRUE
    BY <1>5 DEF Vac!Start, Vac!Go
  <2>2. Uncounted' = Uncounted
    BY <1>0, <2>1 DEF Uncounted, VacTypes
  <2>3. VacTypes'
    BY <1>0, <2>1 DEF VacTypes
  <2> QED BY <1>0, <2>1, <2>2, <2>3, VacKept DEF VacInv, VacTypes, Vac!UnderWay
<1>6. ASSUME NEW r \in Vac!Runners, Vac!Execute(r) PROVE VacInv'
  <2>1. PICK o \in {"ok", "error"} :
            /\ outcome' = [outcome EXCEPT ![r] = o]
            /\ succeeded' = IF o = "ok" THEN succeeded + 1 ELSE succeeded
    BY <1>6 DEF Vac!Execute
  <2>2. /\ pc[r] = "queued" /\ pc' = [pc EXCEPT ![r] = "answered"]
        /\ UNCHANGED <<running, totalRuns, read, overlapped>>
    BY <1>6 DEF Vac!Execute, Vac!Go
  <2>3. VacTypes'
    BY <1>0, <2>1, <2>2 DEF VacTypes
  <2>4. CASE o = "error"
    <3>1. Uncounted' = Uncounted
      BY <1>0, <2>1, <2>2, <2>4 DEF Uncounted, VacTypes
    <3> QED BY <1>0, <2>1, <2>2, <2>3, <2>4, <3>1, VacKept DEF VacInv, VacTypes, Vac!UnderWay
  <2>5. CASE o = "ok"
    <3>1. Uncounted' = Uncounted \cup {r} /\ r \notin Uncounted
      BY <1>0, <2>1, <2>2, <2>5 DEF Uncounted, VacTypes
    <3>2. IsFiniteSet(Uncounted) /\ Cardinality(Uncounted) \in Nat
      BY FS_CardinalityType DEF VacInv
    <3>3. IsFiniteSet(Uncounted') /\ Cardinality(Uncounted') = Cardinality(Uncounted) + 1
      BY <3>1, <3>2, FS_AddElement
    <3> QED BY <1>0, <2>1, <2>2, <2>3, <2>5, <3>2, <3>3 DEF VacInv, VacTypes, Vac!UnderWay
  <2> QED BY <2>4, <2>5
<1>7. ASSUME NEW r \in Vac!Runners, Vac!Clear(r) PROVE VacInv'
  <2>1. /\ pc[r] = "answered" /\ running' = FALSE
        /\ \E p \in {"count", "sleep", "end"} :
            /\ pc' = [pc EXCEPT ![r] = p]
            /\ p = "count" <=> outcome[r] = "ok"
        /\ UNCHANGED <<totalRuns, outcome, read, succeeded, overlapped>>
    BY <1>7 DEF Vac!Clear, Vac!Go, Vac!Home, Vac!historyVars
  <2>2. Uncounted' = Uncounted
    BY <1>0, <2>1 DEF Uncounted, VacTypes
  <2>3. VacTypes'
    BY <1>0, <2>1 DEF VacTypes
  <2> QED BY <1>0, <2>1, <2>2, <2>3, VacKept DEF VacInv, VacTypes, Vac!UnderWay
<1>8. ASSUME NEW r \in Vac!Runners, Vac!ReadTotal(r) PROVE VacInv'
  <2>1. /\ pc[r] = "count" /\ pc' = [pc EXCEPT ![r] = "add"]
        /\ read' = [read EXCEPT ![r] = totalRuns]
        /\ UNCHANGED <<running, totalRuns, outcome, succeeded, overlapped>>
    BY <1>8 DEF Vac!ReadTotal, Vac!Go, Vac!historyVars
  <2>2. Uncounted' = Uncounted
    BY <1>0, <2>1 DEF Uncounted, VacTypes
  <2>3. VacTypes'
    BY <1>0, <2>1 DEF VacTypes
  <2> QED BY <1>0, <2>1, <2>2, <2>3 DEF VacInv, VacTypes, Vac!UnderWay
<1>9. ASSUME NEW r \in Vac!Runners, Vac!WriteTotal(r) PROVE VacInv'
  <2>1. /\ pc[r] = "add" /\ totalRuns' = read[r] + 1
        /\ \E p \in {"sleep", "end"} : pc' = [pc EXCEPT ![r] = p]
        /\ UNCHANGED <<running, outcome, read, succeeded, overlapped>>
    BY <1>9 DEF Vac!WriteTotal, Vac!Go, Vac!Home, Vac!historyVars
  <2>2. Uncounted' = Uncounted \ {r} /\ r \in Uncounted
    BY <1>0, <2>1 DEF Uncounted, VacTypes
  <2>3. IsFiniteSet(Uncounted) /\ Cardinality(Uncounted) \in Nat
    BY FS_CardinalityType DEF VacInv
  <2>4. IsFiniteSet(Uncounted') /\ Cardinality(Uncounted') = Cardinality(Uncounted) - 1
    BY <2>2, <2>3, FS_RemoveElement
  <2>5. VacTypes'
    BY <1>0, <2>1 DEF VacTypes
  <2> QED BY <1>0, <2>1, <2>3, <2>4, <2>5 DEF VacInv, VacTypes, Vac!UnderWay
<1> QED BY <1>0, <1>1, <1>2, <1>3, <1>4, <1>5, <1>6, <1>7, <1>8, <1>9 DEF Vac!Next, Vac!RunnerStep

LEMMA VacInvariance == Spec => []VacInv
<1>1. Init => VacInv
  <2> SUFFICES ASSUME Init PROVE VacInv
    OBVIOUS
  <2>1. /\ running = FALSE /\ overlapped = FALSE /\ succeeded = 0 /\ totalRuns = 0
        /\ pc = [r \in Vac!Runners |-> IF r = "vacuumer" THEN "sleep" ELSE "new"]
        /\ outcome = [r \in Vac!Runners |-> "none"] /\ read = [r \in Vac!Runners |-> 0]
    BY DEF Init, Vac!Init
  <2>2. VacTypes
    BY <2>1 DEF VacTypes
  <2>3. Uncounted = {} /\ \A r \in Vac!Runners : pc[r] \in {"sleep", "new"}
    BY <2>1 DEF Uncounted
  <2>4. IsFiniteSet(Uncounted) /\ Cardinality(Uncounted) = 0
    BY <2>3, FS_EmptySet
  <2> QED BY <2>1, <2>2, <2>3, <2>4 DEF VacInv, Vac!UnderWay
<1>2. VacInv /\ [Next]_vars => VacInv'
  <2>1. ASSUME VacInv, UNCHANGED vacuumVars PROVE VacInv'
    BY <2>1 DEF VacInv, VacTypes, Uncounted, Vac!UnderWay, vacuumVars
  <2> QED BY <2>1, VacStep, StepOfOthers
<1> QED BY <1>1, <1>2, PTL DEF Spec

(* main.go: vacuumState tells the truth, for any number of requests, any   *)
(* number of idle checks and however the VACUUMs and their counting        *)
(* interleave and fail.                                                    *)
THEOREM StateTruthInServices == Spec => []StateTellsTruth
<1>1. VacInv => StateTellsTruth
  <2> SUFFICES ASSUME VacInv PROVE StateTellsTruth
    OBVIOUS
  <2>1. IsFiniteSet(Uncounted) /\ Cardinality(Uncounted) \in Nat
    BY FS_CardinalityType DEF VacInv
  <2>2. (\A r \in Vac!Runners : ~Vac!UnderWay(r)) => Cardinality(Uncounted) = 0
    <3>1. (\A r \in Vac!Runners : ~Vac!UnderWay(r)) => Uncounted = {}
      BY DEF Uncounted, Vac!UnderWay
    <3> QED BY <3>1, FS_EmptySet
  <2> QED BY <2>1, <2>2 DEF VacInv, VacTypes, StateTellsTruth, Vac!StateTellsTruth
<1> QED BY <1>1, VacInvariance, PTL

-----------------------------------------------------------------------------
AdminTypes ==
    /\ second \in Nat /\ lastId \in Nat /\ submitted \in Nat /\ crossed \in BOOLEAN
    /\ DOMAIN rows \subseteq 1..lastId
    /\ \A i \in DOMAIN rows : rows[i] \in Admin!JobRow
    /\ work \in [Executors -> [id : Nat, attempts : Nat, next : {"reserve", "report", "letter"},
                               submission : Nat]]
    /\ admin \in [Admins -> [next : {"ask", "unletter", "unrow", "end"}, now : Nat]]

(* An executor's job is among those submitted since the sequence was last  *)
(* set back, unless a reset crossed an execution.                          *)
AdminInv ==
    /\ AdminTypes
    /\ FailedHasLetter
    /\ ExecutorsKeepTheirJob
    /\ ~crossed => \A e \in Executors : work[e].id <= lastId

(* A statement that changes rows in place, keeping their submissions       *)
SameJobs ==
    /\ DOMAIN rows' = DOMAIN rows
    /\ \A i \in DOMAIN rows : rows'[i] \in Admin!JobRow /\ rows'[i].submission = rows[i].submission

LEMMA SubmitAdmin == AdminInv /\ Admin!Submit => AdminInv'
<1> SUFFICES ASSUME AdminInv, Admin!Submit PROVE AdminInv'
  OBVIOUS
<1>0. AdminTypes
  BY DEF AdminInv
<1>1. /\ DOMAIN rows' = DOMAIN rows \cup {lastId + 1} /\ lastId' = lastId + 1
      /\ \A i \in DOMAIN rows : rows'[i] = rows[i]
      /\ rows'[lastId + 1] = [status |-> "pending", attempts |-> 0, updated |-> second,
                              submission |-> submitted + 1]
      /\ UNCHANGED <<second, letters, work, admin, crossed>> /\ submitted' = submitted + 1
  BY <1>0 DEF Admin!Submit, Admin!NewRow, AdminTypes
<1>2. AdminTypes'
  BY <1>0, <1>1 DEF AdminTypes, Admin!JobRow
<1>3. FailedHasLetter'
  BY <1>1 DEF AdminInv, FailedHasLetter, Admin!FailedHasLetter, Admin!WithStatus
<1>4. ExecutorsKeepTheirJob'
  BY <1>0, <1>1 DEF AdminInv, AdminTypes, ExecutorsKeepTheirJob, Admin!ExecutorsKeepTheirJob
<1>5. ~crossed' => \A e \in Executors : work'[e].id <= lastId'
  BY <1>0, <1>1 DEF AdminInv, AdminTypes
<1> QED BY <1>2, <1>3, <1>4, <1>5 DEF AdminInv

(* What becomes of the row of a job that is reserved                       *)
LEMMA RestampedRow ==
    ASSUME NEW r \in Admin!JobRow, NEW t \in Nat, NEW n \in Nat
    PROVE  LET new == [r EXCEPT !.status = "running", !.attempts = n, !.updated = t]
           IN  new \in Admin!JobRow /\ new.status = "running" /\ new.submission = r.submission
  BY DEF Admin!JobRow

LEMMA ReservedRow ==
    ASSUME NEW r \in Admin!JobRow, NEW t \in Nat
    PROVE  LET new == [r EXCEPT !.status = "running", !.attempts = @ + 1, !.updated = t]
           IN  new \in Admin!JobRow /\ new.status = "running" /\ new.submission = r.submission
<1>1. r.attempts + 1 \in Nat
  BY DEF Admin!JobRow
<1> QED BY <1>1, RestampedRow

LEMMA ReserveAdmin == ASSUME NEW e \in Executors PROVE AdminInv /\ Admin!Reserve(e) => AdminInv'
<1> SUFFICES ASSUME AdminInv, Admin!Reserve(e) PROVE AdminInv'
  OBVIOUS
<1>0. AdminTypes
  BY DEF AdminInv
<1>1. PICK i \in DOMAIN rows :
        /\ rows' = [j \in DOMAIN rows |->
                        IF j \in {i} THEN [rows[j] EXCEPT !.status = "running", !.attempts = @ + 1,
                                                          !.updated = second]
                                     ELSE rows[j]]
        /\ work' = [work EXCEPT ![e] =
                        [id |-> i, attempts |-> rows[i].attempts + 1, next |-> "report",
                         submission |-> rows[i].submission]]
  BY DEF Admin!Reserve, Admin!WithStatus, Admin!Set
<1>2. work[e].next = "reserve" /\ UNCHANGED <<second, lastId, letters, admin, submitted, crossed>>
  BY DEF Admin!Reserve
<1>3. /\ SameJobs
      /\ \A j \in DOMAIN rows : rows'[j].status = IF j = i THEN "running" ELSE rows[j].status
  <2>1. rows[i] \in Admin!JobRow /\ second \in Nat
    BY <1>0 DEF AdminTypes
  <2>2. rows'[i] \in Admin!JobRow /\ rows'[i].status = "running"
        /\ rows'[i].submission = rows[i].submission
    BY <1>1, <2>1, ReservedRow
  <2>3. DOMAIN rows' = DOMAIN rows /\ \A j \in DOMAIN rows : j # i => rows'[j] = rows[j]
    BY <1>1
  <2> QED BY <1>0, <2>2, <2>3 DEF SameJobs, AdminTypes
<1>4. rows[i].attempts \in Nat /\ rows[i].submission \in Nat /\ i \in Nat /\ i <= lastId
  BY <1>0 DEF AdminTypes, Admin!JobRow
<1>5. AdminTypes'
  <2> DEFINE task == [id |-> i, attempts |-> rows[i].attempts + 1, next |-> "report",
                       submission |-> rows[i].submission]
  <2>1. task \in [id : Nat, attempts : Nat, next : {"reserve", "report", "letter"}, submission : Nat]
    BY <1>4
  <2>2. work' = [work EXCEPT ![e] = task]
    BY <1>1
  <2> HIDE DEF task
  <2>3. work' \in [Executors -> [id : Nat, attempts : Nat, next : {"reserve", "report", "letter"},
                                 submission : Nat]]
    BY <1>0, <2>1, <2>2 DEF AdminTypes
  <2> QED BY <1>0, <1>2, <1>3, <2>3 DEF AdminTypes, SameJobs
<1>6. \A o \in Executors : work'[o] = IF o = e THEN [id |-> i, attempts |-> rows[i].attempts + 1,
                                                     next |-> "report", submission |-> rows[i].submission]
                                               ELSE work[o]
  BY <1>0, <1>1 DEF AdminTypes
<1>7. FailedHasLetter'
  BY <1>2, <1>3, <1>6 DEF AdminInv, FailedHasLetter, Admin!FailedHasLetter, Admin!WithStatus, SameJobs
<1>8. ExecutorsKeepTheirJob'
  BY <1>2, <1>3, <1>6 DEF AdminInv, ExecutorsKeepTheirJob, Admin!ExecutorsKeepTheirJob, SameJobs
<1>9. ~crossed' => \A o \in Executors : work'[o].id <= lastId'
  BY <1>2, <1>4, <1>6 DEF AdminInv
<1> QED BY <1>5, <1>7, <1>8, <1>9 DEF AdminInv

LEMMA ReportAdmin == ASSUME NEW e \in Executors PROVE AdminInv /\ Admin!Report(e) => AdminInv'
<1> SUFFICES ASSUME AdminInv, Admin!Report(e) PROVE AdminInv'
  OBVIOUS
<1>0. AdminTypes
  BY DEF AdminInv
<1>1. PICK verdict \in {"done", "pending", "failed"} :
        /\ rows' = [j \in DOMAIN rows |->
                        IF j \in {work[e].id} THEN [rows[j] EXCEPT !.status = verdict, !.updated = second]
                                              ELSE rows[j]]
        /\ work' = [work EXCEPT ![e] =
                        IF verdict = "failed" THEN [@ EXCEPT !.next = "letter"] ELSE Admin!Idle]
  BY DEF Admin!Report, Admin!Set
<1>2. work[e].next = "report" /\ UNCHANGED <<second, lastId, letters, admin, submitted, crossed>>
  BY DEF Admin!Report
<1>3. /\ SameJobs
      /\ \A j \in DOMAIN rows : rows'[j].status = IF j = work[e].id THEN verdict ELSE rows[j].status
  BY <1>0, <1>1 DEF SameJobs, AdminTypes, Admin!JobRow
<1>4. /\ \A o \in Executors \ {e} : work'[o] = work[o]
      /\ work'[e] = IF verdict = "failed" THEN [work[e] EXCEPT !.next = "letter"] ELSE Admin!Idle
      /\ verdict = "failed" =>
            /\ work'[e].id = work[e].id /\ work'[e].next = "letter"
            /\ work'[e].submission = work[e].submission
      /\ verdict # "failed" => work'[e].id = 0
      /\ work' \in [Executors -> [id : Nat, attempts : Nat, next : {"reserve", "report", "letter"},
                                  submission : Nat]]
  BY <1>0, <1>1 DEF AdminTypes, Admin!Idle
<1>5. AdminTypes'
  BY <1>0, <1>2, <1>3, <1>4 DEF AdminTypes, SameJobs
<1>6. FailedHasLetter'
  BY <1>2, <1>3, <1>4 DEF AdminInv, FailedHasLetter, Admin!FailedHasLetter, Admin!WithStatus, SameJobs
<1>7. ExecutorsKeepTheirJob'
  BY <1>0, <1>2, <1>3, <1>4 DEF AdminInv, ExecutorsKeepTheirJob, Admin!ExecutorsKeepTheirJob, SameJobs, AdminTypes
<1>8. ~crossed' => \A o \in Executors : work'[o].id <= lastId'
  BY <1>0, <1>2, <1>4 DEF AdminInv, AdminTypes
<1> QED BY <1>5, <1>6, <1>7, <1>8 DEF AdminInv

LEMMA InsertLetterAdmin ==
    ASSUME NEW e \in Executors PROVE AdminInv /\ Admin!InsertLetter(e) => AdminInv'
<1> SUFFICES ASSUME AdminInv, Admin!InsertLetter(e) PROVE AdminInv'
  OBVIOUS
<1>0. AdminTypes
  BY DEF AdminInv
<1>1. /\ letters' = letters \cup {work[e].id}
      /\ work' = [work EXCEPT ![e] = Admin!Idle]
      /\ UNCHANGED <<second, rows, lastId, admin, submitted, crossed>>
  BY DEF Admin!InsertLetter
<1>2. /\ \A o \in Executors \ {e} : work'[o] = work[o]
      /\ work'[e].id = 0
      /\ work' \in [Executors -> [id : Nat, attempts : Nat, next : {"reserve", "report", "letter"},
                                  submission : Nat]]
  BY <1>0, <1>1 DEF AdminTypes, Admin!Idle
<1>3. AdminTypes'
  BY <1>0, <1>1, <1>2 DEF AdminTypes
<1>4. FailedHasLetter'
  BY <1>1, <1>2 DEF AdminInv, FailedHasLetter, Admin!FailedHasLetter, Admin!WithStatus
<1>5. ExecutorsKeepTheirJob'
  BY <1>0, <1>1, <1>2 DEF AdminInv, ExecutorsKeepTheirJob, Admin!ExecutorsKeepTheirJob, AdminTypes
<1>6. ~crossed' => \A o \in Executors : work'[o].id <= lastId'
  BY <1>0, <1>1, <1>2 DEF AdminInv, AdminTypes
<1> QED BY <1>3, <1>4, <1>5, <1>6 DEF AdminInv

(* A request goes on to its next statement.                                *)
LEMMA ThenType ==
    ASSUME AdminTypes, NEW a \in Admins, NEW n \in {"ask", "unletter", "unrow", "end"},
           Admin!Then(a, n)
    PROVE  /\ admin' \in [Admins -> [next : {"ask", "unletter", "unrow", "end"}, now : Nat]]
           /\ admin'[a].next = n /\ \A o \in Admins \ {a} : admin'[o] = admin[o]
  BY DEF AdminTypes, Admin!Then

LEMMA RetryAdmin == ASSUME NEW a \in Admins PROVE AdminInv /\ Admin!Retry(a) => AdminInv'
<1> SUFFICES ASSUME AdminInv, Admin!Retry(a) PROVE AdminInv'
  OBVIOUS
<1>0. AdminTypes
  BY DEF AdminInv
<1>1. /\ rows' = [j \in DOMAIN rows |->
                    IF j \in Admin!WithStatus("failed")
                    THEN [rows[j] EXCEPT !.status = "pending", !.attempts = 0, !.updated = second]
                    ELSE rows[j]]
      /\ Admin!Then(a, "unletter")
      /\ admin[a].next = "ask" /\ UNCHANGED <<second, lastId, letters, work, submitted, crossed>>
  BY DEF Admin!Retry, Admin!Set
<1>2. /\ SameJobs
      /\ \A j \in DOMAIN rows : rows'[j].status # "failed"
  BY <1>0, <1>1 DEF SameJobs, AdminTypes, Admin!JobRow, Admin!WithStatus
<1>3. admin' \in [Admins -> [next : {"ask", "unletter", "unrow", "end"}, now : Nat]]
  BY <1>0, <1>1, ThenType
<1>4. AdminTypes'
  BY <1>0, <1>1, <1>2, <1>3 DEF AdminTypes, SameJobs
<1>5. FailedHasLetter'
  BY <1>2 DEF FailedHasLetter, Admin!FailedHasLetter, Admin!WithStatus, SameJobs
<1>6. ExecutorsKeepTheirJob'
  BY <1>1, <1>2 DEF AdminInv, ExecutorsKeepTheirJob, Admin!ExecutorsKeepTheirJob, SameJobs
<1> QED BY <1>1, <1>4, <1>5, <1>6 DEF AdminInv

LEMMA UnletterAdmin == ASSUME NEW a \in Admins PROVE AdminInv /\ Admin!RetryUnletter(a) => AdminInv'
<1> SUFFICES ASSUME AdminInv, Admin!RetryUnletter(a) PROVE AdminInv'
  OBVIOUS
<1>0. AdminTypes
  BY DEF AdminInv
<1>1. /\ letters' = letters \ {i \in Admin!WithStatus("pending") :
                                rows[i].attempts = 0 /\ rows[i].updated = admin[a].now}
      /\ Admin!Then(a, "end") /\ admin[a].next = "unletter"
      /\ UNCHANGED <<second, rows, lastId, work, submitted, crossed>>
  BY DEF Admin!RetryUnletter
<1>2. /\ admin' \in [Admins -> [next : {"ask", "unletter", "unrow", "end"}, now : Nat]]
      /\ \A o \in Admins \ {a} : admin'[o] = admin[o]
  BY <1>0, <1>1, ThenType
<1>3. AdminTypes'
  BY <1>0, <1>1, <1>2 DEF AdminTypes
<1>4. FailedHasLetter'
  BY <1>1, <1>2 DEF AdminInv, FailedHasLetter, Admin!FailedHasLetter, Admin!WithStatus
<1>5. ExecutorsKeepTheirJob'
  BY <1>1 DEF AdminInv, ExecutorsKeepTheirJob, Admin!ExecutorsKeepTheirJob
<1> QED BY <1>1, <1>3, <1>4, <1>5 DEF AdminInv

LEMMA ClearAdmin == ASSUME NEW a \in Admins PROVE AdminInv /\ Admin!Clear(a) => AdminInv'
<1> SUFFICES ASSUME AdminInv, Admin!Clear(a) PROVE AdminInv'
  OBVIOUS
<1>0. AdminTypes
  BY DEF AdminInv
<1>1. /\ letters' = {} /\ Admin!Then(a, "unrow")
      /\ UNCHANGED <<second, rows, lastId, work, submitted, crossed>>
  BY DEF Admin!Clear
<1>2. /\ admin' \in [Admins -> [next : {"ask", "unletter", "unrow", "end"}, now : Nat]]
      /\ admin'[a].next = "unrow"
  BY <1>0, <1>1, ThenType
<1>3. AdminTypes'
  BY <1>0, <1>1, <1>2 DEF AdminTypes
<1>4. FailedHasLetter'
  BY <1>2 DEF FailedHasLetter, Admin!FailedHasLetter
<1>5. ExecutorsKeepTheirJob'
  BY <1>1 DEF AdminInv, ExecutorsKeepTheirJob, Admin!ExecutorsKeepTheirJob
<1> QED BY <1>1, <1>3, <1>4, <1>5 DEF AdminInv

LEMMA ClearRowsAdmin == ASSUME NEW a \in Admins PROVE AdminInv /\ Admin!ClearRows(a) => AdminInv'
<1> SUFFICES ASSUME AdminInv, Admin!ClearRows(a) PROVE AdminInv'
  OBVIOUS
<1>0. AdminTypes
  BY DEF AdminInv
<1>1. /\ DOMAIN rows' = {i \in DOMAIN rows : rows[i].status # "failed"}
      /\ \A i \in DOMAIN rows' : rows'[i] = rows[i]
      /\ Admin!Then(a, "end")
      /\ UNCHANGED <<second, lastId, letters, work, submitted, crossed>>
  BY DEF Admin!ClearRows, Admin!WithStatus, Admin!Restrict
<1>2. admin' \in [Admins -> [next : {"ask", "unletter", "unrow", "end"}, now : Nat]]
  BY <1>0, <1>1, ThenType
<1>3. AdminTypes'
  BY <1>0, <1>1, <1>2 DEF AdminTypes
<1>4. FailedHasLetter'
  BY <1>1 DEF FailedHasLetter, Admin!FailedHasLetter, Admin!WithStatus
<1>5. ExecutorsKeepTheirJob'
  BY <1>1 DEF AdminInv, ExecutorsKeepTheirJob, Admin!ExecutorsKeepTheirJob
<1> QED BY <1>1, <1>3, <1>4, <1>5 DEF AdminInv

LEMMA ResetAdmin == ASSUME NEW a \in Admins PROVE AdminInv /\ Admin!Reset(a) => AdminInv'
<1> SUFFICES ASSUME AdminInv, Admin!Reset(a) PROVE AdminInv'
  OBVIOUS
<1>0. AdminTypes
  BY DEF AdminInv
<1>1. /\ DOMAIN rows' = {} /\ lastId' = 0 /\ Admin!Then(a, "end")
      /\ crossed' = (crossed \/ \E e \in Executors : work[e] # Admin!Idle)
      /\ UNCHANGED <<second, letters, work, submitted>>
  BY DEF Admin!Reset
<1>2. admin' \in [Admins -> [next : {"ask", "unletter", "unrow", "end"}, now : Nat]]
  BY <1>0, <1>1, ThenType
<1>3. AdminTypes'
  BY <1>0, <1>1, <1>2 DEF AdminTypes
<1>4. FailedHasLetter'
  BY <1>1 DEF FailedHasLetter, Admin!FailedHasLetter, Admin!WithStatus
<1>5. ExecutorsKeepTheirJob'
  BY <1>1 DEF ExecutorsKeepTheirJob, Admin!ExecutorsKeepTheirJob
<1>6. ~crossed' => \A e \in Executors : work'[e].id <= lastId'
  <2>1. ASSUME ~crossed', NEW e \in Executors PROVE work'[e] = Admin!Idle
    BY <1>1, <2>1
  <2> QED BY <1>1, <2>1 DEF Admin!Idle
<1> QED BY <1>3, <1>4, <1>5, <1>6 DEF AdminInv

LEMMA AdminInvariance == Spec => []AdminInv
<1>1. Init => AdminInv
  <2> SUFFICES ASSUME Init PROVE AdminInv
    OBVIOUS
  <2>1. /\ second = 0 /\ DOMAIN rows = {} /\ lastId = 0 /\ submitted = 0 /\ crossed = FALSE
        /\ work = [e \in Executors |-> Admin!Idle]
        /\ admin = [a \in Admins |-> [next |-> "ask", now |-> 0]]
    BY DEF Init, Admin!Init
  <2>2. AdminTypes
    BY <2>1 DEF AdminTypes, Admin!Idle
  <2>3. \A e \in Executors : work[e].id = 0
    BY <2>1 DEF Admin!Idle
  <2> QED BY <2>1, <2>2, <2>3 DEF AdminInv, FailedHasLetter, Admin!FailedHasLetter, Admin!WithStatus,
                                 ExecutorsKeepTheirJob, Admin!ExecutorsKeepTheirJob
<1>2. AdminInv /\ [Next]_vars => AdminInv'
  <2> SUFFICES ASSUME AdminInv, Admin!Next \/ UNCHANGED adminVars PROVE AdminInv'
    BY StepOfOthers
  <2>1. CASE UNCHANGED adminVars
    BY <2>1 DEF AdminInv, AdminTypes, adminVars, FailedHasLetter, Admin!FailedHasLetter,
                Admin!WithStatus, ExecutorsKeepTheirJob, Admin!ExecutorsKeepTheirJob
  <2>2. CASE Admin!Tick
    <3>1. second' = second + 1 /\ UNCHANGED <<rows, lastId, letters, work, admin, submitted, crossed>>
      BY <2>2 DEF Admin!Tick
    <3> QED BY <3>1 DEF AdminInv, AdminTypes, FailedHasLetter, Admin!FailedHasLetter,
                Admin!WithStatus, ExecutorsKeepTheirJob, Admin!ExecutorsKeepTheirJob
  <2> QED BY <2>1, <2>2, SubmitAdmin, ReserveAdmin, ReportAdmin, InsertLetterAdmin, RetryAdmin,
             UnletterAdmin, ClearAdmin, ClearRowsAdmin, ResetAdmin DEF Admin!Next, Admin!AdminStep
<1> QED BY <1>1, <1>2, PTL DEF Spec

(* main.go: administration leaves every failed job its dead letter, for    *)
(* any number of executors, jobs and requests, whose statements interleave.*)
THEOREM FailedHasLetterInServices == Spec => []FailedHasLetter
<1>1. AdminInv => FailedHasLetter
  BY DEF AdminInv
<1> QED BY <1>1, AdminInvariance, PTL

(* backend.go, main.go: a job's id is not given away while it executes,    *)
(* for any number of executors, clearings and resets.                      *)
THEOREM ExecutorsKeepTheirJobInServices == Spec => []ExecutorsKeepTheirJob
<1>1. AdminInv => ExecutorsKeepTheirJob
  BY DEF AdminInv
<1> QED BY <1>1, AdminInvariance, PTL

-----------------------------------------------------------------------------
ClientTypes ==
    /\ loop \in {"dial", "read", "acquire", "sleep", "returned", "panicked"}
    /\ link \in 0..MaxLinks /\ MaxLinks \in Nat /\ up \in BOOLEAN /\ (up => link > 0)
    /\ inbox \in Seq(Tasks) /\ taken \subseteq Tasks
    /\ goroutines \subseteq [task : Tasks, link : 1..link, at : {"executing", "writing"}]
    /\ received \in [Client!Links -> SUBSET Tasks]
    /\ answers \in [Client!Links -> Seq(Tasks)]

(* Jobs of the current connection not answered yet, and the goroutines     *)
(* that execute them                                                       *)
Due == received[link] \ Client!ToSet(answers[link])
Serving == {g \in goroutines : g.link = link}

(* What the server asks over the current connection is in one place: on    *)
(* the wire, before the semaphore or with one goroutine.                   *)
InOnePlace ==
    /\ Len(inbox) <= 1
    /\ inbox # <<>> => taken = {} /\ Serving = {} /\ Head(inbox) \in Due
    /\ taken # {} => Serving = {} /\ \E t \in Due : taken = {t}
    /\ \A g \in Serving : g.task \in Due /\ Serving = {g}

ClientInv ==
    /\ ClientTypes
    /\ AnswersAsAsked
    /\ IF link = 0 THEN inbox = <<>> /\ taken = {} ELSE InOnePlace
    /\ taken # {} => loop \in {"acquire", "panicked"}
    /\ \A l \in Client!Links : l > link => received[l] = {} /\ answers[l] = <<>>

(* A step after which no job of the current connection is in a place where *)
(* it was not before                                                       *)
LEMMA ClientKept ==
    ASSUME ClientInv, ClientTypes', link' = link, received' = received, answers' = answers,
           inbox' \in {inbox, <<>>}, taken' = taken, goroutines' \subseteq goroutines,
           taken # {} => loop' \in {"acquire", "panicked"}
    PROVE  ClientInv'
<1>1. Due' = Due /\ Serving' \subseteq Serving
  BY DEF Due, Serving
<1>2. AnswersAsAsked'
  BY DEF ClientInv, AnswersAsAsked, Client!AnswersAsAsked
<1>3. IF link = 0 THEN inbox' = <<>> /\ taken' = {} ELSE InOnePlace'
  <2>1. CASE link = 0
    BY <2>1 DEF ClientInv
  <2>2. CASE link # 0
    <3>1. InOnePlace
      BY <2>2 DEF ClientInv
    <3> QED BY <1>1, <2>2, <3>1 DEF InOnePlace
  <2> QED BY <2>1, <2>2
<1> QED BY <1>2, <1>3 DEF ClientInv

LEMMA SendJobClient == ASSUME NEW t \in Tasks PROVE ClientInv /\ Client!SendJob(t) => ClientInv'
<1> SUFFICES ASSUME ClientInv, Client!SendJob(t) PROVE ClientInv'
  OBVIOUS
<1>0. ClientTypes /\ InOnePlace /\ link \in Client!Links
  BY DEF ClientInv, ClientTypes, Client!SendJob, Client!Links
<1>1. /\ received[link] = Client!ToSet(answers[link]) /\ t \notin received[link]
      /\ received' = [received EXCEPT ![link] = @ \cup {t}]
      /\ inbox' = Append(inbox, t)
      /\ UNCHANGED <<loop, link, up, taken, goroutines, answers>>
  BY DEF Client!SendJob, Client!jobVars
<1>2. inbox = <<>> /\ taken = {} /\ Serving = {}
  BY <1>0, <1>1 DEF InOnePlace, Due
<1>3. ClientTypes'
  BY <1>0, <1>1 DEF ClientTypes
<1>4. t \in Due' /\ \A l \in Client!Links : received[l] \subseteq received'[l]
      /\ (l # link => received'[l] = received[l])
  BY <1>0, <1>1 DEF ClientTypes, Due
<1>5. InOnePlace'
  BY <1>0, <1>1, <1>2, <1>4 DEF InOnePlace, Serving
<1>6. AnswersAsAsked'
  BY <1>1, <1>4 DEF ClientInv, AnswersAsAsked, Client!AnswersAsAsked
<1>7. \A l \in Client!Links : l > link' => received'[l] = {} /\ answers'[l] = <<>>
  BY <1>0, <1>1, <1>4 DEF ClientInv, ClientTypes, Client!Links
<1> QED BY <1>0, <1>1, <1>2, <1>3, <1>5, <1>6, <1>7 DEF ClientInv, Client!Links

LEMMA DialClient == ClientInv /\ Client!Dial => ClientInv'
<1> SUFFICES ASSUME ClientInv, Client!Dial PROVE ClientInv'
  OBVIOUS
<1>0. ClientTypes /\ taken = {}
  BY DEF ClientInv, Client!Dial
<1>1. /\ link < MaxLinks /\ link' = link + 1 /\ up' = TRUE /\ inbox' = <<>> /\ loop' = "read"
      /\ UNCHANGED <<taken, goroutines, received, answers>>
  BY DEF Client!Dial, Client!jobVars, Client!wireLog
<1>2. ClientTypes'
  BY <1>0, <1>1 DEF ClientTypes
<1>3. Serving' = {}
  BY <1>0, <1>1 DEF ClientTypes, Serving
<1>4. InOnePlace'
  BY <1>0, <1>1, <1>3 DEF InOnePlace
<1>5. AnswersAsAsked'
  BY <1>1 DEF ClientInv, AnswersAsAsked, Client!AnswersAsAsked
<1>6. \A l \in Client!Links : l > link' => received'[l] = {} /\ answers'[l] = <<>>
  BY <1>0, <1>1 DEF ClientInv, ClientTypes, Client!Links
<1> QED BY <1>0, <1>1, <1>2, <1>4, <1>5, <1>6 DEF ClientInv, ClientTypes

LEMMA ReadJobClient == ClientInv /\ Client!ReadJob => ClientInv'
<1> SUFFICES ASSUME ClientInv, Client!ReadJob PROVE ClientInv'
  OBVIOUS
<1>1. /\ inbox # <<>> /\ taken' = {Head(inbox)} /\ inbox' = Tail(inbox) /\ loop' = "acquire"
      /\ UNCHANGED <<link, up, goroutines, received, answers>>
  BY DEF Client!ReadJob, Client!wireLog
<1>0. ClientTypes /\ InOnePlace /\ link # 0
  BY <1>1 DEF ClientInv
<1>2. Head(inbox) \in Tasks /\ Tail(inbox) = <<>> /\ Head(inbox) \in Due /\ Serving = {}
  BY <1>0, <1>1 DEF InOnePlace, ClientTypes
<1>3. ClientTypes'
  BY <1>0, <1>1, <1>2 DEF ClientTypes
<1>4. InOnePlace'
  <2>1. Due' = Due /\ Serving' = Serving /\ inbox' = <<>>
    BY <1>1, <1>2 DEF Due, Serving
  <2>2. \E t \in Due' : taken' = {t}
    BY <1>1, <1>2, <2>1
  <2> QED BY <1>2, <2>1, <2>2 DEF InOnePlace
<1>5. AnswersAsAsked'
  BY <1>1 DEF ClientInv, AnswersAsAsked, Client!AnswersAsAsked
<1> QED BY <1>0, <1>1, <1>3, <1>4, <1>5 DEF ClientInv

LEMMA StartJobClient == ClientInv /\ Client!StartJob => ClientInv'
<1> SUFFICES ASSUME ClientInv, Client!StartJob PROVE ClientInv'
  OBVIOUS
<1>1. /\ goroutines' = goroutines
            \cup {[task |-> t, link |-> link, at |-> "executing"] : t \in taken}
      /\ taken' = {} /\ loop' = "read"
      /\ UNCHANGED <<link, up, inbox, received, answers>>
  BY DEF Client!StartJob, Client!linkVars, Client!wireLog
<1>0. ClientTypes
  BY DEF ClientInv
<1>2. CASE taken = {}
  <2>1. goroutines' = goroutines
    BY <1>1, <1>2
  <2>2. ClientTypes'
    BY <1>0, <1>1, <2>1 DEF ClientTypes
  <2> QED BY <1>1, <1>2, <2>1, <2>2, ClientKept
<1>3. CASE taken # {}
  <2>0. InOnePlace /\ link # 0
    BY <1>3 DEF ClientInv
  <2>1. PICK t \in Due : taken = {t}
    BY <1>3, <2>0 DEF InOnePlace
  <2> DEFINE new == [task |-> t, link |-> link, at |-> "executing"]
  <2>2. new \in [task : Tasks, link : 1..link, at : {"executing", "writing"}]
        /\ new.link = link /\ new.task = t
    BY <1>0, <2>0, <2>1 DEF ClientTypes
  <2>3. goroutines' = goroutines \cup {new}
    BY <1>1, <2>1
  <2> HIDE DEF new
  <2>4. inbox = <<>> /\ Serving = {}
    BY <1>3, <2>0 DEF InOnePlace
  <2>5. Serving' = {new} /\ Due' = Due
    BY <1>1, <2>2, <2>3, <2>4 DEF Serving, Due
  <2>6. InOnePlace'
    BY <1>1, <2>1, <2>2, <2>4, <2>5 DEF InOnePlace
  <2>7. ClientTypes'
    BY <1>0, <1>1, <2>2, <2>3 DEF ClientTypes
  <2>8. AnswersAsAsked'
    BY <1>1 DEF ClientInv, AnswersAsAsked, Client!AnswersAsAsked
  <2> QED BY <1>1, <2>0, <2>6, <2>7, <2>8 DEF ClientInv
<1> QED BY <1>2, <1>3

LEMMA PanicClient == ClientInv /\ Client!Panic => ClientInv'
<1> SUFFICES ASSUME ClientInv, Client!Panic PROVE ClientInv'
  OBVIOUS
<1>1. loop' = "panicked" /\ goroutines' = {}
      /\ UNCHANGED <<link, up, inbox, taken, received, answers>>
  BY DEF Client!Panic, Client!linkVars, Client!wireLog
<1>2. ClientTypes'
  BY <1>1 DEF ClientInv, ClientTypes
<1> QED BY <1>1, <1>2, ClientKept

LEMMA SendResultClient == ASSUME NEW g PROVE ClientInv /\ Client!SendResult(g) => ClientInv'
<1> SUFFICES ASSUME ClientInv, Client!SendResult(g), ~Client!Panic PROVE ClientInv'
  BY PanicClient
<1>0. ClientTypes
  BY DEF ClientInv
<1> DEFINE new == [g EXCEPT !.at = "writing"]
<1>1. /\ g \in goroutines /\ goroutines' = (goroutines \ {g}) \cup {new}
      /\ UNCHANGED <<loop, link, up, inbox, taken, received, answers>>
  BY DEF Client!SendResult, Client!linkVars, Client!wireLog
<1>2. new \in [task : Tasks, link : 1..link, at : {"executing", "writing"}]
      /\ new.link = g.link /\ new.task = g.task
  BY <1>0, <1>1 DEF ClientTypes
<1> HIDE DEF new
<1>3. ClientTypes'
  BY <1>0, <1>1, <1>2 DEF ClientTypes
<1>4. AnswersAsAsked'
  BY <1>1 DEF ClientInv, AnswersAsAsked, Client!AnswersAsAsked
<1>5. Due' = Due
  BY <1>1 DEF Due
<1>6. IF link = 0 THEN inbox' = <<>> /\ taken' = {} ELSE InOnePlace'
  <2>1. CASE link = 0
    BY <1>1, <2>1 DEF ClientInv
  <2>2. CASE link # 0
    <3>1. InOnePlace
      BY <2>2 DEF ClientInv
    <3>2. CASE g.link = link
      <4>1. Serving = {g} /\ g.task \in Due
        BY <1>1, <3>1, <3>2 DEF InOnePlace, Serving
      <4>2. Serving' = {new}
        BY <1>1, <1>2, <3>2, <4>1 DEF Serving
      <4>3. inbox = <<>> /\ taken = {}
        BY <3>1, <4>1 DEF InOnePlace
      <4>4. InOnePlace'
        BY <1>1, <1>2, <1>5, <4>1, <4>2, <4>3 DEF InOnePlace
      <4> QED BY <2>2, <4>4
    <3>3. CASE g.link # link
      <4>1. Serving' = Serving
        BY <1>1, <1>2, <3>3 DEF Serving
      <4>2. InOnePlace'
        BY <1>1, <1>5, <3>1, <4>1 DEF InOnePlace
      <4> QED BY <2>2, <4>2
    <3> QED BY <3>2, <3>3
  <2> QED BY <2>1, <2>2
<1> QED BY <1>1, <1>3, <1>4, <1>6 DEF ClientInv

LEMMA FinishClient == ASSUME NEW g PROVE ClientInv /\ Client!Finish(g) => ClientInv'
<1> SUFFICES ASSUME ClientInv, Client!Finish(g) PROVE ClientInv'
  OBVIOUS
<1>0. ClientTypes
  BY DEF ClientInv
<1>1. /\ g \in goroutines /\ goroutines' = goroutines \ {g}
      /\ UNCHANGED <<loop, link, up, inbox, taken, received>>
  BY DEF Client!Finish, Client!linkVars
<1>2. CASE answers' = answers
  <2>1. ClientTypes'
    BY <1>0, <1>1, <1>2 DEF ClientTypes
  <2> QED BY <1>1, <1>2, <2>1, ClientKept DEF ClientInv
<1>3. CASE g.link = link /\ up /\ answers' = [answers EXCEPT ![link] = Append(@, g.task)]
  <2>0. InOnePlace /\ link \in Client!Links
    BY <1>0, <1>3 DEF ClientInv, ClientTypes, Client!Links
  <2>1. g.task \in Due /\ Serving = {g} /\ g.task \in Tasks
    BY <1>0, <1>1, <1>3, <2>0 DEF InOnePlace, Serving, ClientTypes
  <2>2. Serving' = {} /\ inbox = <<>> /\ taken = {}
    BY <1>1, <2>0, <2>1 DEF Serving, InOnePlace
  <2>3. InOnePlace'
    BY <1>1, <2>2 DEF InOnePlace
  <2>4. answers[link] \in Seq(Tasks) /\ answers'[link] = Append(answers[link], g.task)
        /\ \A l \in Client!Links : l # link => answers'[l] = answers[l]
    BY <1>0, <1>3, <2>0 DEF ClientTypes
  <2>5. ClientTypes'
    BY <1>0, <1>1, <1>3, <2>0, <2>1, <2>4 DEF ClientTypes
  <2>6. g.task \in received[link] /\ \A i \in DOMAIN answers[link] : answers[link][i] # g.task
    BY <2>1 DEF Due, Client!ToSet
  <2>7. ASSUME NEW l \in Client!Links
        PROVE  Client!IsInjective(answers'[l]) /\ Client!ToSet(answers'[l]) \subseteq received'[l]
    <3>1. Client!IsInjective(answers[l]) /\ Client!ToSet(answers[l]) \subseteq received[l]
      BY DEF ClientInv, AnswersAsAsked, Client!AnswersAsAsked
    <3>2. CASE l # link
      BY <1>1, <2>4, <3>1, <3>2
    <3>3. CASE l = link
      <4> DEFINE s == answers[link]
      <4>1. /\ s \in Seq(Tasks) /\ Client!IsInjective(s) /\ Client!ToSet(s) \subseteq received[link]
            /\ \A i \in DOMAIN s : s[i] # g.task
        BY <2>4, <2>6, <3>1, <3>3
      <4> HIDE DEF s
      <4>2. Client!IsInjective(Append(s, g.task))
        BY <2>1, <4>1 DEF Client!IsInjective
      <4>3. Client!ToSet(Append(s, g.task)) \subseteq received[link]
        BY <2>1, <2>6, <4>1 DEF Client!ToSet
      <4> QED BY <1>1, <2>4, <3>3, <4>2, <4>3 DEF s
    <3> QED BY <3>2, <3>3
  <2>8. AnswersAsAsked'
    BY <2>7 DEF AnswersAsAsked, Client!AnswersAsAsked
  <2>9. \A l \in Client!Links : l > link' => received'[l] = {} /\ answers'[l] = <<>>
    <3>1. \A l \in Client!Links : l > link => received[l] = {} /\ answers[l] = <<>> /\ l # link
      BY <1>0 DEF ClientInv, ClientTypes, Client!Links
    <3> QED BY <1>1, <2>4, <3>1
  <2> QED BY <1>1, <2>0, <2>2, <2>3, <2>5, <2>8, <2>9 DEF ClientInv, Client!Links
<1> QED BY <1>2, <1>3 DEF Client!Finish

LEMMA ClientInvariance == Spec => []ClientInv
<1>1. Init => ClientInv
  <2> SUFFICES ASSUME Init PROVE ClientInv
    OBVIOUS
  <2>1. /\ loop = "dial" /\ link = 0 /\ up = FALSE /\ inbox = <<>> /\ taken = {} /\ goroutines = {}
        /\ received = [l \in Client!Links |-> {}] /\ answers = [l \in Client!Links |-> <<>>]
    BY DEF Init, Client!Init
  <2>2. MaxLinks \in Nat
    BY ConstantsAssumption DEF Client!ConstantsOK
  <2>3. ClientTypes
    <3>1. received \in [Client!Links -> SUBSET Tasks] /\ answers \in [Client!Links -> Seq(Tasks)]
      BY <2>1
    <3>2. link \in 0..MaxLinks /\ inbox \in Seq(Tasks)
      BY <2>1, <2>2
    <3> QED BY <2>1, <2>2, <3>1, <3>2 DEF ClientTypes
  <2>4. AnswersAsAsked
    BY <2>1 DEF AnswersAsAsked, Client!AnswersAsAsked, Client!IsInjective, Client!ToSet
  <2> QED BY <2>1, <2>3, <2>4 DEF ClientInv
<1>2. ClientInv /\ [Next]_vars => ClientInv'
  <2> SUFFICES ASSUME ClientInv, Client!Next \/ UNCHANGED clientVars PROVE ClientInv'
    BY StepOfOthers
  <2>0. ClientTypes
    BY DEF ClientInv
  <2>1. CASE UNCHANGED clientVars
    BY <2>1 DEF ClientInv, ClientTypes, InOnePlace, Due, Serving, AnswersAsAsked,
                Client!AnswersAsAsked, clientVars
  <2>2. ASSUME UNCHANGED <<link, taken, received, answers>>, goroutines' \in {goroutines, {}},
               inbox' = inbox \/ inbox' = <<>>, up' = up \/ up' = FALSE,
               loop' \in {loop, "returned", "sleep", "dial"}, loop' # loop => loop \in {"dial", "sleep", "read"}
        PROVE  ClientInv'
    <3>1. ClientTypes'
      <4>1. loop' \in {"dial", "read", "acquire", "sleep", "returned", "panicked"}
        BY <2>0, <2>2 DEF ClientTypes
      <4>2. inbox' \in Seq(Tasks)
        <5>1. inbox \in Seq(Tasks) /\ <<>> \in Seq(Tasks)
          BY <2>0 DEF ClientTypes
        <5> QED BY <2>2, <5>1
      <4>3. up' \in BOOLEAN /\ (up' => link' > 0) /\ link' \in 0..MaxLinks
        <5>1. up \in BOOLEAN /\ (up => link > 0) /\ link \in 0..MaxLinks /\ link' = link
          BY <2>0, <2>2 DEF ClientTypes
        <5>2. CASE up' = up
          BY <5>1, <5>2
        <5>3. CASE up' = FALSE
          BY <5>1, <5>3
        <5> QED BY <2>2, <5>2, <5>3
      <4>4. goroutines' \subseteq [task : Tasks, link : 1..link', at : {"executing", "writing"}]
        BY <2>0, <2>2 DEF ClientTypes
      <4> QED BY <2>0, <2>2, <4>1, <4>2, <4>3, <4>4 DEF ClientTypes
    <3> QED BY <2>2, <3>1, ClientKept DEF ClientInv
  <2> USE DEF Client!linkVars, Client!jobVars, Client!pingVars, Client!wireLog
  <2>3. CASE Client!Drop
    BY <2>2, <2>3 DEF Client!Drop
  <2>4. CASE Client!Stop
    BY <2>2, <2>4 DEF Client!Stop
  <2>5. CASE Client!Return
    BY <2>2, <2>5 DEF Client!Return
  <2>6. CASE Client!DialFails
    BY <2>2, <2>6 DEF Client!DialFails
  <2>7. CASE Client!WakeUp
    BY <2>2, <2>7 DEF Client!WakeUp
  <2>8. CASE Client!ReadFails
    BY <2>2, <2>8 DEF Client!ReadFails
  <2>9. CASE Client!Ping
    BY <2>2, <2>9, PanicClient DEF Client!Ping
  <2>10. CASE Client!PingEnds
    BY <2>2, <2>10 DEF Client!PingEnds
  <2> QED BY <2>1, <2>3, <2>4, <2>5, <2>6, <2>7, <2>8, <2>9, <2>10, SendJobClient, DialClient,
             ReadJobClient, StartJobClient, SendResultClient, FinishClient
          DEF Client!Next, Client!LoopStep, Client!Handler, Client!Goroutine
<1> QED BY <1>1, <1>2, PTL DEF Spec

(* examples/goworker: over each connection comes at most one answer to     *)
(* each job sent over it and none to another, for any jobs, any capacity   *)
(* of the semaphore and any number of connections, through pings, panics,  *)
(* lost results and handlers that outlive their connection.                *)
THEOREM AnswersAsAskedInServices == Spec => []AnswersAsAsked
<1>1. ClientInv => AnswersAsAsked
  BY DEF ClientInv
<1> QED BY <1>1, ClientInvariance, PTL

-----------------------------------------------------------------------------
(* The window holds every grant that still counts.                         *)
RateInv ==
    /\ now \in Nat /\ limit \in Nat
    /\ IsFiniteSet(granted)
    /\ granted \subseteq [nr : 1..Cardinality(granted), at : Nat]
    /\ window \subseteq granted /\ Rate!Recent(granted) \subseteq window

LEMMA StepOfRate == [Next]_vars => Rate!Next \/ UNCHANGED rateVars
<1>1. Next => Rate!Next \/ UNCHANGED rateVars
  BY DEF Next, Only
<1> QED BY <1>1 DEF vars

(* RateLimiter has its own copy of Cardinality.                            *)
LEMMA RateCardinality == \A S : Rate!Cardinality(S) = Cardinality(S)
  BY DEF Rate!Cardinality, Cardinality

LEMMA RateGrant ==
    ASSUME RateInv, Rate!Grant
    PROVE  RateInv' /\ Cardinality({t \in granted' : t.at > now - RateWindow}) <= limit
<1> DEFINE n == Cardinality(granted)
           stamp == [nr |-> n + 1, at |-> now]
           recent == Rate!Recent(window)
<1>1. /\ Cardinality(recent) < limit /\ window' = recent \cup {stamp}
      /\ granted' = granted \cup {stamp} /\ UNCHANGED <<now, limit>>
  BY RateCardinality DEF Rate!Grant, Rate!Stamp
<1>2. n \in Nat /\ now \in Nat /\ RateWindow \in Nat \ {0} /\ IsFiniteSet(granted)
  BY FS_CardinalityType, ConstantsAssumption DEF RateInv, Rate!ConstantsOK
<1>3. stamp \notin granted
  <2>1. ASSUME stamp \in granted PROVE stamp.nr \in 1..n
    BY <2>1 DEF RateInv
  <2> QED BY <1>2, <2>1
<1>4. IsFiniteSet(granted') /\ Cardinality(granted') = n + 1
  BY <1>1, <1>2, <1>3, FS_AddElement
<1>5. stamp \in [nr : 1..(n + 1), at : Nat] /\ stamp.at = now
  BY <1>2
<1>6. granted' \subseteq [nr : 1..Cardinality(granted'), at : Nat]
  <2>1. granted \subseteq [nr : 1..n, at : Nat]
    BY DEF RateInv
  <2>2. [nr : 1..n, at : Nat] \subseteq [nr : 1..(n + 1), at : Nat]
    BY <1>2
  <2> HIDE DEF n, stamp
  <2> QED BY <1>1, <1>4, <1>5, <2>1, <2>2
<1>7. recent = Rate!Recent(granted)
  BY DEF RateInv, Rate!Recent
<1>8. IsFiniteSet(recent) /\ stamp \notin recent /\ Cardinality(recent) \in Nat
  <2>1. recent \subseteq granted
    BY DEF RateInv, Rate!Recent
  <2> QED BY <1>2, <1>3, <2>1, FS_Subset, FS_CardinalityType
<1>9. {t \in granted' : t.at > now - RateWindow} = recent \cup {stamp}
  <2> HIDE DEF stamp, recent
  <2>1. stamp.at > now - RateWindow
    BY <1>2, <1>5
  <2> QED BY <1>1, <1>7, <2>1 DEF Rate!Recent
<1>10. Cardinality(recent \cup {stamp}) = Cardinality(recent) + 1
  BY <1>8, FS_AddElement
<1>11. window' \subseteq granted' /\ Rate!Recent(granted)' \subseteq window'
  <2>1. Rate!Recent(granted)' = {t \in granted' : t.at > now - RateWindow}
    BY <1>1 DEF Rate!Recent
  <2>2. recent \subseteq granted
    BY DEF RateInv, Rate!Recent
  <2> QED BY <1>1, <1>9, <2>1, <2>2
<1>12. limit \in Nat /\ Cardinality(recent) + 1 <= limit
  BY <1>1, <1>8 DEF RateInv
<1> QED BY <1>1, <1>2, <1>4, <1>6, <1>9, <1>10, <1>11, <1>12 DEF RateInv

(* No job was allowed, or with it the limit is kept.                       *)
LimitKept ==
    Cardinality(granted') > Cardinality(granted) =>
        Cardinality({t \in granted' : t.at > now - RateWindow}) <= limit

LEMMA RateStep == RateInv /\ [Next]_vars => RateInv' /\ [LimitKept]_Rate!vars
<1> SUFFICES ASSUME RateInv, Rate!Next \/ UNCHANGED rateVars
             PROVE  RateInv' /\ [LimitKept]_Rate!vars
  BY StepOfRate
<1> USE DEF LimitKept
<1>0. RateLimits \subseteq Nat \ {0} /\ RateWindow \in Nat \ {0} /\ Cardinality(granted) \in Nat
  BY ConstantsAssumption, FS_CardinalityType DEF Rate!ConstantsOK, RateInv
<1>1. CASE UNCHANGED rateVars
  BY <1>1 DEF RateInv, Rate!Recent, rateVars, Rate!vars, Rate!limiterVars
<1>2. CASE Rate!Grant
  BY <1>2, RateGrant
<1>3. CASE Rate!Refuse
  <2>1. window' = Rate!Recent(window) /\ UNCHANGED <<now, limit, granted>>
    BY <1>3 DEF Rate!Refuse
  <2>2. Cardinality(granted') = Cardinality(granted)
    BY <2>1
  <2> QED BY <1>0, <2>1, <2>2 DEF RateInv, Rate!Recent
<1>4. CASE Rate!SetLimit
  <2>1. limit' \in Nat /\ UNCHANGED <<now, window, granted>>
    BY <1>0, <1>4 DEF Rate!SetLimit
  <2>2. Cardinality(granted') = Cardinality(granted)
    BY <2>1
  <2> QED BY <1>0, <2>1, <2>2 DEF RateInv, Rate!Recent
<1>5. CASE Rate!RemoveLimit
  <2>1. limit' = 0 /\ window' = {} /\ granted' = {} /\ now' = now
    BY <1>5 DEF Rate!RemoveLimit
  <2>2. IsFiniteSet(granted') /\ Cardinality(granted') = 0
    BY <2>1, FS_EmptySet
  <2> QED BY <1>0, <2>1, <2>2 DEF RateInv, Rate!Recent
<1>6. CASE Rate!Tick
  <2>1. now' = now + 1 /\ UNCHANGED <<limit, window, granted>>
    BY <1>6 DEF Rate!Tick, Rate!limiterVars
  <2>2. Cardinality(granted') = Cardinality(granted)
    BY <2>1
  <2>3. \A t \in granted : t.at \in Nat
    BY DEF RateInv
  <2> QED BY <1>0, <2>1, <2>2, <2>3 DEF RateInv, Rate!Recent
<1> QED BY <1>1, <1>2, <1>3, <1>4, <1>5, <1>6 DEF Rate!Next

LEMMA RateInvariance == Spec => []RateInv
<1>1. Init => RateInv
  BY FS_EmptySet DEF Init, Rate!Init, RateInv, Rate!Recent
<1> QED BY <1>1, RateStep, PTL DEF Spec

(* p2.go: no window of the given length sees more jobs than the limit, for *)
(* any limits, set and removed at any time, and any length of the window.  *)
THEOREM AtMostLimitInServices == Spec => AtMostLimit
<1>1. [LimitKept]_Rate!vars =>
        [Rate!Cardinality(granted') > Rate!Cardinality(granted) =>
            Rate!Cardinality({t \in granted' : t.at > now - RateWindow}) <= limit]_Rate!vars
  BY RateCardinality DEF LimitKept
<1> QED BY <1>1, RateStep, RateInvariance, PTL DEF Spec, AtMostLimit, Rate!AtMostLimit

-----------------------------------------------------------------------------
(* WebSocket framing                                                       *)

(* What Number is for the two and the eight bytes there may be: the        *)
(* recursion is unfolded with the function that it defines.                *)
LEMMA NumberOfTwo ==
    ASSUME NEW h, h[3] \in Nat, h[4] \in Nat
    PROVE  Wire!Number(h, 3, 4) = h[3] * 256 + h[4]
<1> DEFINE Unfolds(f) == f = [i \in (3 - 1)..4 |-> IF i < 3 THEN 0 ELSE f[i - 1] * 256 + h[i]]
           g == [i \in 2..4 |-> IF i = 2 THEN 0 ELSE IF i = 3 THEN h[3] ELSE h[3] * 256 + h[4]]
<1>1. Unfolds(g)
  <2>1. ASSUME NEW i \in 2..4 PROVE g[i] = IF i < 3 THEN 0 ELSE g[i - 1] * 256 + h[i]
    <3>1. i = 2 \/ i = 3 \/ i = 4
      OBVIOUS
    <3> QED BY <3>1
  <2>2. g = [i \in 2..4 |-> g[i]]
    OBVIOUS
  <2> HIDE DEF g
  <2> QED BY <2>1, <2>2
<1> HIDE DEF g
<1>2. ASSUME NEW f, Unfolds(f) PROVE f[4] = h[3] * 256 + h[4]
  <2>1. f[2] = 0 /\ f[3] = f[2] * 256 + h[3] /\ f[4] = f[3] * 256 + h[4]
    BY <1>2
  <2> QED BY <2>1
<1>3. Unfolds(CHOOSE f : Unfolds(f))
  BY <1>1
<1>4. Wire!Number(h, 3, 4) = (CHOOSE f : Unfolds(f))[4]
  BY DEF Wire!Number
<1> HIDE DEF Unfolds
<1> QED BY <1>2, <1>3, <1>4

LEMMA NumberOfEight ==
    ASSUME NEW h, h[3] \in Nat, h[4] \in Nat, h[5] \in Nat, h[6] \in Nat,
           h[7] \in Nat, h[8] \in Nat, h[9] \in Nat, h[10] \in Nat
    PROVE  Wire!Number(h, 3, 10) =
            ((((((h[3] * 256 + h[4]) * 256 + h[5]) * 256 + h[6]) * 256 + h[7]) * 256 + h[8])
                * 256 + h[9]) * 256 + h[10]
<1> DEFINE Unfolds(f) == f = [i \in (3 - 1)..10 |-> IF i < 3 THEN 0 ELSE f[i - 1] * 256 + h[i]]
           p4 == h[3] * 256 + h[4]
           p5 == p4 * 256 + h[5]
           p6 == p5 * 256 + h[6]
           p7 == p6 * 256 + h[7]
           p8 == p7 * 256 + h[8]
           p9 == p8 * 256 + h[9]
           p10 == p9 * 256 + h[10]
           g == [i \in 2..10 |-> IF i = 2 THEN 0 ELSE IF i = 3 THEN h[3] ELSE IF i = 4 THEN p4
                                 ELSE IF i = 5 THEN p5 ELSE IF i = 6 THEN p6 ELSE IF i = 7 THEN p7
                                 ELSE IF i = 8 THEN p8 ELSE IF i = 9 THEN p9 ELSE p10]
<1>1. Unfolds(g)
  <2>1. ASSUME NEW i \in 2..10 PROVE g[i] = IF i < 3 THEN 0 ELSE g[i - 1] * 256 + h[i]
    <3>1. i = 2 \/ i = 3 \/ i = 4 \/ i = 5 \/ i = 6 \/ i = 7 \/ i = 8 \/ i = 9 \/ i = 10
      OBVIOUS
    <3> HIDE DEF p4, p5, p6, p7, p8, p9, p10
    <3>2. /\ g[2] = 0 /\ g[3] = h[3] /\ g[4] = p4 /\ g[5] = p5 /\ g[6] = p6 /\ g[7] = p7
          /\ g[8] = p8 /\ g[9] = p9 /\ g[10] = p10
      OBVIOUS
    <3> HIDE DEF g
    <3>3. /\ g[3] = g[2] * 256 + h[3] /\ g[4] = g[3] * 256 + h[4] /\ g[5] = g[4] * 256 + h[5]
          /\ g[6] = g[5] * 256 + h[6] /\ g[7] = g[6] * 256 + h[7] /\ g[8] = g[7] * 256 + h[8]
          /\ g[9] = g[8] * 256 + h[9] /\ g[10] = g[9] * 256 + h[10]
      BY <3>2 DEF p4, p5, p6, p7, p8, p9, p10
    <3> QED BY <3>1, <3>2, <3>3
  <2>2. g = [i \in 2..10 |-> g[i]]
    OBVIOUS
  <2> HIDE DEF g
  <2> QED BY <2>1, <2>2
<1> HIDE DEF g
<1>2. ASSUME NEW f, Unfolds(f) PROVE f[10] = p10
  <2>1. /\ f[2] = 0 /\ f[3] = f[2] * 256 + h[3] /\ f[4] = f[3] * 256 + h[4]
        /\ f[5] = f[4] * 256 + h[5] /\ f[6] = f[5] * 256 + h[6] /\ f[7] = f[6] * 256 + h[7]
        /\ f[8] = f[7] * 256 + h[8] /\ f[9] = f[8] * 256 + h[9] /\ f[10] = f[9] * 256 + h[10]
    BY <1>2
  <2> QED BY <2>1
<1>3. Unfolds(CHOOSE f : Unfolds(f))
  BY <1>1
<1>4. Wire!Number(h, 3, 10) = (CHOOSE f : Unfolds(f))[10]
  BY DEF Wire!Number
<1> HIDE DEF Unfolds, p10
<1>5. Wire!Number(h, 3, 10) = p10
  BY <1>2, <1>3, <1>4
<1> QED BY <1>5 DEF p10

(* The bytes of a length below 2^32, and below 2^16, make it up again.     *)
MadeUp(n) ==
    /\ Wire!Low(n, 0) \in Nat /\ Wire!Low(n, 1) \in Nat
    /\ Wire!Low(n, 2) \in Nat /\ Wire!Low(n, 3) \in Nat
    /\ n < 65536 => n = Wire!Low(n, 1) * 256 + Wire!Low(n, 0)
    /\ n = ((Wire!Low(n, 3) * 256 + Wire!Low(n, 2)) * 256 + Wire!Low(n, 1)) * 256 + Wire!Low(n, 0)

LEMMA BytesOfLength == ASSUME NEW n \in Nat, n \div 256^3 < 256 PROVE MadeUp(n)
<1>0. PICK b0, b1, b2, b3 :
            b0 = Wire!Low(n, 0) /\ b1 = Wire!Low(n, 1) /\ b2 = Wire!Low(n, 2) /\ b3 = Wire!Low(n, 3)
  OBVIOUS
<1>1. 256^0 = 1 /\ 256^1 = 256 /\ 256^2 = 65536 /\ 256^3 = 16777216
  OBVIOUS
<1>2. /\ b0 = (n \div 256^0) % 256 /\ b1 = (n \div 256^1) % 256
      /\ b2 = (n \div 256^2) % 256 /\ b3 = (n \div 256^3) % 256
  BY <1>0 DEF Wire!Low
<1>3. /\ b0 = (n \div 1) % 256 /\ b1 = (n \div 256) % 256
      /\ b2 = (n \div 65536) % 256 /\ b3 = (n \div 16777216) % 256
  BY <1>1, <1>2
<1>4. n \div 16777216 < 256
  BY <1>1
<1>5. PICK q1 \in Nat, q2 \in Nat, q3 \in Nat :
            q1 = n \div 256 /\ q2 = n \div 65536 /\ q3 = n \div 16777216
  OBVIOUS
<1>6. n = 256 * q1 + b0 /\ b0 \in Nat
  BY <1>3, <1>5
<1>7. q1 = 256 * q2 + b1 /\ b1 \in Nat
  BY <1>3, <1>5
<1>8. q2 = 256 * q3 + b2 /\ b2 \in Nat
  BY <1>3, <1>5
<1>9. q3 = b3 /\ b3 \in Nat
  BY <1>3, <1>4, <1>5
<1>10. n < 65536 => q2 = 0 /\ q3 = 0
  BY <1>5
<1>11. /\ n < 65536 => n = b1 * 256 + b0
       /\ n = ((b3 * 256 + b2) * 256 + b1) * 256 + b0
  BY <1>6, <1>7, <1>8, <1>9, <1>10
<1> QED BY <1>0, <1>6, <1>7, <1>8, <1>9, <1>11 DEF MadeUp

LEMMA PaddedBytes ==
    ASSUME NEW h, NEW n
    PROVE  \A i \in 1..10 : Wire!Padded(h, n)[i] = IF i <= n /\ i <= Len(h) THEN h[i] ELSE 0
  BY DEF Wire!Padded

LEMMA ReadLengthShort ==
    ASSUME NEW p, p[2] \in Nat, p[2] % 128 # 126, p[2] % 128 # 127
    PROVE  Wire!ReadLength(p) = p[2] % 128
  BY DEF Wire!ReadLength

(* The header of a client's frame, taken apart by ReadMessage              *)
LEMMA HeaderIsRead ==
    ASSUME NEW f \in Wire!Frame, f.length \in Nat, f.length \div 256^3 < 256
    PROVE  /\ Wire!ClientHeader(f)[1] % 16 = f.opcode
           /\ Wire!ReadLength(Wire!Padded(Wire!ClientHeader(f), 10)) = f.length
<1>1. PICK n : n = f.length
  OBVIOUS
<1>2. PICK h : h = Wire!ClientHeader(f)
  OBVIOUS
<1>3. PICK p : p = Wire!Padded(h, 10)
  OBVIOUS
<1>4. PICK b0, b1, b2, b3 :
            b0 = Wire!Low(n, 0) /\ b1 = Wire!Low(n, 1) /\ b2 = Wire!Low(n, 2) /\ b3 = Wire!Low(n, 3)
  OBVIOUS
<1>5. /\ n \in Nat /\ b0 \in Nat /\ b1 \in Nat /\ b2 \in Nat /\ b3 \in Nat
      /\ n < 65536 => n = b1 * 256 + b0
      /\ n = ((b3 * 256 + b2) * 256 + b1) * 256 + b0
  <2>1. n \in Nat /\ n \div 256^3 < 256
    BY <1>1
  <2>2. MadeUp(n)
    BY <2>1, BytesOfLength
  <2> QED BY <1>4, <2>1, <2>2 DEF MadeUp
<1>6. /\ n < 126 => h = <<128 + f.opcode, 128 + n>>
      /\ n >= 126 /\ n < 65536 => h = <<128 + f.opcode, 254, b1, b0>>
      /\ n >= 65536 => h = <<128 + f.opcode, 255, 0, 0, 0, 0, b3, b2, b1, b0>>
  BY <1>1, <1>2, <1>4, <1>5 DEF Wire!ClientHeader
<1>7. \A i \in 1..10 : p[i] = IF i <= 10 /\ i <= Len(h) THEN h[i] ELSE 0
  BY <1>3, PaddedBytes
<1>8. h[1] = 128 + f.opcode
  BY <1>5, <1>6
<1>9. h[1] % 16 = f.opcode
  BY <1>8 DEF Wire!Frame, Wire!Text, Wire!Close, Wire!Ping, Wire!Pong
<1>10. CASE n < 126
  <2>1. h = <<128 + f.opcode, 128 + n>>
    BY <1>6, <1>10
  <2>2. p[2] = 128 + n
    BY <1>5, <1>7, <2>1
  <2>3. p[2] \in Nat /\ p[2] % 128 = n /\ n # 126 /\ n # 127
    BY <1>5, <1>10, <2>2
  <2> QED BY <1>1, <1>2, <1>3, <1>9, <2>3, ReadLengthShort
<1>11. CASE n >= 126 /\ n < 65536
  <2>1. h = <<128 + f.opcode, 254, b1, b0>>
    BY <1>6, <1>11
  <2>2. p[2] = 254 /\ p[3] = b1 /\ p[4] = b0
    BY <1>5, <1>7, <2>1
  <2>3. p[2] % 128 = 126 /\ p[3] \in Nat /\ p[4] \in Nat
    BY <1>5, <2>2
  <2>4. Wire!ReadLength(p) = Wire!Number(p, 3, 4)
    BY <2>3 DEF Wire!ReadLength
  <2>5. Wire!Number(p, 3, 4) = p[3] * 256 + p[4]
    BY <2>3, NumberOfTwo
  <2>6. Wire!ReadLength(p) = n
    BY <1>5, <1>11, <2>2, <2>4, <2>5
  <2> QED BY <1>1, <1>2, <1>3, <1>9, <2>6
<1>12. CASE n >= 65536
  <2>1. h = <<128 + f.opcode, 255, 0, 0, 0, 0, b3, b2, b1, b0>>
    BY <1>6, <1>12
  <2>2. /\ p[2] = 255 /\ p[3] = 0 /\ p[4] = 0 /\ p[5] = 0 /\ p[6] = 0
        /\ p[7] = b3 /\ p[8] = b2 /\ p[9] = b1 /\ p[10] = b0
    BY <1>5, <1>7, <2>1
  <2>3. /\ p[2] % 128 = 127 /\ p[3] \in Nat /\ p[4] \in Nat /\ p[5] \in Nat /\ p[6] \in Nat
        /\ p[7] \in Nat /\ p[8] \in Nat /\ p[9] \in Nat /\ p[10] \in Nat
    BY <1>5, <2>2
  <2>4. Wire!ReadLength(p) = Wire!Number(p, 3, 10)
    BY <2>3 DEF Wire!ReadLength
  <2>5. Wire!Number(p, 3, 10) =
            ((((((p[3] * 256 + p[4]) * 256 + p[5]) * 256 + p[6]) * 256 + p[7]) * 256 + p[8])
                * 256 + p[9]) * 256 + p[10]
    BY <2>3, NumberOfEight
  <2>6. Wire!ReadLength(p) = n
    BY <1>5, <2>2, <2>4, <2>5
  <2> QED BY <1>1, <1>2, <1>3, <1>9, <2>6
<1> QED BY <1>5, <1>10, <1>11, <1>12

(* A client takes from the header of a pong its opcode and its length.     *)
LEMMA PongIsRead ==
    ASSUME NEW n \in Nat, n \div 256^3 < 256
    PROVE  Wire!ClientReads(Wire!WriteHeader(Wire!Pong, n)) = [opcode |-> Wire!Pong, length |-> n]
<1>1. PICK h : h = Wire!WriteHeader(Wire!Pong, n)
  OBVIOUS
<1>2. PICK b0, b1, b2, b3 :
            b0 = Wire!Low(n, 0) /\ b1 = Wire!Low(n, 1) /\ b2 = Wire!Low(n, 2) /\ b3 = Wire!Low(n, 3)
  OBVIOUS
<1>3. /\ b0 \in Nat /\ b1 \in Nat /\ b2 \in Nat /\ b3 \in Nat
      /\ n < 65536 => n = b1 * 256 + b0
      /\ n = ((b3 * 256 + b2) * 256 + b1) * 256 + b0
  <2>1. MadeUp(n)
    BY BytesOfLength
  <2> QED BY <1>2, <2>1 DEF MadeUp
<1>4. /\ n <= 125 => h = <<138, n>>
      /\ n > 125 /\ n <= 65535 => h = <<138, 126, b1, b0>>
      /\ n > 65535 => h = <<138, 127, 0, 0, 0, 0, b3, b2, b1, b0>>
  BY <1>1, <1>2 DEF Wire!WriteHeader, Wire!Pong
<1>5. 138 % 128 = 10 /\ Wire!Pong = 10
  BY DEF Wire!Pong
<1>6. CASE n <= 125
  <2>1. h = <<138, n>>
    BY <1>4, <1>6
  <2>2. h[1] = 138 /\ h[2] = n /\ Len(h) = 2
    BY <2>1
  <2> QED BY <1>1, <1>5, <1>6, <2>2 DEF Wire!ClientReads
<1>7. CASE n > 125 /\ n <= 65535
  <2>1. h = <<138, 126, b1, b0>>
    BY <1>4, <1>7
  <2>2. h[1] = 138 /\ h[2] = 126 /\ Len(h) = 4 /\ h[3] = b1 /\ h[4] = b0
    BY <2>1
  <2>3. Wire!ClientReads(h) = [opcode |-> 10, length |-> Wire!Number(h, 3, 4)]
    BY <1>5, <2>2 DEF Wire!ClientReads
  <2>4. Wire!Number(h, 3, 4) = h[3] * 256 + h[4]
    BY <1>3, <2>2, NumberOfTwo
  <2>5. Wire!Number(h, 3, 4) = n
    BY <1>3, <1>7, <2>2, <2>4
  <2> QED BY <1>1, <1>5, <2>3, <2>5
<1>8. CASE n > 65535
  <2>1. h = <<138, 127, 0, 0, 0, 0, b3, b2, b1, b0>>
    BY <1>4, <1>8
  <2>2. /\ h[1] = 138 /\ h[2] = 127 /\ Len(h) = 10 /\ h[3] = 0 /\ h[4] = 0 /\ h[5] = 0
        /\ h[6] = 0 /\ h[7] = b3 /\ h[8] = b2 /\ h[9] = b1 /\ h[10] = b0
    BY <2>1
  <2>3. Wire!ClientReads(h) = [opcode |-> 10, length |-> Wire!Number(h, 3, 10)]
    BY <1>5, <2>2 DEF Wire!ClientReads
  <2>4. Wire!Number(h, 3, 10) =
            ((((((h[3] * 256 + h[4]) * 256 + h[5]) * 256 + h[6]) * 256 + h[7]) * 256 + h[8])
                * 256 + h[9]) * 256 + h[10]
    BY <1>3, <2>2, NumberOfEight
  <2>5. Wire!Number(h, 3, 10) = n
    BY <1>3, <2>2, <2>4
  <2> QED BY <1>1, <1>5, <2>3, <2>5
<1> QED BY <1>6, <1>7, <1>8

(* Sequences whose elements need no type; t is s and one element more.     *)
IsSeq(s) == \E S : s \in Seq(S)

Extends(t, s, e) ==
    /\ IsSeq(t) /\ Len(s) \in Nat /\ Len(t) = Len(s) + 1
    /\ DOMAIN t = 1..(Len(s) + 1) /\ DOMAIN s = 1..Len(s)
    /\ t[Len(s) + 1] = e
    /\ \A i \in 1..Len(s) : t[i] = s[i]

LEMMA AppendExtends == ASSUME NEW s, IsSeq(s), NEW e PROVE Extends(Append(s, e), s, e)
<1>1. PICK S : s \in Seq(S)
  BY DEF IsSeq
<1>2. PICK T : T = S \cup {e}
  OBVIOUS
<1>3. \A i \in 1..Len(s) : s[i] \in S
  BY <1>1
<1>4. s \in Seq(T)
  <2>1. Len(s) \in Nat /\ s = [i \in 1..Len(s) |-> s[i]] /\ \A i \in 1..Len(s) : s[i] \in T
    BY <1>1, <1>2, <1>3
  <2> QED BY <2>1
<1>5. e \in T
  BY <1>2
<1>6. /\ Append(s, e) \in Seq(T) /\ Len(Append(s, e)) = Len(s) + 1 /\ Len(s) \in Nat
      /\ DOMAIN Append(s, e) = 1..(Len(s) + 1) /\ DOMAIN s = 1..Len(s)
  BY <1>4, <1>5
<1>7. Append(s, e)[Len(s) + 1] = e /\ \A i \in 1..Len(s) : Append(s, e)[i] = s[i]
  BY <1>4, <1>5
<1> QED BY <1>6, <1>7 DEF Extends, IsSeq

(* A sequence is its head followed by its tail.                            *)
Follows(t, s) ==
    /\ IsSeq(t) /\ Len(s) \in Nat \ {0} /\ Len(t) = Len(s) - 1
    /\ \A i \in 1..Len(t) : t[i] = s[i + 1]

LEMMA TailFollows ==
    ASSUME NEW s, IsSeq(s), s # <<>> PROVE Follows(Tail(s), s) /\ Head(s) = s[1]
<1>1. PICK S : s \in Seq(S)
  BY DEF IsSeq
<1>2. /\ Tail(s) \in Seq(S) /\ Len(s) \in Nat \ {0} /\ Len(Tail(s)) = Len(s) - 1
      /\ Head(s) = s[1]
  BY <1>1
<1>3. \A i \in 1..Len(Tail(s)) : Tail(s)[i] = s[i + 1]
  BY <1>1
<1> QED BY <1>2, <1>3 DEF Follows, IsSeq

(* Of the first i frames of s, those with an opcode                        *)
Among(s, i, op) == Cardinality({j \in 1..i : s[j].opcode = op})

LEMMA AmongType == ASSUME NEW s, NEW op, NEW i \in Nat PROVE Among(s, i, op) \in Nat
<1>1. IsFiniteSet(1..i)
  BY FS_Interval
<1>2. IsFiniteSet({j \in 1..i : s[j].opcode = op})
  BY <1>1, FS_Subset
<1> QED BY <1>2, FS_CardinalityType DEF Among

LEMMA AmongGrows ==
    ASSUME NEW s, NEW op, NEW i \in Nat
    PROVE  /\ s[i + 1].opcode = op => Among(s, i + 1, op) = Among(s, i, op) + 1
           /\ s[i + 1].opcode # op => Among(s, i + 1, op) = Among(s, i, op)
<1>1. PICK A : A = {j \in 1..i : s[j].opcode = op}
  OBVIOUS
<1>2. IsFiniteSet(A) /\ i + 1 \notin A
  <2>1. IsFiniteSet(1..i)
    BY FS_Interval
  <2>2. A \subseteq 1..i
    BY <1>1
  <2>3. IsFiniteSet(A)
    BY <2>1, <2>2, FS_Subset
  <2> QED BY <2>2, <2>3
<1>3. ASSUME s[i + 1].opcode = op PROVE Among(s, i + 1, op) = Among(s, i, op) + 1
  <2>1. {j \in 1..(i + 1) : s[j].opcode = op} = A \cup {i + 1}
    BY <1>1, <1>3
  <2>2. Cardinality(A \cup {i + 1}) = Cardinality(A) + 1
    BY <1>2, FS_AddElement
  <2> QED BY <1>1, <2>1, <2>2 DEF Among
<1>4. ASSUME s[i + 1].opcode # op PROVE Among(s, i + 1, op) = Among(s, i, op)
  <2>1. {j \in 1..(i + 1) : s[j].opcode = op} = {j \in 1..i : s[j].opcode = op}
    BY <1>4
  <2> QED BY <2>1 DEF Among
<1> QED BY <1>3, <1>4

LEMMA AmongWithin ==
    ASSUME NEW s, NEW op, NEW w \in Nat, NEW i \in 1..w, s[i].opcode = op
    PROVE  Among(s, i, op) \in 1..Among(s, w, op)
<1>1. PICK A : A = {j \in 1..i : s[j].opcode = op}
  OBVIOUS
<1>2. PICK B : B = {j \in 1..w : s[j].opcode = op}
  OBVIOUS
<1>3. IsFiniteSet(B) /\ A \subseteq B /\ i \in A
  <2>1. IsFiniteSet(1..w)
    BY FS_Interval
  <2>2. B \subseteq 1..w
    BY <1>2
  <2>3. IsFiniteSet(B)
    BY <2>1, <2>2, FS_Subset
  <2>4. A \subseteq B /\ i \in A
    BY <1>1, <1>2
  <2> QED BY <2>3, <2>4
<1>4. IsFiniteSet(A) /\ Cardinality(A) <= Cardinality(B)
  BY <1>3, FS_Subset
<1>5. Cardinality(A) \in Nat /\ Cardinality(B) \in Nat /\ Cardinality(A) # 0
  BY <1>3, <1>4, FS_CardinalityType, FS_EmptySet
<1> QED BY <1>1, <1>2, <1>4, <1>5 DEF Among

(* The log says of each frame with the opcode what it should.              *)
EntryOf(f, as) == [opcode |-> as, length |-> f.length]

Led(s, w, op, log, as) ==
    \A i \in 1..w : s[i].opcode = op =>
        log[Among(s, i, op)] = EntryOf(s[i], as)

(* It does so when it gains an entry ...                                   *)
LEMMA LedKept ==
    ASSUME NEW s, NEW op, NEW w \in Nat, NEW log, NEW as, NEW e, NEW longer,
           Led(s, w, op, log, as), Len(log) >= Among(s, w, op), Extends(longer, log, e)
    PROVE  Led(s, w, op, longer, as)
<1> SUFFICES ASSUME NEW i \in 1..w, s[i].opcode = op
             PROVE  longer[Among(s, i, op)] = EntryOf(s[i], as)
  BY DEF Led
<1>1. Among(s, i, op) \in 1..Among(s, w, op) /\ Among(s, w, op) \in Nat
  BY AmongWithin, AmongType
<1>2. Len(log) \in Nat /\ \A k \in 1..Len(log) : longer[k] = log[k]
  BY DEF Extends
<1>3. longer[Among(s, i, op)] = log[Among(s, i, op)]
  BY <1>1, <1>2
<1> QED BY <1>3 DEF Led

(* ... with the next frame, if that has the opcode ...                     *)
OneMore(longer, log, s, w, op, as) ==
    s[w + 1].opcode = op /\ Extends(longer, log, EntryOf(s[w + 1], as))

LEMMA LedOn ==
    ASSUME NEW s, NEW op, NEW w \in Nat, NEW log, NEW as, NEW longer,
           Led(s, w, op, log, as), Len(log) = Among(s, w, op), OneMore(longer, log, s, w, op, as)
    PROVE  Led(s, w + 1, op, longer, as)
<1>1. s[w + 1].opcode = op /\ Extends(longer, log, EntryOf(s[w + 1], as))
  BY DEF OneMore
<1>2. Among(s, w, op) \in Nat /\ Among(s, w + 1, op) = Among(s, w, op) + 1
  BY <1>1, AmongType, AmongGrows
<1>3. Len(longer) = Among(s, w + 1, op)
      /\ longer[Among(s, w + 1, op)] = EntryOf(s[w + 1], as)
  BY <1>1, <1>2 DEF Extends
<1>4. Len(log) >= Among(s, w, op)
  BY <1>2
<1>5. Led(s, w, op, longer, as)
  BY <1>1, <1>4, LedKept, Zenon
<1>6. ASSUME NEW i \in 1..(w + 1), s[i].opcode = op
      PROVE  longer[Among(s, i, op)] = EntryOf(s[i], as)
  <2>1. i \in 1..w \/ i = w + 1
    OBVIOUS
  <2>2. CASE i \in 1..w
    BY <1>5, <1>6, <2>2 DEF Led
  <2> QED BY <1>3, <2>1, <2>2
<1> QED BY <1>3, <1>6 DEF Led

(* ... and does not when it has another.                                   *)
LEMMA LedPast ==
    ASSUME NEW s, NEW op, NEW w \in Nat, NEW log, NEW as,
           Led(s, w, op, log, as), Len(log) = Among(s, w, op), s[w + 1].opcode # op
    PROVE  Led(s, w + 1, op, log, as) /\ Len(log) = Among(s, w + 1, op)
<1>1. Among(s, w + 1, op) = Among(s, w, op)
  BY AmongGrows
<1>2. ASSUME NEW i \in 1..(w + 1), s[i].opcode = op
      PROVE  log[Among(s, i, op)] = EntryOf(s[i], as)
  <2>1. i \in 1..w
    BY <1>2
  <2> QED BY <1>2, <2>1 DEF Led
<1> QED BY <1>1, <1>2 DEF Led

(* Frames sent later make no difference.                                   *)
SameUpTo(s, t, w) == \A i \in 1..w : t[i] = s[i]

LEMMA AmongSame ==
    ASSUME NEW s, NEW t, NEW op, NEW w \in Nat, SameUpTo(s, t, w)
    PROVE  Among(t, w, op) = Among(s, w, op)
<1>1. {j \in 1..w : t[j].opcode = op} = {j \in 1..w : s[j].opcode = op}
  BY DEF SameUpTo
<1> QED BY <1>1 DEF Among

LEMMA LedSame ==
    ASSUME NEW s, NEW t, NEW op, NEW w \in Nat, NEW log, NEW as,
           Led(s, w, op, log, as), SameUpTo(s, t, w)
    PROVE  Led(t, w, op, log, as)
<1>1. ASSUME NEW i \in 1..w PROVE Among(t, i, op) = Among(s, i, op)
  <2>1. i \in Nat /\ SameUpTo(s, t, i)
    BY DEF SameUpTo
  <2> QED BY <2>1, AmongSame
<1>2. ASSUME NEW i \in 1..w, t[i].opcode = op
      PROVE  log[Among(t, i, op)] = EntryOf(t[i], as)
  <2>1. t[i] = s[i] /\ Among(t, i, op) = Among(s, i, op)
    BY <1>1 DEF SameUpTo
  <2> QED BY <1>2, <2>1 DEF Led
<1> QED BY <1>2 DEF Led

(* Agree, for c frames read of those in s                                  *)
WholeOf(s, c) == IF c <= Len(s) THEN c ELSE Len(s)

Answered(s, c, op, log, as) ==
    /\ Led(s, WholeOf(s, c), op, log, as)
    /\ c <= Len(s) => Len(log) = Among(s, c, op)
    /\ c > Len(s) =>
            Len(log) = Among(s, Len(s), op) \/ Len(log) = Among(s, Len(s), op) + 1

LEMMA AnsweredAfterSend ==
    ASSUME NEW s, NEW t, NEW c \in Nat, NEW e, NEW op, NEW log, NEW as,
           Extends(t, s, e), c <= Len(s), Answered(s, c, op, log, as)
    PROVE  Answered(t, c, op, log, as)
<1>1. /\ c <= Len(t) /\ WholeOf(s, c) = c /\ WholeOf(t, c) = c
      /\ SameUpTo(s, t, c)
  BY DEF Extends, WholeOf, SameUpTo
<1>2. Led(s, c, op, log, as)
  BY <1>1 DEF Answered
<1>3. Led(t, c, op, log, as)
  BY <1>1, <1>2, LedSame
<1>4. Among(t, c, op) = Among(s, c, op)
  BY <1>1, AmongSame
<1>5. Len(log) = Among(s, c, op)
  BY DEF Answered
<1>6. ~ c > Len(t)
  BY <1>1 DEF Extends
<1> QED BY <1>1, <1>3, <1>4, <1>5, <1>6 DEF Answered

LEMMA AnsweredAfterRead ==
    ASSUME NEW s, Len(s) \in Nat, NEW c \in Nat, NEW op, NEW log, NEW longer, NEW as,
           c < Len(s), Answered(s, c, op, log, as),
           s[c + 1].opcode = op => Extends(longer, log, EntryOf(s[c + 1], as)),
           s[c + 1].opcode # op => longer = log
    PROVE  Answered(s, c + 1, op, longer, as)
<1>1. /\ c <= Len(s) /\ WholeOf(s, c) = c /\ c + 1 <= Len(s) /\ WholeOf(s, c + 1) = c + 1
      /\ ~ c + 1 > Len(s)
  BY DEF WholeOf
<1>2. Led(s, c, op, log, as) /\ Len(log) = Among(s, c, op)
  BY <1>1 DEF Answered
<1>3. Led(s, c + 1, op, longer, as) /\ Len(longer) = Among(s, c + 1, op)
  <2>1. CASE s[c + 1].opcode = op
    <3>1. OneMore(longer, log, s, c, op, as)
      BY <2>1 DEF OneMore
    <3>2. Led(s, c + 1, op, longer, as)
      BY <1>2, <3>1, LedOn
    <3>3. Among(s, c, op) \in Nat /\ Among(s, c + 1, op) = Among(s, c, op) + 1
      BY <2>1, AmongType, AmongGrows
    <3>4. Len(longer) = Len(log) + 1
      BY <2>1 DEF Extends
    <3> QED BY <1>2, <3>2, <3>3, <3>4
  <2>2. CASE s[c + 1].opcode # op
    BY <1>2, <2>2, LedPast
  <2> QED BY <2>1, <2>2
<1> QED BY <1>1, <1>3 DEF Answered

LEMMA AnsweredAfterCut ==
    ASSUME NEW s, Len(s) \in Nat, NEW c, NEW op, NEW log, NEW longer, NEW as, NEW e,
           c = Len(s), Answered(s, c, op, log, as), longer = log \/ Extends(longer, log, e)
    PROVE  Answered(s, c + 1, op, longer, as)
<1>1. /\ c <= Len(s) /\ WholeOf(s, c) = Len(s) /\ c + 1 > Len(s) /\ ~ c + 1 <= Len(s)
      /\ WholeOf(s, c + 1) = Len(s)
  BY DEF WholeOf
<1>2. Led(s, Len(s), op, log, as) /\ Len(log) = Among(s, Len(s), op)
  BY <1>1 DEF Answered
<1>3. Among(s, Len(s), op) \in Nat
  BY AmongType
<1>4. CASE longer = log
  BY <1>1, <1>2, <1>4 DEF Answered
<1>5. CASE Extends(longer, log, e)
  <2>1. Len(log) >= Among(s, Len(s), op)
    BY <1>2, <1>3
  <2>2. Led(s, Len(s), op, longer, as)
    BY <1>2, <1>5, <2>1, LedKept
  <2>3. Len(longer) = Among(s, Len(s), op) + 1
    BY <1>2, <1>3, <1>5 DEF Extends
  <2> QED BY <1>1, <2>2, <2>3 DEF Answered
<1> QED BY <1>4, <1>5

(* What the client reads of the answers to its pings                       *)
Reads(p) == [k \in DOMAIN p |-> Wire!ClientReads(p[k])]

LEMMA ReadsExtend ==
    ASSUME NEW p, NEW q, NEW h, Extends(q, p, h)
    PROVE  Extends(Reads(q), Reads(p), Wire!ClientReads(h))
<1>1. PICK n : n = Len(p)
  OBVIOUS
<1>2. /\ n \in Nat /\ DOMAIN q = 1..(n + 1) /\ DOMAIN p = 1..n /\ q[n + 1] = h
      /\ \A i \in 1..n : q[i] = p[i]
  BY <1>1 DEF Extends
<1>3. PICK u : u = Reads(q)
  OBVIOUS
<1>4. PICK v : v = Reads(p)
  OBVIOUS
<1>5. u = [k \in 1..(n + 1) |-> Wire!ClientReads(q[k])] /\ v = [k \in 1..n |-> Wire!ClientReads(p[k])]
  BY <1>2, <1>3, <1>4 DEF Reads
<1>6. /\ Len(u) = n + 1 /\ Len(v) = n /\ DOMAIN u = 1..(n + 1) /\ DOMAIN v = 1..n
      /\ u[n + 1] = Wire!ClientReads(h)
      /\ \A i \in 1..n : u[i] = v[i]
  BY <1>2, <1>5
<1>7. IsSeq(u)
  <2>1. PICK S : S = {Wire!ClientReads(q[k]) : k \in 1..(n + 1)}
    OBVIOUS
  <2>2. \A i \in 1..(n + 1) : u[i] \in S
    BY <1>5, <2>1
  <2>3. n + 1 \in Nat /\ u = [i \in 1..(n + 1) |-> u[i]]
    BY <1>2, <1>5
  <2>4. u \in Seq(S)
    BY <2>2, <2>3
  <2> QED BY <2>4 DEF IsSeq
<1> QED BY <1>2, <1>3, <1>4, <1>6, <1>7 DEF Extends

(* What is on the wire is what was sent whole and not yet read, and then a *)
(* frame that was cut off, if any; a close ends the reading.               *)
OnTheWire ==
    /\ IsSeq(sent) /\ IsSeq(wire) /\ consumed \in Nat
    /\ \A i \in 1..Len(sent) : sent[i] \in Wire!Frame
    /\ \/ Len(wire) + consumed = Len(sent)
       \/ broken /\ Len(wire) + consumed = Len(sent) + 1
    /\ \A k \in 1..Len(wire) : consumed + k <= Len(sent) =>
            /\ wire[k].header = Wire!ClientHeader(sent[consumed + k])
            /\ wire[k].got = 10

CloseEnds ==
    \A i \in 1..Len(sent) :
        sent[i].opcode = Wire!Close /\ consumed >= i => consumed = i /\ ended

FrameInv ==
    /\ OnTheWire /\ CloseEnds
    /\ IsSeq(returned) /\ Answered(sent, consumed, Wire!Text, returned, Wire!Text)
    /\ IsSeq(pongs)    /\ Answered(sent, consumed, Wire!Ping, Reads(pongs), Wire!Pong)

LEMMA LengthIsNat == ASSUME NEW s, IsSeq(s) PROVE Len(s) \in Nat /\ DOMAIN s = 1..Len(s)
<1>1. PICK S : s \in Seq(S)
  BY DEF IsSeq
<1> QED BY <1>1

LEMMA StepOfWire == [Next]_vars => Wire!Next \/ UNCHANGED wireVars
<1>1. Next => Wire!Next \/ UNCHANGED wireVars
  BY DEF Next, Only
<1> QED BY <1>1 DEF vars

LEMMA FrameInit == Init => FrameInv
<1> SUFFICES ASSUME Init PROVE FrameInv
  OBVIOUS
<1>1. wire = <<>> /\ sent = <<>> /\ consumed = 0 /\ returned = <<>> /\ pongs = <<>>
  BY DEF Init, Wire!Init
<1>2. IsSeq(<<>>) /\ Len(<<>>) = 0
  <2>1. <<>> \in Seq({})
    OBVIOUS
  <2> QED BY <2>1 DEF IsSeq
<1>3. OnTheWire /\ CloseEnds
  BY <1>1, <1>2 DEF OnTheWire, CloseEnds
<1>4. Reads(<<>>) = <<>>
  BY DEF Reads
<1>5. ASSUME NEW op, NEW as PROVE Answered(<<>>, 0, op, <<>>, as)
  <2>1. Among(<<>>, 0, op) = 0
    <3>1. {j \in 1..0 : (<<>>)[j].opcode = op} = {}
      OBVIOUS
    <3> QED BY <3>1, FS_EmptySet DEF Among
  <2>2. WholeOf(<<>>, 0) = 0 /\ Led(<<>>, 0, op, <<>>, as)
    BY <1>2 DEF WholeOf, Led
  <2> QED BY <1>2, <2>1, <2>2 DEF Answered
<1> QED BY <1>1, <1>2, <1>3, <1>4, <1>5 DEF FrameInv

LEMMA FrameStays == FrameInv /\ UNCHANGED wireVars => FrameInv'
<1> SUFFICES ASSUME FrameInv, UNCHANGED wireVars PROVE FrameInv'
  OBVIOUS
<1> QED BY DEF FrameInv, wireVars, OnTheWire, CloseEnds, Answered, Led, WholeOf, Among, Reads, IsSeq

LEMMA SendKeepsFrames == FrameInv /\ Wire!Send => FrameInv'
<1> SUFFICES ASSUME FrameInv, Wire!Send PROVE FrameInv'
  OBVIOUS
<1>1. PICK f \in Wire!Frame :
        /\ wire' = Append(wire, [header |-> Wire!ClientHeader(f), got |-> 10, payload |-> f.length])
        /\ sent' = Append(sent, f)
  BY DEF Wire!Send
<1>2. UNCHANGED <<broken, consumed, returned, pongs, ended>> /\ ~broken
  BY DEF Wire!Send
<1>3. IsSeq(sent) /\ IsSeq(wire) /\ IsSeq(returned) /\ IsSeq(pongs) /\ consumed \in Nat
  BY DEF FrameInv, OnTheWire
<1>4. PICK e : e = [header |-> Wire!ClientHeader(f), got |-> 10, payload |-> f.length]
  OBVIOUS
<1>5. Extends(sent', sent, f) /\ Extends(wire', wire, e)
  BY <1>1, <1>3, <1>4, AppendExtends
<1>6. /\ Len(sent) \in Nat /\ Len(wire) \in Nat
      /\ Len(sent') = Len(sent) + 1 /\ Len(wire') = Len(wire) + 1
      /\ sent'[Len(sent) + 1] = f /\ \A i \in 1..Len(sent) : sent'[i] = sent[i]
      /\ wire'[Len(wire) + 1] = e /\ \A i \in 1..Len(wire) : wire'[i] = wire[i]
      /\ IsSeq(sent') /\ IsSeq(wire')
  BY <1>5 DEF Extends
<1>7. Len(wire) + consumed = Len(sent) /\ consumed <= Len(sent)
  BY <1>2, <1>3, <1>6 DEF FrameInv, OnTheWire
<1>8. OnTheWire'
  <2>1. \A i \in 1..Len(sent') : sent'[i] \in Wire!Frame
    BY <1>6 DEF FrameInv, OnTheWire
  <2>2. ASSUME NEW k \in 1..Len(wire'), consumed + k <= Len(sent')
        PROVE  /\ wire'[k].header = Wire!ClientHeader(sent'[consumed + k])
               /\ wire'[k].got = 10
    <3>1. CASE k \in 1..Len(wire)
      <4>1. consumed + k <= Len(sent) /\ sent'[consumed + k] = sent[consumed + k]
        BY <1>3, <1>6, <1>7, <3>1
      <4>2. wire'[k] = wire[k]
        BY <1>6, <3>1
      <4> QED BY <3>1, <4>1, <4>2 DEF FrameInv, OnTheWire
    <3>2. CASE k = Len(wire) + 1
      <4>1. sent'[consumed + k] = f /\ wire'[k] = e
        BY <1>3, <1>6, <1>7, <3>2
      <4> QED BY <1>4, <4>1
    <3> QED BY <1>6, <3>1, <3>2
  <2>3. Len(wire') + consumed' = Len(sent')
    BY <1>2, <1>3, <1>6, <1>7
  <2> QED BY <1>2, <1>3, <1>6, <2>1, <2>2, <2>3 DEF OnTheWire
<1>9. CloseEnds'
  BY <1>2, <1>3, <1>6, <1>7 DEF FrameInv, CloseEnds
<1>10. Answered(sent', consumed, Wire!Text, returned, Wire!Text)
  BY <1>3, <1>5, <1>7, AnsweredAfterSend DEF FrameInv
<1>11. Answered(sent', consumed, Wire!Ping, Reads(pongs), Wire!Pong)
  BY <1>3, <1>5, <1>7, AnsweredAfterSend DEF FrameInv
<1> QED BY <1>2, <1>3, <1>8, <1>9, <1>10, <1>11 DEF FrameInv

LEMMA BreakKeepsFrames == FrameInv /\ Wire!Break => FrameInv'
<1> SUFFICES ASSUME FrameInv, Wire!Break PROVE FrameInv'
  OBVIOUS
<1>1. UNCHANGED <<sent, consumed, returned, pongs, ended>> /\ ~broken /\ broken'
  BY DEF Wire!Break
<1>2. IsSeq(sent) /\ IsSeq(wire) /\ consumed \in Nat
  BY DEF FrameInv, OnTheWire
<1>3. Len(wire) + consumed = Len(sent)
  BY <1>1 DEF FrameInv, OnTheWire
<1>4. CASE UNCHANGED wire
  BY <1>1, <1>4 DEF FrameInv, OnTheWire, CloseEnds
<1>5. ASSUME NEW e, wire' = Append(wire, e) PROVE FrameInv'
  <2>1. Extends(wire', wire, e)
    BY <1>2, <1>5, AppendExtends
  <2>2. /\ Len(wire) \in Nat /\ Len(wire') = Len(wire) + 1 /\ IsSeq(wire')
        /\ \A i \in 1..Len(wire) : wire'[i] = wire[i]
    BY <2>1 DEF Extends
  <2>3. ASSUME NEW k \in 1..Len(wire'), consumed + k <= Len(sent)
        PROVE  /\ wire'[k].header = Wire!ClientHeader(sent[consumed + k])
               /\ wire'[k].got = 10
    <3>1. k \in 1..Len(wire) /\ wire'[k] = wire[k]
      BY <1>2, <1>3, <2>2, <2>3
    <3> QED BY <2>3, <3>1 DEF FrameInv, OnTheWire
  <2>4. OnTheWire'
    BY <1>1, <1>2, <1>3, <2>2, <2>3 DEF FrameInv, OnTheWire
  <2> QED BY <1>1, <2>4 DEF FrameInv, CloseEnds
<1>6. UNCHANGED wire \/ \E e : wire' = Append(wire, e)
  BY DEF Wire!Break
<1> QED BY <1>4, <1>5, <1>6

LEMMA FrameLengths ==
    ASSUME NEW f \in Wire!Frame PROVE f.length \in Nat /\ f.length \div 256^3 < 256
<1>1. f.length \in Lengths
  BY DEF Wire!Frame
<1> QED BY <1>1, ConstantsAssumption DEF Wire!ConstantsOK

(* ReadMessage and a frame that was sent whole                             *)
LEMMA WholeFrameKeepsFrames ==
    ASSUME FrameInv, Wire!ReadFrame, consumed < Len(sent), OnTheWire',
           NEW f, f = sent[consumed + 1]
    PROVE  FrameInv'
<1> DEFINE opcode == Head(wire).header[1] % 16
           length == Wire!ReadLength(Wire!Padded(Head(wire).header, Head(wire).got))
<1>1. /\ ~ended /\ wire # <<>> /\ consumed' = consumed + 1 /\ sent' = sent
      /\ ended' = (opcode = Wire!Close)
      /\ opcode = Wire!Ping =>
            pongs' = Append(pongs, Wire!WriteHeader(Wire!Pong, length))
      /\ opcode # Wire!Ping => pongs' = pongs
      /\ opcode = Wire!Text =>
            returned' = Append(returned, [opcode |-> opcode, length |-> length])
      /\ opcode # Wire!Text => returned' = returned
  BY DEF Wire!ReadFrame
<1>2. IsSeq(sent) /\ IsSeq(wire) /\ IsSeq(returned) /\ IsSeq(pongs) /\ consumed \in Nat
  BY DEF FrameInv, OnTheWire
<1>3. Len(sent) \in Nat /\ Len(wire) \in Nat /\ Len(wire) > 0 /\ Head(wire) = wire[1]
  BY <1>1, <1>2, TailFollows, LengthIsNat DEF Follows
<1>4. f \in Wire!Frame
  BY <1>2, <1>3 DEF FrameInv, OnTheWire
<1>5. Head(wire).header = Wire!ClientHeader(f) /\ Head(wire).got = 10
  <2>1. 1 \in 1..Len(wire) /\ consumed + 1 <= Len(sent)
    BY <1>2, <1>3
  <2>2. wire[1].header = Wire!ClientHeader(sent[consumed + 1]) /\ wire[1].got = 10
    BY <2>1 DEF FrameInv, OnTheWire
  <2> QED BY <1>3, <2>2
<1>6. f.length \in Nat /\ f.length \div 256^3 < 256
  BY <1>4, FrameLengths
<1>7. opcode = f.opcode /\ length = f.length
  BY <1>4, <1>5, <1>6, HeaderIsRead
<1> HIDE DEF opcode, length
<1>8. CloseEnds'
  <2> SUFFICES ASSUME NEW i \in 1..Len(sent), sent[i].opcode = Wire!Close, consumed + 1 >= i
               PROVE  consumed + 1 = i /\ ended'
    BY <1>1 DEF CloseEnds
  <2>1. ~ consumed >= i
    BY <1>1 DEF FrameInv, CloseEnds
  <2>2. i = consumed + 1
    BY <1>2, <1>3, <2>1
  <2> QED BY <1>1, <1>7, <2>2
<1>9. IsSeq(returned') /\ Answered(sent, consumed + 1, Wire!Text, returned', Wire!Text)
  <2>1. Answered(sent, consumed, Wire!Text, returned, Wire!Text)
    BY DEF FrameInv
  <2>2. ASSUME f.opcode = Wire!Text PROVE Extends(returned', returned, EntryOf(f, Wire!Text))
    <3>1. returned' = Append(returned, EntryOf(f, Wire!Text))
      BY <1>1, <1>7, <2>2 DEF EntryOf
    <3> QED BY <1>2, <3>1, AppendExtends
  <2>3. f.opcode # Wire!Text => returned' = returned
    BY <1>1, <1>7
  <2>4. IsSeq(returned')
    BY <1>2, <2>2, <2>3 DEF Extends
  <2> QED BY <1>2, <1>3, <2>1, <2>2, <2>3, <2>4, AnsweredAfterRead
<1>10. IsSeq(pongs') /\ Answered(sent, consumed + 1, Wire!Ping, Reads(pongs'), Wire!Pong)
  <2>1. Answered(sent, consumed, Wire!Ping, Reads(pongs), Wire!Pong)
    BY DEF FrameInv
  <2>2. ASSUME f.opcode = Wire!Ping
        PROVE  IsSeq(pongs') /\ Extends(Reads(pongs'), Reads(pongs), EntryOf(f, Wire!Pong))
    <3>1. pongs' = Append(pongs, Wire!WriteHeader(Wire!Pong, f.length))
      BY <1>1, <1>7, <2>2
    <3>2. Extends(pongs', pongs, Wire!WriteHeader(Wire!Pong, f.length))
      BY <1>2, <3>1, AppendExtends
    <3>3. Extends(Reads(pongs'), Reads(pongs),
                  Wire!ClientReads(Wire!WriteHeader(Wire!Pong, f.length)))
      BY <3>2, ReadsExtend
    <3>4. Wire!ClientReads(Wire!WriteHeader(Wire!Pong, f.length)) = EntryOf(f, Wire!Pong)
      BY <1>6, PongIsRead DEF EntryOf
    <3>5. IsSeq(pongs')
      BY <3>2 DEF Extends
    <3> QED BY <3>3, <3>4, <3>5
  <2>3. f.opcode # Wire!Ping => pongs' = pongs
    BY <1>1, <1>7
  <2>4. f.opcode # Wire!Ping => Reads(pongs') = Reads(pongs)
    BY <2>3
  <2>5. IsSeq(pongs')
    BY <1>2, <2>2, <2>3
  <2> QED BY <1>2, <1>3, <2>1, <2>2, <2>4, <2>5, AnsweredAfterRead
<1> QED BY <1>1, <1>8, <1>9, <1>10 DEF FrameInv

(* ReadMessage and a frame that was cut off                                *)
LEMMA CutFrameKeepsFrames ==
    ASSUME FrameInv, Wire!ReadFrame, consumed = Len(sent), OnTheWire'
    PROVE  FrameInv'
<1>1. /\ ~ended /\ consumed' = consumed + 1 /\ sent' = sent
      /\ pongs' = pongs \/ \E h : pongs' = Append(pongs, h)
      /\ returned' = returned \/ \E e : returned' = Append(returned, e)
  BY DEF Wire!ReadFrame
<1>2. IsSeq(sent) /\ IsSeq(returned) /\ IsSeq(pongs) /\ consumed \in Nat /\ Len(sent) \in Nat
  BY DEF FrameInv, OnTheWire
<1>3. CloseEnds'
  <2> SUFFICES ASSUME NEW i \in 1..Len(sent), sent[i].opcode = Wire!Close PROVE FALSE
    BY <1>1 DEF CloseEnds
  <2> QED BY <1>1, <1>2 DEF FrameInv, CloseEnds
<1>4. IsSeq(returned') /\ Answered(sent, consumed + 1, Wire!Text, returned', Wire!Text)
  <2>1. Answered(sent, consumed, Wire!Text, returned, Wire!Text)
    BY DEF FrameInv
  <2>2. CASE returned' = returned
    BY <1>2, <2>1, <2>2, AnsweredAfterCut
  <2>3. ASSUME NEW e, returned' = Append(returned, e)
        PROVE  IsSeq(returned') /\ Answered(sent, consumed + 1, Wire!Text, returned', Wire!Text)
    <3>1. Extends(returned', returned, e)
      BY <1>2, <2>3, AppendExtends
    <3>2. IsSeq(returned')
      BY <3>1 DEF Extends
    <3> QED BY <1>2, <2>1, <3>1, <3>2, AnsweredAfterCut
  <2> QED BY <1>1, <2>2, <2>3
<1>5. IsSeq(pongs') /\ Answered(sent, consumed + 1, Wire!Ping, Reads(pongs'), Wire!Pong)
  <2>1. Answered(sent, consumed, Wire!Ping, Reads(pongs), Wire!Pong)
    BY DEF FrameInv
  <2>2. CASE pongs' = pongs
    <3>1. Reads(pongs') = Reads(pongs)
      BY <2>2
    <3> QED BY <1>2, <2>1, <2>2, <3>1, AnsweredAfterCut
  <2>3. ASSUME NEW h, pongs' = Append(pongs, h)
        PROVE  IsSeq(pongs') /\ Answered(sent, consumed + 1, Wire!Ping, Reads(pongs'), Wire!Pong)
    <3>1. Extends(pongs', pongs, h)
      BY <1>2, <2>3, AppendExtends
    <3>2. IsSeq(pongs') /\ Extends(Reads(pongs'), Reads(pongs), Wire!ClientReads(h))
      BY <3>1, ReadsExtend DEF Extends
    <3> QED BY <1>2, <2>1, <3>2, AnsweredAfterCut
  <2> QED BY <1>1, <2>2, <2>3
<1> QED BY <1>1, <1>3, <1>4, <1>5 DEF FrameInv

LEMMA ReadKeepsFrames == FrameInv /\ Wire!ReadFrame => FrameInv'
<1> SUFFICES ASSUME FrameInv, Wire!ReadFrame PROVE FrameInv'
  OBVIOUS
<1>1. wire # <<>> /\ wire' = Tail(wire) /\ consumed' = consumed + 1 /\ UNCHANGED <<broken, sent>>
  BY DEF Wire!ReadFrame
<1>2. IsSeq(sent) /\ IsSeq(wire) /\ consumed \in Nat
  BY DEF FrameInv, OnTheWire
<1>3. Follows(wire', wire) /\ Len(sent) \in Nat
  BY <1>1, <1>2, TailFollows, LengthIsNat
<1>4. /\ IsSeq(wire') /\ Len(wire) \in Nat \ {0} /\ Len(wire') = Len(wire) - 1
      /\ \A i \in 1..Len(wire') : wire'[i] = wire[i + 1]
  BY <1>3 DEF Follows
<1>5. OnTheWire'
  <2>1. ASSUME NEW k \in 1..Len(wire'), consumed + 1 + k <= Len(sent)
        PROVE  /\ wire'[k].header = Wire!ClientHeader(sent[consumed + 1 + k])
               /\ wire'[k].got = 10
    <3>1. PICK j : j = k + 1
      OBVIOUS
    <3>2. j \in 1..Len(wire) /\ wire'[k] = wire[j] /\ consumed + j = consumed + 1 + k
      BY <1>2, <1>4, <3>1
    <3>3. wire[j].header = Wire!ClientHeader(sent[consumed + j]) /\ wire[j].got = 10
      BY <2>1, <3>2 DEF FrameInv, OnTheWire
    <3> QED BY <3>2, <3>3
  <2>2. \/ Len(wire') + consumed' = Len(sent)
        \/ broken /\ Len(wire') + consumed' = Len(sent) + 1
    BY <1>1, <1>2, <1>3, <1>4 DEF FrameInv, OnTheWire
  <2>3. \A i \in 1..Len(sent) : sent[i] \in Wire!Frame
    BY DEF FrameInv, OnTheWire
  <2> QED BY <1>1, <1>2, <1>4, <2>1, <2>2, <2>3 DEF OnTheWire
<1>6. consumed < Len(sent) \/ consumed = Len(sent)
  BY <1>2, <1>3, <1>4 DEF FrameInv, OnTheWire
<1> QED BY <1>5, <1>6, WholeFrameKeepsFrames, CutFrameKeepsFrames

LEMMA FailKeepsFrames == FrameInv /\ Wire!ReadFails => FrameInv'
<1> SUFFICES ASSUME FrameInv, Wire!ReadFails PROVE FrameInv'
  OBVIOUS
<1>1. UNCHANGED <<wire, broken, sent, consumed, returned, pongs>> /\ ended'
  BY DEF Wire!ReadFails
<1>2. OnTheWire' /\ CloseEnds'
  BY <1>1 DEF FrameInv, OnTheWire, CloseEnds
<1> QED BY <1>1, <1>2 DEF FrameInv

LEMMA WireCardinality == \A S : Wire!Cardinality(S) = Cardinality(S)
  BY DEF Wire!Cardinality, Cardinality

LEMMA FramesAgreeOfInv == FrameInv => FramesAgree
<1> SUFFICES ASSUME FrameInv PROVE FramesAgree
  OBVIOUS
<1>1. IsSeq(sent) /\ consumed \in Nat /\ Len(sent) \in Nat /\ DOMAIN sent = 1..Len(sent)
  BY LengthIsNat DEF FrameInv, OnTheWire
<1>2. /\ Wire!Whole = WholeOf(sent, consumed) /\ Wire!Whole \in Nat
      /\ consumed <= Len(sent) => Wire!Whole = consumed
      /\ consumed > Len(sent)  => Wire!Whole = Len(sent)
  <2>1. Wire!Whole = WholeOf(sent, consumed)
    BY DEF Wire!Whole, WholeOf
  <2>2. PICK n \in Nat : n = Len(sent)
    BY <1>1
  <2>3. consumed <= n => WholeOf(sent, consumed) = consumed
    BY <2>2 DEF WholeOf
  <2>4. ~ consumed <= n => WholeOf(sent, consumed) = n
    BY <2>2 DEF WholeOf
  <2>5. consumed > n => ~ consumed <= n
    BY <1>1
  <2> QED BY <1>1, <2>1, <2>2, <2>3, <2>4, <2>5
<1>3. ASSUME NEW i, NEW op PROVE Wire!Count(i, op) = Among(sent, i, op)
  BY WireCardinality DEF Wire!Count, Among
<1>4. ASSUME NEW op, NEW log, NEW as, Answered(sent, consumed, op, log, as)
      PROVE  Wire!Agree(op, log, as)
  <2>1. Among(sent, Wire!Whole, op) \in Nat
    BY <1>2, AmongType
  <2>2. Len(log) - Wire!Count(Wire!Whole, op)
            \in IF consumed > Len(sent) THEN {0, 1} ELSE {0}
    <3>0. Wire!Count(Wire!Whole, op) = Among(sent, Wire!Whole, op)
      BY <1>3
    <3>1. CASE consumed <= Len(sent)
      <4>1. Len(log) = Among(sent, Wire!Whole, op)
        BY <1>2, <1>4, <3>1 DEF Answered
      <4>2. Len(log) - Wire!Count(Wire!Whole, op) = 0 /\ ~ consumed > Len(sent)
        BY <1>1, <2>1, <3>0, <3>1, <4>1
      <4> QED BY <4>2
    <3>2. CASE consumed > Len(sent)
      <4>1. \/ Len(log) = Among(sent, Wire!Whole, op)
            \/ Len(log) = Among(sent, Wire!Whole, op) + 1
        BY <1>2, <1>4, <3>2 DEF Answered
      <4>2. Len(log) - Wire!Count(Wire!Whole, op) \in {0, 1}
        BY <2>1, <3>0, <4>1
      <4> QED BY <3>2, <4>2
    <3> QED BY <1>1, <3>1, <3>2
  <2>3. Led(sent, Wire!Whole, op, log, as)
    BY <1>2, <1>4 DEF Answered
  <2>4. \A i \in 1..Wire!Whole : sent[i].opcode = op =>
            log[Wire!Count(i, op)] = [opcode |-> as, length |-> sent[i].length]
    BY <1>3, <2>3 DEF Led, EntryOf
  <2> QED BY <2>2, <2>4 DEF Wire!Agree
<1>5. Wire!MessagesArrive /\ Wire!PingsAnswered
  BY <1>4 DEF FrameInv, Reads, Wire!MessagesArrive, Wire!PingsAnswered
<1>6. Wire!CloseIsLast
  BY <1>1 DEF FrameInv, CloseEnds, Wire!CloseIsLast
<1> QED BY <1>5, <1>6 DEF FramesAgree, Wire!FramesAgree

LEMMA FrameInvariance == Spec => []FrameInv
<1>1. FrameInv /\ [Next]_vars => FrameInv'
  <2> SUFFICES ASSUME FrameInv, [Next]_vars PROVE FrameInv'
    OBVIOUS
  <2>1. Wire!Next \/ UNCHANGED wireVars
    BY StepOfWire
  <2> QED BY <2>1, FrameStays, SendKeepsFrames, BreakKeepsFrames, ReadKeepsFrames,
             FailKeepsFrames DEF Wire!Next
<1> QED BY <1>1, FrameInit, PTL DEF Spec

(* Whatever frames a client sends, of any length of up to four bytes,      *)
(* and wherever the connection breaks: ReadMessage returns its messages in *)
(* order and whole, its pings are answered with their own payload, nothing *)
(* is read from behind a close.                                            *)
THEOREM FramesAgreeInServices == Spec => []FramesAgree
  BY FrameInvariance, FramesAgreeOfInv, PTL

-----------------------------------------------------------------------------
(* Types. Some need more than themselves: what an invariant above says, or *)
(* a bound on how far the component has come.                              *)
LEMMA StepOfTheRest ==
    [Next]_vars => /\ Stream!Next \/ UNCHANGED streamVars
                   /\ Pool!Next   \/ UNCHANGED poolVars
<1>1. ASSUME UNCHANGED vars
      PROVE  UNCHANGED streamVars /\ UNCHANGED poolVars
  BY <1>1 DEF vars
<1>2. ASSUME NEW c \in Components, Only(c)
      PROVE  /\ c # "stream" => UNCHANGED streamVars
             /\ c # "pool"   => UNCHANGED poolVars
  BY <1>2 DEF Only
<1>3. ASSUME Next, NEW c \in Components, Only(c)
      PROVE  /\ c = "stream" => Stream!Next
             /\ c = "pool"   => Pool!Next
  BY <1>3 DEF Next, Only
<1>4. Next => \E c \in Components : Only(c)
  BY DEF Next, Components
<1> QED BY <1>1, <1>2, <1>3, <1>4

LEMMA LeaseTypes == Spec => []Lease!TypeOK
<1>1. LeaseProof!ConstantsOK
  BY ConstantsAssumption DEF LeaseProof!ConstantsOK, LeaseProof!Timeouts,
     Lease!ConstantsOK, Lease!Timeouts
<1>2. LeaseProof!Spec => []LeaseProof!IInv
  BY <1>1, LeaseProof!Invariance
<1>3. [Next]_vars => [LeaseProof!Next]_LeaseProof!vars
  BY StepOfComponents, LeaseNext DEF leaseVars, LeaseProof!vars, LeaseProof!settingVars
<1>4. LeaseProof!IInv => Lease!TypeOK
  BY DEF LeaseProof!IInv, LeaseProof!TypeOK, Lease!TypeOK, LeaseProof!Timeouts, Lease!Timeouts,
     LeaseProof!Holders, Lease!Holders
<1> QED BY <1>2, <1>3, <1>4, LeaseInit, PTL DEF Spec, LeaseProof!Spec

LEMMA LoginTypes == Spec => []Login!TypeOK
<1>1. LoginProof!ConstantsOK
  BY ConstantsAssumption DEF LoginProof!ConstantsOK, Login!ConstantsOK
<1>2. LoginProof!Spec => []LoginProof!IInv
  BY <1>1, LoginProof!Invariance
<1>3. [Next]_vars => [LoginProof!Next]_LoginProof!vars
  BY StepOfComponents, LoginNext DEF loginVars, LoginProof!vars
<1>4. LoginProof!IInv => Login!TypeOK
  BY DEF LoginProof!IInv, LoginProof!TypeOK, Login!TypeOK
<1> QED BY <1>2, <1>3, <1>4, LoginInit, PTL DEF Spec, LoginProof!Spec

LEMMA StopTypes == Spec => []Stop!TypeOK
<1>1. StopProof!ConstantsOK
  BY ConstantsAssumption DEF StopProof!ConstantsOK, Stop!ConstantsOK
<1>2. StopProof!Spec => []StopProof!IInv
  BY <1>1, StopProof!Invariance
<1>3. [Next]_vars => [StopProof!Next]_StopProof!vars
  BY StepOfComponents, StopNext DEF stopVars, StopProof!vars, StopProof!handVars, StopProof!chainVars
<1>4. StopProof!IInv => Stop!TypeOK
  BY DEF StopProof!IInv, StopProof!TypeOK, Stop!TypeOK
<1> QED BY <1>2, <1>3, <1>4, StopInit, PTL DEF Spec, StopProof!Spec

LEMMA StreamTypes == Spec => []Stream!TypeOK
<1>0. BufferCap \in Nat \ {0} /\ MaxChanges \in Nat
  BY ConstantsAssumption DEF Stream!ConstantsOK
<1>1. Init => Stream!TypeOK
  BY <1>0 DEF Init, Stream!Init, Stream!TypeOK
<1>2. Stream!TypeOK /\ [Next]_vars => Stream!TypeOK'
  <2> SUFFICES ASSUME Stream!TypeOK, Stream!Next \/ UNCHANGED streamVars PROVE Stream!TypeOK'
    BY StepOfTheRest
  <2> USE <1>0 DEF Stream!TypeOK
  <2>1. CASE UNCHANGED streamVars
    BY <2>1 DEF streamVars
  <2>2. CASE Stream!Change
    BY <2>2 DEF Stream!Change
  <2>3. CASE Stream!Broadcast
    BY <2>3 DEF Stream!Broadcast
  <2>4. ASSUME NEW d \in Dashboards, Stream!Subscribe(d) \/ Stream!Unsubscribe(d) \/ Stream!Deliver(d)
        PROVE  Stream!TypeOK'
    BY <2>4 DEF Stream!Subscribe, Stream!Unsubscribe, Stream!Deliver, Stream!Subscribers
  <2> QED BY <2>1, <2>2, <2>3, <2>4 DEF Stream!Next
<1> QED BY <1>1, <1>2, PTL DEF Spec

LEMMA BeatsTypes == Spec => []Beats!TypeOK
<1>0. BeatTime \in Nat
  BY ConstantsAssumption DEF Beats!ConstantsOK
<1>1. Init => Beats!TypeOK
  BY <1>0 DEF Init, Beats!Init, Beats!TypeOK
<1>2. Beats!TypeOK /\ [Next]_vars => Beats!TypeOK'
  <2> SUFFICES ASSUME Beats!TypeOK, Beats!Next \/ UNCHANGED beatsVars PROVE Beats!TypeOK'
    BY StepOfOthers
  <2> USE <1>0 DEF Beats!TypeOK
  <2>1. CASE UNCHANGED beatsVars
    BY <2>1 DEF beatsVars
  <2>2. ASSUME NEW w \in Ids, Beats!Connect(w) \/ Beats!Disconnect(w) \/ Beats!Beat(w) PROVE Beats!TypeOK'
    BY <2>2 DEF Beats!Connect, Beats!Disconnect, Beats!Beat, Beats!reaperVars
  <2>3. CASE Beats!Scan
    BY <2>3 DEF Beats!Scan
  <2>4. ASSUME NEW w \in Ids, Beats!Unregister(w) \/ Beats!Forget(w) PROVE Beats!TypeOK'
    BY <2>4 DEF Beats!Unregister, Beats!Forget
  <2>5. CASE Beats!Tick
    BY <2>5 DEF Beats!Tick, Beats!reaperVars
  <2> QED BY <2>1, <2>2, <2>3, <2>4, <2>5 DEF Beats!Next, Beats!ReaperStep
<1> QED BY <1>1, <1>2, PTL DEF Spec

LEMMA CacheTypes == Spec => []Cache!TypeOK
<1>0. Ttls \subseteq Int /\ DefaultTtl \in Nat \ {0} /\ CacheTime \in Nat
  BY ConstantsAssumption DEF Cache!ConstantsOK
<1>1. Init => Cache!TypeOK
  BY <1>0 DEF Init, Cache!Init, Cache!TypeOK, Cache!NoRow
<1>2. Cache!TypeOK /\ [Next]_vars => Cache!TypeOK'
  <2> SUFFICES ASSUME Cache!TypeOK, Cache!Next \/ UNCHANGED cacheVars PROVE Cache!TypeOK'
    BY StepOfOthers
  <2> USE <1>0 DEF Cache!TypeOK, Cache!NoRow
  <2>1. CASE UNCHANGED cacheVars
    BY <2>1 DEF cacheVars
  <2>2. CASE Cache!Set
    <3>1. PICK t \in Ttls : expires' = LET ttl == IF t = 0 THEN DefaultTtl ELSE t
                                       IN  IF ttl > 0 THEN time + ttl ELSE 0
      BY <2>2 DEF Cache!Set
    <3>2. UNCHANGED <<time, step, got, remover>>
      BY <2>2 DEF Cache!Set
    <3> QED BY <3>1, <3>2
  <2>3. CASE Cache!Delete \/ Cache!Cleanup
    BY <2>3 DEF Cache!Delete, Cache!Cleanup, Cache!Remove
  <2>4. ASSUME NEW r \in Readers, Cache!Read(r) \/ Cache!Answer(r) \/ Cache!Drop(r) PROVE Cache!TypeOK'
    BY <2>4 DEF Cache!Read, Cache!Answer, Cache!Drop, Cache!Remove
  <2>5. CASE Cache!Tick
    BY <2>5 DEF Cache!Tick
  <2> QED BY <2>1, <2>2, <2>3, <2>4, <2>5 DEF Cache!Next
<1> QED BY <1>1, <1>2, PTL DEF Spec

LEMMA PoolRecord ==
    ASSUME NEW x \in Pool!Pool
    PROVE  /\ x.min \in Nat /\ x.max \in Nat /\ x.cap \in Nat /\ x.workers \in Nat
           /\ x.busy \in Nat /\ x.pending \in Nat \cup {-1}
           /\ \A m \in Nat, n \in Nat : [x EXCEPT !.min = m, !.max = n] \in Pool!Pool
           /\ \A n \in Nat : [x EXCEPT !.busy = n] \in Pool!Pool
           /\ \A n \in Nat : [x EXCEPT !.pending = n] \in Pool!Pool
           /\ \A n \in Nat : [x EXCEPT !.pending = -1, !.workers = n] \in Pool!Pool
  BY DEF Pool!Pool

LEMMA ChangeOfOne ==
    ASSUME NEW S, NEW s \in Seq(S), NEW p, NEW e, p \in DOMAIN s => e \in S
    PROVE  /\ [s EXCEPT ![p] = e] \in Seq(S)
           /\ Len([s EXCEPT ![p] = e]) = Len(s)
<1>1. DOMAIN s = 1..Len(s)
  OBVIOUS
<1>2. CASE p \in DOMAIN s
  <2>1. p \in 1..Len(s) /\ e \in S
    BY <1>1, <1>2
  <2> QED BY <2>1, ExceptSeq
<1>3. CASE p \notin DOMAIN s
  <2>1. [s EXCEPT ![p] = e] = s
    <3>1. s \in [1..Len(s) -> S]
      OBVIOUS
    <3> QED BY <1>1, <1>3, <3>1
  <2> QED BY <2>1
<1> QED BY <1>2, <1>3

LEMMA PoolTypes == Spec => []Pool!TypeOK
<1>0. PoolConfigs \subseteq [min : Nat, max : Nat] /\ DefaultMax \in Nat /\ MaxBacklog \in Nat
  BY ConstantsAssumption DEF Pool!ConstantsOK, Pool!Config
<1>1. Init => Pool!TypeOK
  BY <1>0 DEF Init, Pool!Init, Pool!TypeOK
<1>2. Pool!TypeOK /\ [Next]_vars => Pool!TypeOK'
  <2> SUFFICES ASSUME Pool!TypeOK, Pool!Next \/ UNCHANGED poolVars PROVE Pool!TypeOK'
    BY StepOfTheRest
  <2>0. /\ pools \in Seq(Pool!Pool) /\ Len(pools) \in Nat
        /\ registered \in 0..Len(pools) /\ backlog \in 0..MaxBacklog
        /\ asked \in [PoolRequests -> {"new", "start", "update", "register", "served"}]
        /\ found \in [PoolRequests -> 0..Len(pools)]
        /\ \A p \in DOMAIN pools : pools[p] \in Pool!Pool
    BY DEF Pool!TypeOK
  <2>1. CASE UNCHANGED poolVars
    BY <2>1 DEF poolVars, Pool!TypeOK
  <2>2. ASSUME NEW r \in PoolRequests, Pool!Lookup(r) \/ Pool!Register(r) PROVE Pool!TypeOK'
    BY <2>0, <2>2 DEF Pool!Lookup, Pool!Register, Pool!TypeOK
  <2>3. ASSUME NEW r \in PoolRequests, Pool!Update(r) PROVE Pool!TypeOK'
    <3>1. PICK c \in PoolConfigs :
            pools' = [pools EXCEPT ![found[r]].min = Pool!OrDefault(c.min, @),
                                   ![found[r]].max = Pool!OrDefault(c.max, @)]
      BY <2>3 DEF Pool!Update
    <3>2. ASSUME found[r] \in DOMAIN pools PROVE pools'[found[r]] \in Pool!Pool
      <4>1. pools[found[r]] \in Pool!Pool
        BY <2>0, <3>2
      <4>2. c.min \in Nat /\ c.max \in Nat
        BY <1>0
      <4>3. pools'[found[r]] = [pools[found[r]] EXCEPT !.min = Pool!OrDefault(c.min, @),
                                                       !.max = Pool!OrDefault(c.max, @)]
        BY <3>1, <3>2
      <4>4. \A x \in Pool!Pool : [x EXCEPT !.min = Pool!OrDefault(c.min, @),
                                           !.max = Pool!OrDefault(c.max, @)] \in Pool!Pool
        BY <4>2 DEF Pool!Pool, Pool!OrDefault
      <4> QED BY <4>1, <4>3, <4>4
    <3>3. pools' = [pools EXCEPT ![found[r]] = pools'[found[r]]]
      BY <3>1
    <3>5. pools' \in Seq(Pool!Pool) /\ Len(pools') = Len(pools)
      BY <2>0, <3>2, <3>3, ChangeOfOne
    <3>4. asked' = [asked EXCEPT ![r] = "served"] /\ UNCHANGED <<registered, backlog, found>>
      BY <2>3 DEF Pool!Update
    <3> QED BY <2>0, <3>4, <3>5 DEF Pool!TypeOK
  <2>4. ASSUME NEW r \in PoolRequests, Pool!Start(r) PROVE Pool!TypeOK'
    <3> DEFINE new(min, max) == [min |-> min, max |-> max, cap |-> max, workers |-> min,
                                 busy |-> 0, pending |-> -1]
    <3>1. PICK c \in PoolConfigs :
            pools' = Append(pools, new(Pool!OrDefault(c.min, 1), Pool!OrDefault(c.max, DefaultMax)))
      BY <2>4 DEF Pool!Start
    <3>2. Pool!OrDefault(c.min, 1) \in Nat /\ Pool!OrDefault(c.max, DefaultMax) \in Nat
      BY <1>0 DEF Pool!OrDefault
    <3>3. \A min \in Nat, max \in Nat : new(min, max) \in Pool!Pool
      BY DEF Pool!Pool
    <3> HIDE DEF new
    <3>4. PICK x \in Pool!Pool : pools' = Append(pools, x)
      BY <3>1, <3>2, <3>3
    <3>5. pools' \in Seq(Pool!Pool) /\ Len(pools') = Len(pools) + 1
      BY <2>0, <3>4
    <3>6. /\ found' = [found EXCEPT ![r] = Len(pools')] /\ UNCHANGED <<registered, backlog>>
          /\ asked' = [asked EXCEPT ![r] = "register"]
      BY <2>4 DEF Pool!Start
    <3>7. registered \in 0..Len(pools') /\ found' \in [PoolRequests -> 0..Len(pools')]
      BY <2>0, <3>5, <3>6
    <3> QED BY <2>0, <3>5, <3>6, <3>7 DEF Pool!TypeOK
  <2>5. ASSUME NEW p \in DOMAIN pools,
               Pool!Take(p) \/ Pool!Release(p) \/ Pool!CountPending(p) \/ Pool!Adjust(p)
        PROVE  Pool!TypeOK'
    <3>0. /\ pools[p] \in Pool!Pool /\ pools[p].busy \in Nat /\ pools[p].workers \in Nat
          /\ backlog \in Nat
      <4>1. pools[p] \in Pool!Pool
        BY <2>0
      <4>2. pools[p].busy \in Nat /\ pools[p].workers \in Nat
        BY <4>1, PoolRecord
      <4> QED BY <1>0, <2>0, <4>1, <4>2
    <3>1. \E new \in Pool!Pool : pools' = [pools EXCEPT ![p] = new]
      <4>1. CASE Pool!Take(p)
        <5>1. pools' = [pools EXCEPT ![p] = [pools[p] EXCEPT !.busy = pools[p].busy + 1]]
          BY <4>1 DEF Pool!Take
        <5>2. pools[p].busy + 1 \in Nat
          BY <3>0
        <5> QED BY <3>0, <5>1, <5>2, PoolRecord
      <4>2. CASE Pool!Release(p)
        <5>1. /\ pools' = [pools EXCEPT ![p] = [pools[p] EXCEPT !.busy = pools[p].busy - 1]]
              /\ pools[p].busy > 0
          BY <4>2 DEF Pool!Release
        <5>2. pools[p].busy - 1 \in Nat
          BY <3>0, <5>1
        <5> QED BY <3>0, <5>1, <5>2, PoolRecord
      <4>3. CASE Pool!CountPending(p)
        <5>1. pools' = [pools EXCEPT ![p] = [pools[p] EXCEPT !.pending = backlog]]
          BY <4>3 DEF Pool!CountPending
        <5> QED BY <3>0, <5>1, PoolRecord
      <4>4. CASE Pool!Adjust(p)
        <5> DEFINE grown(n) == [pools[p] EXCEPT !.pending = -1, !.workers = n]
        <5>1. \/ pools' = [pools EXCEPT ![p] = grown(pools[p].workers)]
              \/ pools' = [pools EXCEPT ![p] = grown(pools[p].workers + 1)]
          BY <4>4 DEF Pool!Adjust
        <5>2. pools[p].workers + 1 \in Nat
          BY <3>0
        <5>3. grown(pools[p].workers) \in Pool!Pool /\ grown(pools[p].workers + 1) \in Pool!Pool
          BY <3>0, <5>2, PoolRecord
        <5> HIDE DEF grown
        <5> QED BY <5>1, <5>3
      <4> QED BY <2>5, <4>1, <4>2, <4>3, <4>4
    <3>2. pools' \in Seq(Pool!Pool) /\ Len(pools') = Len(pools)
      BY <2>0, <3>1, ChangeOfOne
    <3>3. backlog' \in 0..MaxBacklog
      BY <1>0, <2>0, <2>5 DEF Pool!Take, Pool!Release, Pool!CountPending, Pool!Adjust
    <3>4. UNCHANGED <<registered, asked, found>>
      BY <2>5 DEF Pool!Take, Pool!Release, Pool!CountPending, Pool!Adjust, Pool!requestVars
    <3> QED BY <2>0, <3>2, <3>3, <3>4 DEF Pool!TypeOK
  <2>6. CASE Pool!Submit
    <3>1. backlog' \in 0..MaxBacklog /\ UNCHANGED <<pools, registered, asked, found>>
      BY <1>0, <2>0, <2>6 DEF Pool!Submit, Pool!requestVars
    <3> QED BY <2>0, <3>1 DEF Pool!TypeOK
  <2> QED BY <2>1, <2>2, <2>3, <2>4, <2>5, <2>6
          DEF Pool!Next, Pool!RequestStep, Pool!PoolStep, Pool!LoopStep
<1> QED BY <1>1, <1>2, PTL DEF Spec

(* An automatic VACUUM that is about to start has been counted out. *)
VacBounds ==
    /\ idle \in BOOLEAN /\ idleCount \in 0..(RequiredIdle - 1) /\ auto \in 0..MaxRuns
    /\ pc["vacuumer"] \in {"free", "start"} => auto < MaxRuns

LEMMA VacuumTypes == Spec => []Vac!TypeOK
<1>0. /\ RequiredIdle \in Nat \ {0, 1} /\ MaxRuns \in Nat
      /\ "vacuumer" \notin VacuumRequests /\ Vac!Runners = VacuumRequests \cup {"vacuumer"}
  BY ConstantsAssumption DEF Vac!ConstantsOK, Vac!Runners
<1>1. Init => VacBounds
  <2> SUFFICES ASSUME Init PROVE VacBounds
    OBVIOUS
  <2>1. /\ pc = [r \in Vac!Runners |-> IF r = "vacuumer" THEN "sleep" ELSE "new"]
        /\ idle = FALSE /\ idleCount = 0 /\ auto = 0
    BY DEF Init, Vac!Init
  <2>2. pc["vacuumer"] = "sleep"
    BY <1>0, <2>1
  <2>3. idle \in BOOLEAN
    BY <2>1
  <2>4. idleCount \in 0..(RequiredIdle - 1) /\ auto \in 0..MaxRuns
    BY <1>0, <2>1
  <2> QED BY <2>2, <2>3, <2>4 DEF VacBounds
<1>2. VacTypes /\ VacBounds /\ [Next]_vars => VacBounds'
  <2> SUFFICES ASSUME VacTypes, VacBounds, Vac!Next \/ UNCHANGED vacuumVars PROVE VacBounds'
    BY StepOfOthers
  <2>0. \A r \in Vac!Runners : \A place :
            pc' = [pc EXCEPT ![r] = place] =>
                pc'["vacuumer"] = IF r = "vacuumer" THEN place ELSE pc["vacuumer"]
    BY <1>0 DEF VacTypes
  <2>1. CASE UNCHANGED vacuumVars
    BY <2>1 DEF VacBounds, vacuumVars
  <2>2. CASE Vac!Activity
    BY <2>2 DEF VacBounds, Vac!Activity, Vac!historyVars
  <2>3. CASE Vac!WakeUp
    <3>1. idle' = idle /\ auto' = auto /\ auto < MaxRuns /\ idleCount' \in {idleCount, 0}
      BY <2>3 DEF Vac!WakeUp
    <3> QED BY <1>0, <3>1 DEF VacBounds
  <2>4. CASE Vac!CheckIdle
    <3>1. pc["vacuumer"] = "free" /\ idle' = idle /\ auto' = auto
      BY <2>4 DEF Vac!CheckIdle, Vac!historyVars
    <3>2. idleCount' \in 0..(RequiredIdle - 1)
      BY <1>0, <2>4 DEF Vac!CheckIdle, VacBounds
    <3> QED BY <3>1, <3>2 DEF VacBounds
  <2>5. ASSUME NEW r \in VacuumRequests, Vac!Ask(r) PROVE VacBounds'
    <3>1. idle' = idle /\ auto' = auto /\ idleCount' = idleCount
      BY <2>5 DEF Vac!Ask
    <3>2. pc' = [pc EXCEPT ![r] = "end"] \/ pc' = [pc EXCEPT ![r] = "start"]
      BY <2>5 DEF Vac!Ask, Vac!Go
    <3>3. pc'["vacuumer"] = pc["vacuumer"]
      BY <1>0, <2>0, <3>2
    <3> QED BY <3>1, <3>3 DEF VacBounds
  <2>6. ASSUME NEW r \in Vac!Runners, Vac!Start(r) PROVE VacBounds'
    <3>1. /\ idle' = idle /\ idleCount' = idleCount /\ pc[r] = "start"
          /\ auto' = (IF r = "vacuumer" THEN auto + 1 ELSE auto)
          /\ pc' = [pc EXCEPT ![r] = "queued"]
      BY <2>6 DEF Vac!Start, Vac!Go
    <3>2. pc'["vacuumer"] = IF r = "vacuumer" THEN "queued" ELSE pc["vacuumer"]
      BY <2>0, <3>1
    <3> QED BY <1>0, <3>1, <3>2 DEF VacBounds
  <2>7. ASSUME NEW r \in Vac!Runners,
               Vac!Execute(r) \/ Vac!Clear(r) \/ Vac!ReadTotal(r) \/ Vac!WriteTotal(r)
        PROVE  VacBounds'
    <3>1. idle' = idle /\ auto' = auto /\ idleCount' = idleCount
      BY <2>7 DEF Vac!Execute, Vac!Clear, Vac!ReadTotal, Vac!WriteTotal, Vac!historyVars
    <3>2. \E place \in {"answered", "count", "add", "sleep", "end"} : pc' = [pc EXCEPT ![r] = place]
      BY <2>7 DEF Vac!Execute, Vac!Clear, Vac!ReadTotal, Vac!WriteTotal, Vac!Go, Vac!Home
    <3>3. pc'["vacuumer"] \in {"answered", "count", "add", "sleep", "end", pc["vacuumer"]}
      BY <2>0, <3>2
    <3> QED BY <3>1, <3>3 DEF VacBounds
  <2> QED BY <2>1, <2>2, <2>3, <2>4, <2>5, <2>6, <2>7 DEF Vac!Next, Vac!RunnerStep
<1>3. VacInv => VacTypes
  BY DEF VacInv
<1>4. VacTypes /\ VacBounds => Vac!TypeOK
  BY DEF VacTypes, VacBounds, Vac!TypeOK
<1> QED BY <1>1, <1>2, <1>3, <1>4, VacInvariance, PTL DEF Spec

(* Ids do not go beyond the jobs submitted, a reset lets them fall behind. *)
AdminBounds ==
    /\ second <= TableTime /\ lastId <= submitted /\ submitted <= MaxJobs
    /\ letters \subseteq 1..MaxJobs
    /\ \A e \in Executors : work[e].next # "reserve" => work[e].id \in 1..MaxJobs

LEMMA AdministrationTypes == Spec => []Admin!TypeOK
<1>0. MaxJobs \in Nat /\ TableTime \in Nat
  BY ConstantsAssumption DEF Admin!ConstantsOK
<1>1. Init => AdminBounds
  BY <1>0 DEF Init, Admin!Init, Admin!Idle, AdminBounds
<1>2. AdminTypes /\ AdminBounds /\ [Next]_vars => AdminBounds'
  <2> SUFFICES ASSUME AdminTypes, AdminBounds, Admin!Next \/ UNCHANGED adminVars PROVE AdminBounds'
    BY StepOfOthers
  <2> USE <1>0
  <2>0. work \in [Executors -> [id : Nat, attempts : Nat, next : {"reserve", "report", "letter"},
                                submission : Nat]]
        /\ lastId \in Nat /\ submitted \in Nat /\ second \in Nat /\ DOMAIN rows \subseteq 1..lastId
    BY DEF AdminTypes
  <2>1. CASE UNCHANGED adminVars
    BY <2>1 DEF AdminBounds, adminVars
  <2>2. CASE Admin!Submit \/ Admin!Tick
    BY <2>0, <2>2 DEF Admin!Submit, Admin!Tick, AdminBounds
  <2>3. ASSUME NEW e \in Executors, Admin!Reserve(e) PROVE AdminBounds'
    <3>1. PICK i \in DOMAIN rows : work' = [work EXCEPT ![e] =
                [id |-> i, attempts |-> rows[i].attempts + 1, next |-> "report",
                 submission |-> rows[i].submission]]
      BY <2>3 DEF Admin!Reserve, Admin!WithStatus
    <3>2. i \in 1..MaxJobs
      BY <2>0 DEF AdminBounds
    <3> QED BY <2>0, <2>3, <3>1, <3>2 DEF Admin!Reserve, AdminBounds
  <2>4. ASSUME NEW e \in Executors, Admin!Report(e) PROVE AdminBounds'
    <3>1. PICK status1 \in {"done", "pending", "failed"} :
            work' = [work EXCEPT ![e] = IF status1 = "failed" THEN [@ EXCEPT !.next = "letter"]
                                                              ELSE Admin!Idle]
      BY <2>4 DEF Admin!Report
    <3>2. work[e].id \in 1..MaxJobs
      BY <2>4 DEF Admin!Report, AdminBounds
    <3>3. \A x \in Executors : work'[x].next # "reserve" => work'[x].id \in 1..MaxJobs
      BY <2>0, <3>1, <3>2 DEF AdminBounds, Admin!Idle
    <3> QED BY <2>4, <3>3 DEF Admin!Report, AdminBounds
  <2>5. ASSUME NEW e \in Executors, Admin!InsertLetter(e) PROVE AdminBounds'
    <3>1. work[e].id \in 1..MaxJobs
      BY <2>5 DEF Admin!InsertLetter, AdminBounds
    <3>2. \A x \in Executors : work'[x].next # "reserve" => work'[x].id \in 1..MaxJobs
      BY <2>0, <2>5 DEF Admin!InsertLetter, AdminBounds, Admin!Idle
    <3> QED BY <2>5, <3>1, <3>2 DEF Admin!InsertLetter, AdminBounds
  <2>6. ASSUME NEW a \in Admins, Admin!AdminStep(a) PROVE AdminBounds'
    <3>1. second' = second /\ submitted' = submitted /\ work' = work
      BY <2>6 DEF Admin!AdminStep, Admin!Retry, Admin!RetryUnletter, Admin!Clear, Admin!ClearRows, Admin!Reset
    <3>2. letters' \subseteq letters
      BY <2>6 DEF Admin!AdminStep, Admin!Retry, Admin!RetryUnletter, Admin!Clear, Admin!ClearRows, Admin!Reset
    <3>3. lastId' \in {lastId, 0}
      BY <2>6 DEF Admin!AdminStep, Admin!Retry, Admin!RetryUnletter, Admin!Clear, Admin!ClearRows, Admin!Reset
    <3> QED BY <2>0, <3>1, <3>2, <3>3 DEF AdminBounds
  <2> QED BY <2>1, <2>2, <2>3, <2>4, <2>5, <2>6 DEF Admin!Next
<1>3. AdminInv => AdminTypes
  BY DEF AdminInv
<1>4. AdminTypes /\ AdminBounds => Admin!TypeOK
  BY <1>0 DEF AdminTypes, AdminBounds, Admin!TypeOK
<1> QED BY <1>1, <1>2, <1>3, <1>4, AdminInvariance, PTL DEF Spec

LEMMA RateTypes == Spec => []Rate!TypeOK
<1>0. RateTime \in Nat
  BY ConstantsAssumption DEF Rate!ConstantsOK
<1>1. Init => Rate!TypeOK
  BY <1>0 DEF Init, Rate!Init, Rate!TypeOK
<1>2. Rate!TypeOK /\ RateInv /\ [Next]_vars => Rate!TypeOK'
  <2> SUFFICES ASSUME Rate!TypeOK, RateInv, Rate!Next \/ UNCHANGED rateVars PROVE Rate!TypeOK'
    BY StepOfRate
  <2> USE <1>0 DEF Rate!TypeOK
  <2>1. CASE UNCHANGED rateVars
    BY <2>1 DEF rateVars
  <2>2. CASE Rate!Grant
    <3>1. Rate!Cardinality(granted) \in Nat
      BY RateCardinality, FS_CardinalityType DEF RateInv
    <3>2. Rate!Stamp \in [nr : Nat, at : 0..RateTime]
      BY <3>1 DEF Rate!Stamp
    <3> QED BY <2>2, <3>2 DEF Rate!Grant, Rate!Recent
  <2>3. CASE Rate!Refuse
    BY <2>3 DEF Rate!Refuse, Rate!Recent
  <2>4. CASE Rate!SetLimit \/ Rate!RemoveLimit
    BY <2>4 DEF Rate!SetLimit, Rate!RemoveLimit
  <2>5. CASE Rate!Tick
    BY <2>5 DEF Rate!Tick, Rate!limiterVars
  <2> QED BY <2>1, <2>2, <2>3, <2>4, <2>5 DEF Rate!Next
<1> QED BY <1>1, <1>2, RateInvariance, PTL DEF Spec

(* A goroutine is started with a free place in the semaphore, for the one  *)
(* job that waits for it.                                                  *)
ClientBounds ==
    /\ pinging \in BOOLEAN /\ raced \in BOOLEAN /\ stopped \in BOOLEAN
    /\ loop = "acquire" => taken # {}
    /\ IsFiniteSet(goroutines) /\ Cardinality(goroutines) <= Concurrency

LEMMA ClientCardinality == \A S : Client!Cardinality(S) = Cardinality(S)
  BY DEF Client!Cardinality, Cardinality

LEMMA ClientTypesKept == Spec => []Client!TypeOK
<1>0. Concurrency \in Nat \ {0}
  BY ConstantsAssumption DEF Client!ConstantsOK
<1>1. Init => ClientBounds
  <2> SUFFICES ASSUME Init PROVE ClientBounds
    OBVIOUS
  <2>1. /\ loop = "dial" /\ goroutines = {} /\ pinging = FALSE /\ raced = FALSE /\ stopped = FALSE
    BY DEF Init, Client!Init
  <2>2. pinging \in BOOLEAN /\ raced \in BOOLEAN /\ stopped \in BOOLEAN
    BY <2>1
  <2>3. IsFiniteSet(goroutines) /\ Cardinality(goroutines) = 0
    BY <2>1, FS_EmptySet
  <2> QED BY <1>0, <2>1, <2>2, <2>3 DEF ClientBounds
<1>2. ClientInv /\ ClientBounds /\ [Next]_vars => ClientBounds'
  <2> SUFFICES ASSUME ClientInv, ClientBounds, Client!Next \/ UNCHANGED clientVars
               PROVE  ClientBounds'
    BY StepOfOthers
  <2>0. IsFiniteSet(goroutines) /\ Cardinality(goroutines) <= Concurrency
    BY DEF ClientBounds
  <2>1. CASE UNCHANGED clientVars
    BY <2>1 DEF ClientBounds, clientVars
  <2>2. ASSUME goroutines' \subseteq goroutines
        PROVE  IsFiniteSet(goroutines') /\ Cardinality(goroutines') <= Concurrency
    <3>1. /\ IsFiniteSet(goroutines') /\ Cardinality(goroutines') <= Cardinality(goroutines)
          /\ Cardinality(goroutines') \in Nat /\ Cardinality(goroutines) \in Nat
      BY <2>0, <2>2, FS_Subset, FS_CardinalityType
    <3> QED BY <1>0, <2>0, <3>1
  <2> USE DEF Client!linkVars, Client!jobVars, Client!pingVars, Client!wireLog
  <2>3. ASSUME NEW t \in Tasks, Client!SendJob(t) PROVE ClientBounds'
    BY <2>2, <2>3 DEF ClientBounds, Client!SendJob
  <2>4. CASE Client!Drop \/ Client!Stop
    BY <2>2, <2>4 DEF ClientBounds, Client!Drop, Client!Stop
  <2>5. CASE Client!Return \/ Client!DialFails \/ Client!WakeUp \/ Client!ReadFails
    BY <2>2, <2>5 DEF ClientBounds, Client!Return, Client!DialFails, Client!WakeUp, Client!ReadFails
  <2>6. CASE Client!Dial \/ Client!ReadJob
    BY <2>2, <2>6 DEF ClientBounds, Client!Dial, Client!ReadJob
  <2>7. CASE Client!Panic
    BY <2>2, <2>7 DEF ClientBounds, Client!Panic
  <2>8. CASE (Client!Ping /\ ~Client!Panic) \/ Client!PingEnds
    BY <2>2, <2>8 DEF ClientBounds, Client!Ping, Client!PingEnds, Client!Writing
  <2>9. CASE Client!StartJob
    <3>1. /\ Cardinality(goroutines) < Concurrency
          /\ goroutines' = goroutines
                \cup {[task |-> t, link |-> link, at |-> "executing"] : t \in taken}
          /\ loop' = "read" /\ UNCHANGED <<pinging, raced, stopped>>
      BY <2>9, ClientCardinality DEF Client!StartJob
    <3>2. \E t : taken \subseteq {t}
      BY DEF ClientInv, InOnePlace
    <3>3. PICK t : taken \subseteq {t}
      BY <3>2
    <3>4. \E g : goroutines' = goroutines \/ goroutines' = goroutines \cup {g}
      <4>1. taken = {} \/ taken = {t}
        BY <3>3
      <4> QED BY <3>1, <4>1
    <3>5. PICK g : goroutines' = goroutines \/ goroutines' = goroutines \cup {g}
      BY <3>4
    <3>6. IsFiniteSet(goroutines') /\ Cardinality(goroutines') <= Cardinality(goroutines) + 1
      BY <2>0, <3>5, FS_AddElement, FS_CardinalityType
    <3>7. Cardinality(goroutines') \in Nat /\ Cardinality(goroutines) \in Nat
      BY <2>0, <3>6, FS_CardinalityType
    <3>8. Cardinality(goroutines') <= Concurrency
      BY <1>0, <3>1, <3>6, <3>7
    <3> QED BY <3>1, <3>6, <3>8 DEF ClientBounds
  <2>10. ASSUME NEW g \in goroutines, Client!SendResult(g), ~Client!Panic PROVE ClientBounds'
    <3>1. PICK h : goroutines' = (goroutines \ {g}) \cup {h}
      BY <2>10 DEF Client!SendResult
    <3>2. loop' = loop /\ taken' = taken /\ raced' \in BOOLEAN /\ UNCHANGED <<pinging, stopped>>
      BY <2>10 DEF Client!SendResult, Client!Writing, ClientBounds
    <3>3. /\ IsFiniteSet(goroutines \ {g}) /\ Cardinality(goroutines) \in Nat
          /\ Cardinality(goroutines \ {g}) = Cardinality(goroutines) - 1
      BY <2>0, <2>10, FS_RemoveElement, FS_CardinalityType
    <3>4. IsFiniteSet(goroutines') /\ Cardinality(goroutines') <= Cardinality(goroutines)
      BY <3>1, <3>3, FS_AddElement
    <3>5. Cardinality(goroutines') \in Nat
      BY <3>4, FS_CardinalityType
    <3> QED BY <1>0, <2>0, <3>2, <3>3, <3>4, <3>5 DEF ClientBounds
  <2>11. ASSUME NEW g \in goroutines, Client!Finish(g) PROVE ClientBounds'
    BY <2>2, <2>11 DEF ClientBounds, Client!Finish
  <2>12. \A g : Client!SendResult(g) \/ Client!Finish(g) => g \in goroutines
    BY DEF Client!SendResult, Client!Finish
  <2> QED BY <2>1, <2>3, <2>4, <2>5, <2>6, <2>7, <2>8, <2>9, <2>10, <2>11, <2>12
          DEF Client!Next, Client!LoopStep, Client!Handler, Client!Goroutine
<1>3. ClientInv /\ ClientBounds => Client!TypeOK
  <2> SUFFICES ASSUME ClientInv, ClientBounds PROVE Client!TypeOK
    OBVIOUS
  <2>1. goroutines \subseteq [task : Tasks, link : Client!Links, at : {"executing", "writing"}]
    <3>1. link \in 0..MaxLinks /\ MaxLinks \in Nat
      BY DEF ClientInv, ClientTypes
    <3>2. 1..link \subseteq Client!Links
      BY <3>1 DEF Client!Links
    <3> QED BY <3>2 DEF ClientInv, ClientTypes
  <2>2. Client!Alive => (taken # {} <=> loop = "acquire")
    BY DEF ClientInv, ClientBounds, Client!Alive
  <2>3. Client!Cardinality(goroutines) <= Concurrency
    BY ClientCardinality DEF ClientBounds
  <2> QED BY <2>1, <2>2, <2>3 DEF ClientInv, ClientTypes, ClientBounds, Client!TypeOK
<1> QED BY <1>1, <1>2, <1>3, ClientInvariance, PTL DEF Spec

-----------------------------------------------------------------------------
(* Every header is made of bytes, and a length that is read is a number    *)
(* also from a header that was cut off.                                    *)
LEMMA BytesInSeq ==
    ASSUME NEW S, NEW a \in S, NEW b \in S
    PROVE  /\ <<a, b>> \in Seq(S)
           /\ \A c \in S, d \in S : <<a, b, c, d>> \in Seq(S)
           /\ \A c \in S, d \in S, e \in S, f \in S, g \in S, h \in S, i \in S, j \in S :
                    <<a, b, c, d, e, f, g, h, i, j>> \in Seq(S)
  OBVIOUS

LEMMA NatOfBytes ==
    ASSUME NEW h, h[3] \in Nat, h[4] \in Nat, h[5] \in Nat, h[6] \in Nat,
           h[7] \in Nat, h[8] \in Nat, h[9] \in Nat, h[10] \in Nat
    PROVE  /\ h[3] * 256 + h[4] \in Nat
           /\ ((((((h[3] * 256 + h[4]) * 256 + h[5]) * 256 + h[6]) * 256 + h[7]) * 256 + h[8])
                * 256 + h[9]) * 256 + h[10] \in Nat
<1>1. \A a \in Nat, b \in Nat : a * 256 + b \in Nat
  OBVIOUS
<1>2. PICK n4 \in Nat : n4 = h[3] * 256 + h[4]
  BY <1>1
<1>3. PICK n5 \in Nat : n5 = n4 * 256 + h[5]
  BY <1>1
<1>4. PICK n6 \in Nat : n6 = n5 * 256 + h[6]
  BY <1>1
<1>5. PICK n7 \in Nat : n7 = n6 * 256 + h[7]
  BY <1>1
<1>6. PICK n8 \in Nat : n8 = n7 * 256 + h[8]
  BY <1>1
<1>7. PICK n9 \in Nat : n9 = n8 * 256 + h[9]
  BY <1>1
<1>8. PICK n10 \in Nat : n10 = n9 * 256 + h[10]
  BY <1>1
<1> QED BY <1>2, <1>3, <1>4, <1>5, <1>6, <1>7, <1>8

LEMMA HeaderBytes ==
    ASSUME NEW f \in Wire!Frame PROVE Wire!ClientHeader(f) \in Seq(0..255)
<1>1. f.length \in Nat /\ f.opcode \in {1, 8, 9, 10}
  BY FrameLengths DEF Wire!Frame, Wire!Text, Wire!Close, Wire!Ping, Wire!Pong
<1>2. PICK n : n = f.length
  OBVIOUS
<1>3. PICK b0, b1, b2, b3 :
            b0 = Wire!Low(n, 0) /\ b1 = Wire!Low(n, 1) /\ b2 = Wire!Low(n, 2) /\ b3 = Wire!Low(n, 3)
  OBVIOUS
<1>4. /\ b0 = (n \div 256^0) % 256 /\ b1 = (n \div 256^1) % 256
      /\ b2 = (n \div 256^2) % 256 /\ b3 = (n \div 256^3) % 256
  BY <1>3 DEF Wire!Low
<1>5. b0 \in 0..255 /\ b1 \in 0..255 /\ b2 \in 0..255 /\ b3 \in 0..255
  <2>1. 256^0 = 1 /\ 256^1 = 256 /\ 256^2 = 65536 /\ 256^3 = 16777216
    OBVIOUS
  <2>2. PICK q0 \in Int, q1 \in Int, q2 \in Int, q3 \in Int :
            q0 = n \div 1 /\ q1 = n \div 256 /\ q2 = n \div 65536 /\ q3 = n \div 16777216
    BY <1>1, <1>2
  <2>3. b0 = q0 % 256 /\ b1 = q1 % 256 /\ b2 = q2 % 256 /\ b3 = q3 % 256
    BY <1>4, <2>1, <2>2
  <2> QED BY <2>3
<1>6. PICK Byte : Byte = 0..255
  OBVIOUS
<1>7. /\ b0 \in Byte /\ b1 \in Byte /\ b2 \in Byte /\ b3 \in Byte
      /\ 254 \in Byte /\ 255 \in Byte /\ 0 \in Byte
      /\ 128 + f.opcode \in Byte /\ (n < 126 => 128 + n \in Byte)
  BY <1>1, <1>2, <1>5, <1>6
<1>8. /\ n < 126 => Wire!ClientHeader(f) = <<128 + f.opcode, 128 + n>>
      /\ n >= 126 /\ n < 65536 => Wire!ClientHeader(f) = <<128 + f.opcode, 254, b1, b0>>
      /\ n >= 65536 => Wire!ClientHeader(f) = <<128 + f.opcode, 255, 0, 0, 0, 0, b3, b2, b1, b0>>
  BY <1>1, <1>2, <1>3 DEF Wire!ClientHeader
<1>9. PICK first : first = 128 + f.opcode
  OBVIOUS
<1>10. CASE n < 126
  <2>1. PICK next : next = 128 + n
    OBVIOUS
  <2>2. Wire!ClientHeader(f) = <<first, next>> /\ first \in Byte /\ next \in Byte
    BY <1>7, <1>8, <1>9, <1>10, <2>1
  <2>3. <<first, next>> \in Seq(Byte)
    BY <2>2, BytesInSeq
  <2> QED BY <1>6, <2>2, <2>3
<1>11. CASE n >= 126 /\ n < 65536
  <2>1. Wire!ClientHeader(f) = <<first, 254, b1, b0>> /\ first \in Byte
    BY <1>7, <1>8, <1>9, <1>11
  <2>2. <<first, 254, b1, b0>> \in Seq(Byte)
    BY <1>7, <2>1, BytesInSeq
  <2> QED BY <1>6, <2>1, <2>2
<1>12. CASE n >= 65536
  <2>1. Wire!ClientHeader(f) = <<first, 255, 0, 0, 0, 0, b3, b2, b1, b0>> /\ first \in Byte
    BY <1>7, <1>8, <1>9, <1>12
  <2>2. <<first, 255, 0, 0, 0, 0, b3, b2, b1, b0>> \in Seq(Byte)
    BY <1>7, <2>1, BytesInSeq
  <2> QED BY <1>6, <2>1, <2>2
<1> QED BY <1>1, <1>2, <1>10, <1>11, <1>12

LEMMA LengthIsRead ==
    ASSUME NEW Byte, Byte \subseteq Nat, NEW h \in Seq(Byte), NEW n \in Nat
    PROVE  Wire!ReadLength(Wire!Padded(h, n)) \in Nat
<1>1. PICK p : p = Wire!Padded(h, n)
  OBVIOUS
<1>2. \A i \in 1..10 : p[i] \in Nat
  <2>1. \A i \in 1..10 : i <= Len(h) => h[i] \in Nat
    <3> SUFFICES ASSUME NEW i \in 1..10, i <= Len(h) PROVE h[i] \in Nat
      OBVIOUS
    <3>1. Len(h) \in Nat /\ DOMAIN h = 1..Len(h)
      OBVIOUS
    <3>2. i \in 1..Len(h)
      BY <3>1
    <3>3. h[i] \in Byte
      BY <3>1, <3>2
    <3> QED BY <3>3
  <2>2. \A i \in 1..10 : p[i] = IF i <= n /\ i <= Len(h) THEN h[i] ELSE 0
    BY <1>1, PaddedBytes
  <2> SUFFICES ASSUME NEW i \in 1..10 PROVE p[i] \in Nat
    OBVIOUS
  <2>3. (p[i] = h[i] /\ i <= Len(h)) \/ p[i] = 0
    BY <2>2
  <2> QED BY <2>1, <2>3
<1>3. /\ p[2] \in Nat /\ p[3] \in Nat /\ p[4] \in Nat /\ p[5] \in Nat /\ p[6] \in Nat
      /\ p[7] \in Nat /\ p[8] \in Nat /\ p[9] \in Nat /\ p[10] \in Nat
  BY <1>2
<1>4. CASE p[2] % 128 = 126
  <2>1. Wire!Number(p, 3, 4) = p[3] * 256 + p[4]
    BY <1>3, NumberOfTwo
  <2>2. p[3] * 256 + p[4] \in Nat
    BY <1>3, NatOfBytes
  <2> QED BY <1>1, <1>4, <2>1, <2>2 DEF Wire!ReadLength
<1>5. CASE p[2] % 128 = 127
  <2>1. Wire!Number(p, 3, 10) =
            ((((((p[3] * 256 + p[4]) * 256 + p[5]) * 256 + p[6]) * 256 + p[7]) * 256 + p[8])
                * 256 + p[9]) * 256 + p[10]
    BY <1>3, NumberOfEight
  <2>2. ((((((p[3] * 256 + p[4]) * 256 + p[5]) * 256 + p[6]) * 256 + p[7]) * 256 + p[8])
                * 256 + p[9]) * 256 + p[10] \in Nat
    BY <1>3, NatOfBytes
  <2>3. Wire!ReadLength(p) = Wire!Number(p, 3, 10)
    BY <1>5 DEF Wire!ReadLength
  <2> QED BY <1>1, <2>1, <2>2, <2>3
<1>6. CASE p[2] % 128 # 126 /\ p[2] % 128 # 127
  <2>1. Wire!ReadLength(p) = p[2] % 128
    BY <1>3, <1>6, ReadLengthShort
  <2>2. p[2] % 128 \in Nat
    BY <1>3
  <2> QED BY <1>1, <2>1, <2>2
<1> QED BY <1>4, <1>5, <1>6

WireBounds ==
    /\ sent \in Seq(Wire!Frame) /\ Len(sent) <= MaxFrames
    /\ \A i \in DOMAIN wire : wire[i].header \in Seq(0..255) /\ wire[i].got \in 0..10
    /\ \A i \in DOMAIN returned : returned[i].length >= 0
    /\ broken \in BOOLEAN /\ ended \in BOOLEAN

LEMMA WireTypes == Spec => []Wire!TypeOK
<1>0. MaxFrames \in Nat
  BY ConstantsAssumption DEF Wire!ConstantsOK
<1>1. Init => WireBounds
  <2> SUFFICES ASSUME Init PROVE WireBounds
    OBVIOUS
  <2>1. wire = <<>> /\ sent = <<>> /\ returned = <<>> /\ broken = FALSE /\ ended = FALSE
    BY DEF Init, Wire!Init
  <2>2. sent \in Seq(Wire!Frame) /\ Len(sent) = 0
    BY <2>1
  <2>3. broken \in BOOLEAN /\ ended \in BOOLEAN
    BY <2>1
  <2> QED BY <1>0, <2>1, <2>2, <2>3 DEF WireBounds
<1>2. ASSUME FrameInv, WireBounds, NEW e, wire' = Append(wire, e),
             e.header \in Seq(0..255), e.got \in 0..10
      PROVE  \A i \in DOMAIN wire' : wire'[i].header \in Seq(0..255) /\ wire'[i].got \in 0..10
  <2>1. Extends(wire', wire, e) /\ DOMAIN wire = 1..Len(wire) /\ Len(wire) \in Nat
    BY <1>2, AppendExtends, LengthIsNat DEF FrameInv, OnTheWire
  <2>2. DOMAIN wire' = 1..(Len(wire) + 1)
    BY <2>1, LengthIsNat DEF Extends
  <2> QED BY <1>2, <2>1, <2>2 DEF Extends, WireBounds
<1>3. FrameInv /\ WireBounds /\ [Next]_vars => WireBounds'
  <2> SUFFICES ASSUME FrameInv, WireBounds, Wire!Next \/ UNCHANGED wireVars PROVE WireBounds'
    BY StepOfWire
  <2>1. CASE UNCHANGED wireVars
    BY <2>1 DEF WireBounds, wireVars
  <2>2. CASE Wire!Send
    <3>1. PICK f \in Wire!Frame :
            /\ wire' = Append(wire, [header |-> Wire!ClientHeader(f), got |-> 10, payload |-> f.length])
            /\ sent' = Append(sent, f)
      BY <2>2 DEF Wire!Send
    <3>2. Len(sent) < MaxFrames /\ UNCHANGED <<broken, returned, ended>>
      BY <2>2 DEF Wire!Send
    <3>3. \A i \in DOMAIN wire' : wire'[i].header \in Seq(0..255) /\ wire'[i].got \in 0..10
      <4>1. PICK e : e = [header |-> Wire!ClientHeader(f), got |-> 10, payload |-> f.length]
        OBVIOUS
      <4>2. e.header = Wire!ClientHeader(f) /\ e.got \in 0..10
        BY <4>1
      <4>3. e.header \in Seq(0..255)
        BY <4>2, HeaderBytes
      <4> QED BY <1>2, <3>1, <4>1, <4>2, <4>3
    <3>4. sent' \in Seq(Wire!Frame) /\ Len(sent') = Len(sent) + 1 /\ Len(sent) \in Nat
      BY <3>1 DEF WireBounds
    <3> QED BY <1>0, <3>2, <3>3, <3>4 DEF WireBounds
  <2>3. CASE Wire!Break
    <3>1. broken' = TRUE /\ UNCHANGED <<sent, returned, ended>>
      BY <2>3 DEF Wire!Break
    <3>2. CASE UNCHANGED wire
      BY <3>1, <3>2 DEF WireBounds
    <3>3. ASSUME NEW f \in Wire!Frame, NEW n \in 0..Len(Wire!ClientHeader(f)),
                 wire' = Append(wire, [header |-> Wire!ClientHeader(f), got |-> n, payload |-> 0])
          PROVE  WireBounds'
      <4>1. PICK e : e = [header |-> Wire!ClientHeader(f), got |-> n, payload |-> 0]
        OBVIOUS
      <4>2. Len(Wire!ClientHeader(f)) \in 0..10
        BY DEF Wire!ClientHeader
      <4>5. n \in 0..10
        <5>1. PICK len \in 0..10 : len = Len(Wire!ClientHeader(f))
          BY <4>2
        <5> QED BY <3>3, <5>1
      <4>3. e.header = Wire!ClientHeader(f) /\ e.got = n
        BY <4>1
      <4>4. e.header \in Seq(0..255) /\ e.got \in 0..10
        BY <4>3, <4>5, HeaderBytes
      <4> QED BY <1>2, <3>1, <3>3, <4>1, <4>4 DEF WireBounds
    <3> QED BY <2>3, <3>2, <3>3 DEF Wire!Break
  <2>4. CASE Wire!ReadFrame
    <3>1. /\ wire # <<>> /\ wire' = Tail(wire) /\ ended' \in BOOLEAN /\ UNCHANGED <<broken, sent>>
      BY <2>4 DEF Wire!ReadFrame
    <3>2. IsSeq(wire) /\ IsSeq(returned) /\ DOMAIN wire = 1..Len(wire)
      BY LengthIsNat DEF FrameInv, OnTheWire
    <3>3. Follows(wire', wire)
      BY <3>1, <3>2, TailFollows
    <3>4. \A i \in DOMAIN wire' : i + 1 \in DOMAIN wire /\ wire'[i] = wire[i + 1]
      BY <3>2, <3>3, LengthIsNat DEF Follows
    <3>5. \A i \in DOMAIN wire' : wire'[i].header \in Seq(0..255) /\ wire'[i].got \in 0..10
      BY <3>4 DEF WireBounds
    <3>6. Wire!ReadLength(Wire!Padded(Head(wire).header, Head(wire).got)) \in Nat
      <4>1. Head(wire) = wire[1] /\ 1 \in DOMAIN wire
        BY <3>2, <3>3 DEF Follows
      <4>2. Head(wire).header \in Seq(0..255) /\ Head(wire).got \in Nat
        BY <4>1 DEF WireBounds
      <4>3. 0..255 \subseteq Nat
        OBVIOUS
      <4> QED BY <4>2, <4>3, LengthIsRead
    <3>7. \A i \in DOMAIN returned' : returned'[i].length >= 0
      <4>1. CASE returned' = returned
        BY <4>1 DEF WireBounds
      <4>2. ASSUME NEW e, e.length \in Nat, returned' = Append(returned, e)
            PROVE  \A i \in DOMAIN returned' : returned'[i].length >= 0
        <5>1. Extends(returned', returned, e)
          BY <3>2, <4>2, AppendExtends
        <5>2. /\ Len(returned) \in Nat /\ DOMAIN returned = 1..Len(returned)
              /\ DOMAIN returned' = 1..(Len(returned) + 1)
          BY <3>2, <5>1, LengthIsNat DEF Extends
        <5> QED BY <4>2, <5>1, <5>2 DEF Extends, WireBounds
      <4>3. returned' = returned \/ \E e : e.length \in Nat /\ returned' = Append(returned, e)
        BY <2>4, <3>6 DEF Wire!ReadFrame
      <4> QED BY <4>1, <4>2, <4>3
    <3> QED BY <3>1, <3>5, <3>7 DEF WireBounds
  <2>5. CASE Wire!ReadFails
    BY <2>5 DEF Wire!ReadFails, WireBounds
  <2> QED BY <2>1, <2>2, <2>3, <2>4, <2>5 DEF Wire!Next
<1>4. FrameInv /\ WireBounds => Wire!TypeOK
  <2> SUFFICES ASSUME FrameInv, WireBounds PROVE Wire!TypeOK
    OBVIOUS
  <2>1. /\ Len(wire) \in Nat /\ Len(sent) \in Nat /\ consumed \in Nat
        /\ Len(wire) + consumed <= Len(sent) + 1 /\ Len(sent) <= MaxFrames
    BY LengthIsNat DEF FrameInv, OnTheWire, WireBounds
  <2>2. Len(wire) <= MaxFrames + 1
    BY <1>0, <2>1
  <2> QED BY <2>2 DEF WireBounds, Wire!TypeOK
<1> QED BY <1>1, <1>3, <1>4, FrameInvariance, PTL DEF Spec

(* Every component keeps its types and the bounds stated with them: a      *)
(* worker client stays within its semaphore, a dashboard's buffer within   *)
(* its capacity, a pool's counters stay natural numbers, every byte of a   *)
(* header is one, every id is a job's.                                     *)
THEOREM TypesInServices == Spec => []TypeOK
  BY RateTypes, StreamTypes, PoolTypes, BeatsTypes, VacuumTypes, CacheTypes, AdministrationTypes,
     WireTypes, LeaseTypes, ClientTypesKept, LoginTypes, StopTypes, PTL DEF TypeOK
=============================================================================
