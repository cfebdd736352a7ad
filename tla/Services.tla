----------------------------- MODULE Services -----------------------------
(***************************************************************************)
(* The services around the queue, each a component that shares no state    *)
(* with the others. A behaviour exercises one of them, named by under, and *)
(* leaves the others in their initial state.                               *)
(***************************************************************************)
EXTENDS Integers, SequencesExt

CONSTANTS
    RateLimits, RateWindow, RateTime,
    Dashboards, BufferCap, MaxChanges, MaxOwed,
    PoolRequests, PoolConfigs, ScaleUpAt, DefaultMax, MaxBacklog,
    Ids, Steady, Timeout, LastBeat, BeatTime,
    VacuumRequests, RequiredIdle, MaxRuns,
    Readers, Ttls, DefaultTtl, CacheTime,
    Executors, Admins, MaxAttempts, MaxJobs, TableTime,
    Lengths, MaxFrames,
    Remote, Local, Settings, Preset, JobTimeouts, MaxDelay, MaxLeases, LeaseTime,
    Tasks, Concurrency, MaxLinks,
    Tokens, Visits, Lifetime, SessionTime,
    Duties, Followed, Hands

VARIABLES
    under,
    now, limit, window, granted,
    table, owed, buffer, shown,
    pools, registered, backlog, asked, found,
    clock, connected, seen, stale, reaping,
    idle, running, totalRuns, idleCount, pc, outcome, read, auto, succeeded, overlapped,
    time, expires, step, got, remover,
    second, rows, lastId, letters, work, admin, submitted, crossed,
    wire, broken, sent, consumed, returned, pongs, ended,
    sec, seconds, booted, wants, row, exec,
    loop, link, up, inbox, taken, goroutines, pinging, raced, received, answers, stopped,
    hour, session, given, revoked, visit,
    stage, hand, duty, counted, status, inserts, coalescer, batches, followed, begun, inTime

Rate == INSTANCE RateLimiter WITH
    Limits <- RateLimits, Window <- RateWindow, MaxTime <- RateTime
Stream == INSTANCE EventStream
Pool   == INSTANCE Pools WITH Requests <- PoolRequests, Configs <- PoolConfigs
Beats  == INSTANCE Heartbeats WITH MaxTime <- BeatTime
Vac    == INSTANCE Vacuum WITH Requests <- VacuumRequests
Cache  == INSTANCE CacheStore WITH MaxTime <- CacheTime
Admin  == INSTANCE TableAdmin WITH MaxTime <- TableTime
Wire   == INSTANCE Frames
Lease  == INSTANCE Leases WITH MaxTime <- LeaseTime
Client == INSTANCE GoWorker
Login  == INSTANCE Sessions WITH MaxTime <- SessionTime
Stop   == INSTANCE Shutdown

ASSUME ConstantsAssumption ==
    /\ Rate!ConstantsOK /\ Stream!ConstantsOK /\ Pool!ConstantsOK /\ Beats!ConstantsOK
    /\ Vac!ConstantsOK /\ Cache!ConstantsOK /\ Admin!ConstantsOK /\ Wire!ConstantsOK
    /\ Lease!ConstantsOK /\ Client!ConstantsOK /\ Login!ConstantsOK
    /\ Stop!ConstantsOK

Components ==
    {"rate", "stream", "pool", "beats", "vacuum", "cache", "admin", "wire",
     "lease", "client", "login", "stop"}

rateVars   == <<now, limit, window, granted>>
streamVars == <<table, owed, buffer, shown>>
poolVars   == <<pools, registered, backlog, asked, found>>
beatsVars  == <<clock, connected, seen, stale, reaping>>
vacuumVars == <<idle, running, totalRuns, idleCount, pc, outcome, read,
                auto, succeeded, overlapped>>
cacheVars  == <<time, expires, step, got, remover>>
adminVars  == <<second, rows, lastId, letters, work, admin, submitted, crossed>>
wireVars   == <<wire, broken, sent, consumed, returned, pongs, ended>>
leaseVars  == <<sec, seconds, booted, wants, row, exec>>
clientVars == <<loop, link, up, inbox, taken, goroutines, pinging, raced, received, answers, stopped>>
loginVars  == <<hour, session, given, revoked, visit>>
stopVars   == <<stage, hand, duty, counted, status, inserts, coalescer, batches, followed, begun, inTime>>

vars == <<under, rateVars, streamVars, poolVars, beatsVars, vacuumVars, cacheVars,
          adminVars, wireVars, leaseVars, clientVars, loginVars, stopVars>>

Init ==
    /\ under \in Components
    /\ Rate!Init /\ Stream!Init /\ Pool!Init /\ Beats!Init
    /\ Vac!Init /\ Cache!Init /\ Admin!Init /\ Wire!Init
    /\ Lease!Init /\ Client!Init /\ Login!Init /\ Stop!Init

(* Only the component c moves. *)
Only(c) ==
    /\ under = c
    /\ UNCHANGED under
    /\ c = "rate"   \/ UNCHANGED rateVars
    /\ c = "stream" \/ UNCHANGED streamVars
    /\ c = "pool"   \/ UNCHANGED poolVars
    /\ c = "beats"  \/ UNCHANGED beatsVars
    /\ c = "vacuum" \/ UNCHANGED vacuumVars
    /\ c = "cache"  \/ UNCHANGED cacheVars
    /\ c = "admin"  \/ UNCHANGED adminVars
    /\ c = "wire"   \/ UNCHANGED wireVars
    /\ c = "lease"  \/ UNCHANGED leaseVars
    /\ c = "client" \/ UNCHANGED clientVars
    /\ c = "login"  \/ UNCHANGED loginVars
    /\ c = "stop"   \/ UNCHANGED stopVars

Next ==
    \/ Only("rate")   /\ Rate!Next
    \/ Only("stream") /\ Stream!Next
    \/ Only("pool")   /\ Pool!Next
    \/ Only("beats")  /\ Beats!Next
    \/ Only("vacuum") /\ Vac!Next
    \/ Only("cache")  /\ Cache!Next
    \/ Only("admin")  /\ Admin!Next
    \/ Only("wire")   /\ Wire!Next
    \/ Only("lease")  /\ Lease!Next
    \/ Only("client") /\ Client!Next
    \/ Only("login")  /\ Login!Next
    \/ Only("stop")   /\ Stop!Next

(* Each component's own fairness. Since only one of them moves in a        *)
(* behaviour, the conditions of different components are stated together:  *)
(* the i-th holds for the i-th process of the component that moves.        *)
Processes ==
    [stream |-> SetToSeq(Stream!MustRun), pool   |-> SetToSeq(Pool!MustRun),
     beats  |-> SetToSeq(Beats!MustRun),  client |-> SetToSeq(Client!MustRun)]

MustStep(c, k) ==
    \/ c = "stream" /\ Stream!MustStep(k) /\ Only("stream")
    \/ c = "pool"   /\ Pool!MustStep(k)   /\ Only("pool")
    \/ c = "beats"  /\ Beats!MustStep(k)  /\ Only("beats")
    \/ c = "client" /\ Client!MustStep(k) /\ Only("client")

StepOf(i) ==
    \E c \in DOMAIN Processes :
        /\ under = c
        /\ i <= Len(Processes[c])
        /\ MustStep(c, Processes[c][i])

MostProcesses == Max({Len(Processes[c]) : c \in DOMAIN Processes})

Fairness == \A i \in 1..MostProcesses : WF_vars(StepOf(i))

Spec == Init /\ [][Next]_vars /\ Fairness

-----------------------------------------------------------------------------
(* Properties: those of the components, where they are explained           *)

(* Every component keeps its types. *)
TypeOK ==
    /\ Rate!TypeOK /\ Stream!TypeOK /\ Pool!TypeOK /\ Beats!TypeOK
    /\ Vac!TypeOK /\ Cache!TypeOK /\ Admin!TypeOK /\ Wire!TypeOK
    /\ Lease!TypeOK /\ Client!TypeOK /\ Login!TypeOK /\ Stop!TypeOK

(* p2.go: no window of the given length sees more jobs than the limit. *)
AtMostLimit == Rate!AtMostLimit

(* main.go: a dashboard that stays comes to show every announced change. *)
DashboardCatchesUp == Stream!DashboardCatchesUp

(* autoscale.go: a lasting backlog gets all the goroutines allowed. *)
BacklogScalesUp == Pool!BacklogScalesUp

(* p2.go: a worker that beats in time is never unregistered by the reaper. *)
SteadyStay == Beats!SteadyStay

(* p2.go: nothing is left in the end of a worker that fell silent. *)
SilentAreForgotten == Beats!SilentAreForgotten

(* main.go: vacuumState agrees with the VACUUMs that run and have run. *)
StateTellsTruth == Vac!StateTellsTruth

(* cache.go: an entry that is not expired is not cleaned up. *)
LiveEntriesStay == Cache!LiveEntriesStay

(* main.go: administration leaves every failed job its dead letter. *)
FailedHasLetter == Admin!FailedHasLetter

(* backend.go, main.go: a job's id is not given away while it executes. *)
ExecutorsKeepTheirJob == Admin!ExecutorsKeepTheirJob

(* ws.go: messages come in order and whole, and pings are answered. *)
FramesAgree == Wire!FramesAgree

(* main.go: no job is taken from an executor that is in its time, where    *)
(* the stale timeout covers that time.                                     *)
LiveLeaseIsKept == Lease!LiveLeaseIsKept

(* examples/goworker: what the server takes for granted of its clients.    *)
AnswersAsAsked == Client!AnswersAsAsked

(* examples/goworker: jobs left over from lost connections do not keep the *)
(* client from answering.                                                  *)
EveryJobAnswered == Client!EveryJobAnswered

(* auth.go: sessions end when they expire or are logged out, not before.   *)
SessionsEndOnTime == Login!SessionsEndOnTime

(* main.go: a shutdown that ends by itself has left no job half done.      *)
BegunAreAwaited == Stop!BegunAreAwaited
===========================================================================
