---------------------------- MODULE Heartbeats ----------------------------
(***************************************************************************)
(* Heartbeats of WebSocket workers: the table of when each worker was last *)
(* heard of, POST /api/workers/{id}/heartbeat which writes it, and the     *)
(* reaper that unregisters workers which fell silent. A worker that never  *)
(* sends a heartbeat is not in the table and never reaped. What losing its *)
(* registration means for a worker and its job is in WsDispatch.           *)
(***************************************************************************)
EXTENDS Integers

CONSTANTS
    Ids,       \* ids that workers get when they connect, each only once
    Steady,    \* workers that stay connected and beat once in every Timeout
    Timeout,   \* heartbeatTimeout, 60 seconds in the code
    LastBeat,  \* bound: workers that are not steady beat no later than this
    MaxTime    \* bound on the clock

ConstantsOK ==
    /\ Steady \subseteq Ids
    /\ Timeout \in Nat \ {0} /\ LastBeat \in Nat
    /\ MaxTime \in Nat /\ MaxTime > LastBeat + Timeout

VARIABLES
    clock,      \* time.Now().Unix()
    connected,  \* "new", "registered" in the hub, or "gone" from it
    seen,       \* workerLastSeen.seen, -1 where there is no entry
    stale,      \* reaper local: the workers it has still to deal with
    reaping     \* reaper local: workers unregistered, to be forgotten next

reaperVars == <<stale, reaping>>
vars == <<clock, connected, seen, reaperVars>>

Init ==
    /\ clock = 0
    /\ connected = [w \in Ids |-> "new"]
    /\ seen = [w \in Ids |-> -1]
    /\ stale = {}
    /\ reaping = {}

Connect(w) ==
    /\ connected[w] = "new"
    /\ connected' = [connected EXCEPT ![w] = "registered"]
    /\ UNCHANGED <<clock, seen, reaperVars>>

(* The handler's deferred unregister; nothing removes the heartbeat. *)
Disconnect(w) ==
    /\ w \notin Steady
    /\ connected[w] = "registered"
    /\ connected' = [connected EXCEPT ![w] = "gone"]
    /\ UNCHANGED <<clock, seen, reaperVars>>

(* updateHeartbeat, which does not ask whether the worker is registered *)
Beat(w) ==
    /\ connected[w] # "new"
    /\ w \in Steady \/ clock <= LastBeat
    /\ seen' = [seen EXCEPT ![w] = clock]
    /\ UNCHANGED <<clock, connected, reaperVars>>

(* Slip: the timeout itself counts as silence. *)
ScanAtTimeout ==
    /\ stale = {}
    /\ stale' = {w \in Ids : seen[w] # -1 /\ clock - seen[w] >= Timeout}
    /\ UNCHANGED <<clock, connected, seen, reaping>>

(* Slip: entries of workers that are not registered are passed over. *)
ScanRegistered ==
    /\ stale = {}
    /\ stale' = {w \in Ids : connected[w] = "registered" /\ seen[w] # -1
                                /\ clock - seen[w] > Timeout}
    /\ UNCHANGED <<clock, connected, seen, reaping>>

(* The reaper collects the silent workers under the lock ... *)
Scan ==
    /\ stale = {}
    /\ stale' = {w \in Ids : seen[w] # -1 /\ clock - seen[w] > Timeout}
    /\ UNCHANGED <<clock, connected, seen, reaping>>

(* ... and, without it, takes each out of the hub ... *)
Unregister(w) ==
    /\ w \in stale
    /\ reaping = {}
    /\ connected' = [connected EXCEPT ![w] = "gone"]
    /\ reaping' = {w}
    /\ UNCHANGED <<clock, seen, stale>>

(* ... and out of the table, a new entry too. *)
Forget(w) ==
    /\ w \in reaping
    /\ seen' = [seen EXCEPT ![w] = -1]
    /\ stale' = stale \ {w}
    /\ reaping' = {}
    /\ UNCHANGED <<clock, connected>>

(* The clock waits for a steady worker that has to beat. *)
Tick ==
    /\ clock < MaxTime
    /\ \A w \in Steady : connected[w] = "new" \/ clock < seen[w] + Timeout
    /\ clock' = clock + 1
    /\ UNCHANGED <<connected, seen, reaperVars>>

ReaperStep == Scan \/ \E w \in Ids : Unregister(w) \/ Forget(w)

Next ==
    \/ \E w \in Ids : Connect(w) \/ Disconnect(w) \/ Beat(w)
    \/ ReaperStep
    \/ Tick

(* Time passes, steady workers beat and the reaper runs. *)
MustRun == {"tick", "reaper", "steady"}

MustStep(k) ==
    CASE k = "tick"   -> Tick
      [] k = "reaper" -> ReaperStep
      [] k = "steady" -> \E w \in Steady : Beat(w)

Spec == Init /\ [][Next]_vars /\ \A k \in MustRun : WF_vars(MustStep(k))

-----------------------------------------------------------------------------
(* Properties                                                              *)

TypeOK ==
    /\ clock \in 0..MaxTime
    /\ connected \in [Ids -> {"new", "registered", "gone"}]
    /\ seen \in [Ids -> -1..MaxTime]
    /\ stale \subseteq Ids
    /\ reaping \subseteq stale

(* A worker that beats once in every Timeout is not unregistered, however  *)
(* the reaper's scan and its two steps for each worker fall.               *)
SteadyStay == \A w \in Steady : connected[w] # "gone"

(* In the end nothing is left of a worker that fell silent after it had    *)
(* been heard of: it is out of the hub, and out of the table also if it    *)
(* had disconnected or been reaped before its last heartbeat.              *)
SilentAreForgotten ==
    \A w \in Ids \ Steady :
        seen[w] # -1 /\ clock > LastBeat ~> seen[w] = -1 /\ connected[w] = "gone"
===========================================================================
