---------------------------- MODULE JobLifecycle ----------------------------
(***************************************************************************)
(* What the queue promises about each job, whoever executes it: it is      *)
(* queued once, leased to one executor at a time, given back or finished   *)
(* only while it is leased, cancelled only while it is queued, and a job   *)
(* that is done, dead-lettered or cancelled stays so. Every lease counts   *)
(* as an attempt and a job is dead-lettered only with its attempts used    *)
(* up. A lease may end without a verdict (its worker left, timed out, was  *)
(* refused by a rate limit, or the process died): then the job is queued   *)
(* again, so execution is at least once.                                   *)
(***************************************************************************)
EXTENDS Naturals

CONSTANTS
    Jobs,       \* job ids
    Limit       \* attempts a job may use

VARIABLES
    status,     \* where each job is
    attempts    \* leases each job has had

lifecycleVars == <<status, attempts>>

Final == {"done", "failed", "cancelled"}

Init ==
    /\ status = [j \in Jobs |-> "absent"]
    /\ attempts = [j \in Jobs |-> 0]

(* The jobs of S, all of them at `from', move to `to' in one step. *)
Move(S, from, to) ==
    /\ \A j \in S : status[j] = from
    /\ status' = [j \in Jobs |-> IF j \in S THEN to ELSE status[j]]

Submit(j) == Move({j}, "absent", "pending") /\ UNCHANGED attempts

Lease(S) ==
    /\ Move(S, "pending", "running")
    /\ attempts' = [j \in Jobs |-> IF j \in S THEN attempts[j] + 1 ELSE attempts[j]]

GiveBack(S) == Move(S, "running", "pending") /\ UNCHANGED attempts

Complete(S) == Move(S, "running", "done") /\ UNCHANGED attempts

DeadLetter(j) ==
    /\ attempts[j] >= Limit[j]
    /\ Move({j}, "running", "failed")
    /\ UNCHANGED attempts

Cancel(j) == Move({j}, "pending", "cancelled") /\ UNCHANGED attempts

Next ==
    \/ \E j \in Jobs : Submit(j) \/ DeadLetter(j) \/ Cancel(j)
    \/ \E S \in SUBSET Jobs : Lease(S) \/ GiveBack(S) \/ Complete(S)

Spec == Init /\ [][Next]_lifecycleVars
=============================================================================
