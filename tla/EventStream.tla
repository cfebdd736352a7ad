---------------------------- MODULE EventStream ----------------------------
(***************************************************************************)
(* Server-sent events: dashboards subscribe with a buffered channel, a     *)
(* "refresh" is offered to each channel without blocking after some        *)
(* changes of the jobs table, and a dashboard that reads one loads         *)
(* everything anew. A full channel drops the event.                        *)
(***************************************************************************)
EXTENDS Integers

CONSTANTS
    Dashboards,  \* browsers that may subscribe
    BufferCap,   \* capacity of a subscriber's channel, 4 in the code
    MaxChanges,  \* bound on the announced changes of the table
    MaxOwed      \* bound on the broadcasts owed when a dashboard subscribes

ConstantsOK ==
    /\ BufferCap \in Nat \ {0}
    /\ MaxChanges \in Nat
    /\ MaxOwed \in Nat \ {0}

VARIABLES
    table,       \* version of the table: how many changes it has seen
    owed,        \* goroutines about to broadcast
    buffer,      \* how many events wait for each subscriber, -1 if it is none
    shown        \* the version each dashboard shows

vars == <<table, owed, buffer, shown>>

Init ==
    /\ table = 0
    /\ owed = 0
    /\ buffer = [d \in Dashboards |-> -1]
    /\ shown = [d \in Dashboards |-> 0]

Subscribers == {d \in Dashboards : buffer[d] >= 0}

(* A change that is announced: a batch of successes, a failure. *)
Change ==
    /\ table < MaxChanges
    /\ table' = table + 1
    /\ owed' = owed + 1
    /\ UNCHANGED <<buffer, shown>>

Broadcast ==
    /\ owed > 0
    /\ owed' = owed - 1
    /\ buffer' = [d \in Dashboards |->
                    IF buffer[d] \in 0..(BufferCap - 1) THEN buffer[d] + 1 ELSE buffer[d]]
    /\ UNCHANGED <<table, shown>>

(* handleSSE subscribes and has a first event broadcast to everyone; what  *)
(* the page shows was loaded some time before.                             *)
Subscribe(d) ==
    /\ buffer[d] = -1
    /\ buffer' = [buffer EXCEPT ![d] = 0]
    /\ owed' = owed + 1
    /\ owed < MaxOwed
    /\ UNCHANGED <<table, shown>>

(* The browser goes away. *)
Unsubscribe(d) ==
    /\ d \in Subscribers
    /\ buffer' = [buffer EXCEPT ![d] = -1]
    /\ UNCHANGED <<table, owed, shown>>

(* Slip: the reader empties the channel after it has loaded. *)
DeliverAll(d) ==
    /\ d \in Subscribers /\ buffer[d] > 0
    /\ \E v \in shown[d]..table : shown' = [shown EXCEPT ![d] = v]
    /\ buffer' = [buffer EXCEPT ![d] = 0]
    /\ UNCHANGED <<table, owed>>

(* An event is written to the stream and loadAll runs. *)
Deliver(d) ==
    /\ d \in Subscribers /\ buffer[d] > 0
    /\ buffer' = [buffer EXCEPT ![d] = @ - 1]
    /\ shown' = [shown EXCEPT ![d] = table]
    /\ UNCHANGED <<table, owed>>

Next ==
    \/ Change \/ Broadcast
    \/ \E d \in Dashboards : Subscribe(d) \/ Unsubscribe(d) \/ Deliver(d)

(* The broadcasting goroutines run and browsers read. *)
MustRun == {"broadcasts"} \cup Dashboards

MustStep(k) ==
    \/ k = "broadcasts" /\ Broadcast
    \/ k \in Dashboards /\ Deliver(k)

Spec == Init /\ [][Next]_vars /\ \A k \in MustRun : WF_vars(MustStep(k))

-----------------------------------------------------------------------------
(* Properties                                                              *)

TypeOK ==
    /\ table \in 0..MaxChanges
    /\ owed \in Nat
    /\ buffer \in [Dashboards -> -1..BufferCap]
    /\ shown \in [Dashboards -> 0..MaxChanges]

(* A dashboard that stays subscribed comes to show every announced change, *)
(* although events are dropped at a full channel.                          *)
DashboardCatchesUp ==
    \A d \in Dashboards : []<>(d \notin Subscribers \/ shown[d] = table)
=============================================================================
