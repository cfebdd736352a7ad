---------------------------- MODULE RateLimiter ----------------------------
(***************************************************************************)
(* The rate limiter's sliding window for one job type. Each operation is   *)
(* a critical section of rl.mu. Types share nothing but the mutex. While   *)
(* a type has no limit, jobs pass without being recorded. The order of the *)
(* times in the list is never used; numbers keep equal times apart.        *)
(***************************************************************************)
EXTENDS Integers, FiniteSets

CONSTANTS
    Limits,     \* the limits a client may set
    Window,     \* length of the window in seconds, 60 in the code
    MaxTime     \* bound on the clock

ConstantsOK ==
    /\ Limits \subseteq Nat \ {0}
    /\ Window \in Nat \ {0}
    /\ MaxTime \in Nat

VARIABLES
    now,      \* time.Stamp() in seconds
    limit,    \* limits[jobType], 0 if there is none
    window,   \* windows[jobType], times with their numbers
    granted   \* history: when jobs were allowed since the limit was set up

limiterVars == <<limit, window, granted>>
vars == <<now, limiterVars>>

Init ==
    /\ now = 0
    /\ limit = 0
    /\ window = {}
    /\ granted = {}

Recent(times) == {t \in times : t.at > now - Window}

Stamp == [nr |-> Cardinality(granted) + 1, at |-> now]

(* Slip: the cutoff is a second late. *)
GrantTooEarly ==
    LET valid == {t \in window : t.at > now - Window + 1}
    IN  /\ limit > 0
        /\ Cardinality(valid) < limit
        /\ window' = valid \cup {Stamp}
        /\ granted' = granted \cup {Stamp}
        /\ UNCHANGED <<now, limit>>

(* Allow, with room in the window *)
Grant ==
    /\ limit > 0
    /\ Cardinality(Recent(window)) < limit
    /\ window' = Recent(window) \cup {Stamp}
    /\ granted' = granted \cup {Stamp}
    /\ UNCHANGED <<now, limit>>

(* Allow, with the window full *)
Refuse ==
    /\ limit > 0
    /\ Cardinality(Recent(window)) >= limit
    /\ window' = Recent(window)
    /\ UNCHANGED <<now, limit, granted>>

SetLimit ==
    /\ limit' \in Limits
    /\ UNCHANGED <<now, window, granted>>

(* The window goes with the limit. *)
RemoveLimit ==
    /\ limit' = 0
    /\ window' = {}
    /\ granted' = {}
    /\ UNCHANGED now

Tick ==
    /\ now < MaxTime
    /\ now' = now + 1
    /\ UNCHANGED limiterVars

Next == Grant \/ Refuse \/ SetLimit \/ RemoveLimit \/ Tick

Spec == Init /\ [][Next]_vars

-----------------------------------------------------------------------------
(* Properties                                                              *)

TypeOK ==
    /\ now \in 0..MaxTime
    /\ limit \in Limits \cup {0}
    /\ window \subseteq [nr : Nat, at : 0..MaxTime]
    /\ granted \subseteq [nr : Nat, at : 0..MaxTime]

(* A job is allowed only if with it no more than the limit were allowed in *)
(* the last Window seconds, whatever limits were set meanwhile.            *)
AtMostLimit ==
    [][Cardinality(granted') > Cardinality(granted) =>
        Cardinality({t \in granted' : t.at > now - Window}) <= limit]_vars
=============================================================================
