---------------------------- MODULE CacheStore ----------------------------
(***************************************************************************)
(* The cache service, for one key: a row with an expiry, the handlers that *)
(* read, write and delete it, and the loop that deletes expired rows. Keys *)
(* share nothing. Each statement is atomic; a GET of an expired row is two.*)
(***************************************************************************)
EXTENDS Integers

CONSTANTS
    Readers,     \* GET requests
    Ttls,        \* values of ttl: 0 for the default, negative for no expiry
    DefaultTtl,  \* 3600 seconds in the code
    MaxTime      \* bound on the time

ConstantsOK ==
    /\ Ttls \subseteq Int
    /\ DefaultTtl \in Nat \ {0}
    /\ MaxTime \in Nat

VARIABLES
    time,    \* time.Now().Unix()
    expires,  \* expires_at of the row, 0 if it never expires, -1 if no row
    step,     \* where each GET is
    got,      \* expires_at each GET has read
    remover   \* history: what removed a row last

vars == <<time, expires, step, got, remover>>

NoRow == -1

Init ==
    /\ time = 0
    /\ expires = NoRow
    /\ step = [r \in Readers |-> "new"]
    /\ got = [r \in Readers |-> NoRow]
    /\ remover = "none"

(* When a GET takes a row to be expired *)
Expired(e) == e > 0 /\ time > e

Remove(who) == expires' = NoRow /\ remover' = who

(* handleCacheSet: INSERT ... ON CONFLICT DO UPDATE *)
Set ==
    /\ \E t \in Ttls :
        LET ttl == IF t = 0 THEN DefaultTtl ELSE t
        IN  expires' = IF ttl > 0 THEN time + ttl ELSE 0
    /\ UNCHANGED <<time, step, got, remover>>

(* handleCacheDelete *)
Delete ==
    /\ Remove("client")
    /\ UNCHANGED <<time, step, got>>

(* handleCacheGet: the SELECT ... *)
Read(r) ==
    /\ step[r] = "new"
    /\ got' = [got EXCEPT ![r] = expires]
    /\ step' = [step EXCEPT ![r] = IF expires = NoRow THEN "missed" ELSE "found"]
    /\ UNCHANGED <<time, expires, remover>>

(* ... the test of what it has read, by the time it is then ... *)
Answer(r) ==
    /\ step[r] = "found"
    /\ step' = [step EXCEPT ![r] = IF Expired(got[r]) THEN "drop" ELSE "served"]
    /\ UNCHANGED <<time, expires, got, remover>>

(* ... and the DELETE of an expired row, by key. *)
Drop(r) ==
    /\ step[r] = "drop"
    /\ Remove("get")
    /\ step' = [step EXCEPT ![r] = "missed"]
    /\ UNCHANGED <<time, got>>

(* Slip: rows without expiry are taken too. *)
CleanupUnguarded ==
    /\ expires # NoRow /\ expires < time
    /\ Remove("cleanup")
    /\ UNCHANGED <<time, step, got>>

(* cacheCleanupLoop *)
Cleanup ==
    /\ expires > 0 /\ expires < time
    /\ Remove("cleanup")
    /\ UNCHANGED <<time, step, got>>

Tick ==
    /\ time < MaxTime
    /\ time' = time + 1
    /\ UNCHANGED <<expires, step, got, remover>>

Next ==
    \/ Set \/ Delete
    \/ \E r \in Readers : Read(r) \/ Answer(r) \/ Drop(r)
    \/ Cleanup \/ Tick

Spec == Init /\ [][Next]_vars

-----------------------------------------------------------------------------
(* Properties                                                              *)

TypeOK ==
    /\ time \in 0..MaxTime
    /\ expires \in Int /\ expires >= NoRow
    /\ step \in [Readers -> {"new", "found", "drop", "missed", "served"}]
    /\ got \in [Readers -> Int]
    /\ remover \in {"none", "client", "get", "cleanup"}

(* A row that a GET would serve goes only when a client deletes it or when *)
(* a GET, having read an expired row, deletes the one that replaced it:    *)
(* never by the cleanup, and never by a GET that read a row not expired.   *)
LiveEntriesStay ==
    [][expires # NoRow /\ ~Expired(expires) /\ expires' = NoRow
        => \/ remover' = "client"
           \/ remover' = "get" /\ \E r \in Readers :
                    step[r] = "drop" /\ step'[r] # "drop" /\ Expired(got[r])]_vars
===========================================================================
