------------------------------ MODULE Sessions ------------------------------
(***************************************************************************)
(* Dashboard sessions: tokens with an expiry under one mutex, requests     *)
(* that look their session up under the lock and judge it after, logins,   *)
(* logouts and the reaper of expired sessions. A session is not changed    *)
(* once it is in the store, so what a request keeps of it is its expiry.   *)
(***************************************************************************)
EXTENDS Integers

CONSTANTS
    Tokens,    \* what newSession draws, each once
    Visits,    \* requests for a page behind requireLogin
    Lifetime,  \* sessionTTL
    MaxTime    \* bound on the clock

ConstantsOK == Tokens # {} /\ Lifetime \in Nat /\ MaxTime \in Nat \ {0}

VARIABLES
    hour,      \* time.Now()
    session,   \* expiry of each token in the store, None if it is not there
    given,     \* history: expiry of each token given out, None before
    revoked,   \* history: tokens that were logged out
    visit      \* each request: where it is, its cookie, the expiry it found,
               \* and whether its session had ended before it came

vars == <<hour, session, given, revoked, visit>>

None == 0

Ended(t) == t \in revoked \/ hour > given[t]

Init ==
    /\ hour = 1
    /\ session = [t \in Tokens |-> None]
    /\ given = [t \in Tokens |-> None]
    /\ revoked = {}
    /\ visit = [v \in Visits |-> [at |-> "answered", token |-> CHOOSE t \in Tokens : TRUE,
                                  found |-> None, late |-> TRUE]]

(* newSession, when handleLoginSubmit has found the password right *)
Login(t) ==
    /\ given[t] = None
    /\ session' = [session EXCEPT ![t] = hour + Lifetime]
    /\ given' = [given EXCEPT ![t] = hour + Lifetime]
    /\ UNCHANGED <<hour, revoked, visit>>

(* Slip: only the browser's cookie is cleared. *)
LogoutOfCookie(t) ==
    /\ given[t] # None
    /\ revoked' = revoked \cup {t}
    /\ UNCHANGED <<hour, session, given, visit>>

(* deleteSession; the cookie that is cleared may live on in other places. *)
Logout(t) ==
    /\ given[t] # None
    /\ session' = [session EXCEPT ![t] = None]
    /\ revoked' = revoked \cup {t}
    /\ UNCHANGED <<hour, given, visit>>

(* The reaper's pass, under the lock *)
Reap ==
    /\ session' = [t \in Tokens |-> IF hour > session[t] THEN None ELSE session[t]]
    /\ UNCHANGED <<hour, given, revoked, visit>>

(* requireLogin and handleLoginPage get a request with a cookie. *)
Arrive(v, t) ==
    /\ visit[v].at = "answered"
    /\ given[t] # None
    /\ visit' = [visit EXCEPT
                  ![v] = [at |-> "came", token |-> t, found |-> None, late |-> Ended(t)]]
    /\ UNCHANGED <<hour, session, given, revoked>>

(* getSession: the lookup under the lock ... *)
Lookup(v) ==
    /\ visit[v].at = "came"
    /\ visit' = [visit EXCEPT ![v].at = "looked", ![v].found = session[visit[v].token]]
    /\ UNCHANGED <<hour, session, given, revoked>>

(* ... and the comparison with the clock after it. One who is not let in   *)
(* is redirected to the login page.                                        *)
Admits(v) == visit[v].found # None /\ hour <= visit[v].found

Judge(v) ==
    /\ visit[v].at = "looked"
    /\ visit' = [visit EXCEPT ![v].at = "answered"]
    /\ UNCHANGED <<hour, session, given, revoked>>

Tick ==
    /\ hour < MaxTime
    /\ hour' = hour + 1
    /\ UNCHANGED <<session, given, revoked, visit>>

Next ==
    \/ \E t \in Tokens : Login(t) \/ Logout(t) \/ \E v \in Visits : Arrive(v, t)
    \/ \E v \in Visits : Lookup(v) \/ Judge(v)
    \/ Reap \/ Tick

Spec == Init /\ [][Next]_vars

-----------------------------------------------------------------------------
(* Properties                                                              *)

TypeOK ==
    /\ hour \in 1..MaxTime
    /\ session \in [Tokens -> Nat] /\ given \in [Tokens -> Nat]
    /\ revoked \subseteq Tokens
    /\ visit \in [Visits -> [at : {"came", "looked", "answered"}, token : Tokens,
                             found : Nat, late : BOOLEAN]]

(* A request is admitted only if its session had neither expired nor been  *)
(* logged out when it came, and turned away only if it has by now,         *)
(* whatever logouts and the reaper do between lookup and comparison.       *)
SessionsEndOnTime ==
    [][\A v \in Visits : visit[v].at = "looked" /\ visit'[v].at = "answered" =>
        IF Admits(v) THEN ~visit[v].late ELSE Ended(visit[v].token)]_vars
=============================================================================
