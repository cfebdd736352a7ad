--------------------------- MODULE Sessions_proofs ---------------------------
(***************************************************************************)
(* That sessions end when they must and not before, for any number of      *)
(* tokens and of requests at once.                                         *)
(***************************************************************************)
EXTENDS Sessions, TLAPS

(* The store: what is in it was given out and not revoked, and a session   *)
(* is there until it is revoked or its time is over.                       *)
StoreRight ==
    \A t \in Tokens :
        /\ session[t] # None => session[t] = given[t] /\ t \notin revoked
        /\ given[t] # None /\ ~Ended(t) => session[t] = given[t]
        /\ t \in revoked => given[t] # None

(* A request under way: what it has found may be out of the store again,   *)
(* but says no more and no less than the store did when it looked. One     *)
(* that came too late found nothing, or what will not pass the comparison. *)
VisitRight(v) ==
    LET t == visit[v].token IN
    /\ visit[v].at # "answered" => given[t] # None
    /\ visit[v].at # "answered" /\ visit[v].late => Ended(t)
    /\ visit[v].at = "looked" =>
        /\ visit[v].found = None => Ended(t)
        /\ visit[v].found # None =>
            visit[v].found = given[t] /\ (visit[v].late => hour > given[t])

IInv == TypeOK /\ StoreRight /\ \A v \in Visits : VisitRight(v)

-----------------------------------------------------------------------------
LEMMA InitIInv == ConstantsOK /\ Init => IInv
<1> SUFFICES ASSUME ConstantsOK, Init PROVE IInv
  OBVIOUS
<1>1. 1 \in 1..MaxTime
  BY DEF ConstantsOK
<1>2. (CHOOSE t \in Tokens : TRUE) \in Tokens
  BY DEF ConstantsOK
<1>3. TypeOK
  <2>1. session \in [Tokens -> Nat] /\ given \in [Tokens -> Nat]
    BY DEF Init, None
  <2> QED BY <1>1, <1>2, <2>1 DEF Init, TypeOK, None
<1>4. StoreRight
  BY DEF StoreRight, Init
<1>5. \A v \in Visits : visit[v].at = "answered"
  BY DEF Init
<1> QED BY <1>3, <1>4, <1>5 DEF IInv, VisitRight

LEMMA TypeStep == ConstantsOK /\ TypeOK /\ [Next]_vars => TypeOK'
<1> SUFFICES ASSUME ConstantsOK, TypeOK, [Next]_vars PROVE TypeOK'
  OBVIOUS
<1> USE DEF TypeOK, None
<1>1. ASSUME NEW t \in Tokens, Login(t) \/ Logout(t) PROVE TypeOK'
  BY <1>1 DEF Login, Logout, ConstantsOK
<1>2. ASSUME NEW v \in Visits, NEW t \in Tokens, Arrive(v, t) PROVE TypeOK'
  BY <1>2 DEF Arrive, Ended
<1>3. ASSUME NEW v \in Visits, Lookup(v) \/ Judge(v) PROVE TypeOK'
  BY <1>3 DEF Lookup, Judge
<1>4. CASE Reap
  BY <1>4 DEF Reap
<1>5. CASE Tick
  BY <1>5 DEF Tick, ConstantsOK
<1>6. CASE UNCHANGED vars
  BY <1>6 DEF vars
<1> QED BY <1>1, <1>2, <1>3, <1>4, <1>5, <1>6 DEF Next

(* A session that has ended stays so, if its expiry stays.                 *)
LEMMA EndedStays ==
    ASSUME TypeOK, NEW t \in Tokens, Ended(t), given'[t] = given[t],
           revoked \subseteq revoked', hour' \in {hour, hour + 1}
    PROVE  Ended(t)'
  BY DEF TypeOK, Ended

LEMMA IInvStep == ConstantsOK /\ IInv /\ [Next]_vars => IInv'
<1> SUFFICES ASSUME ConstantsOK, IInv, [Next]_vars PROVE IInv'
  OBVIOUS
<1>1. TypeOK'
  BY TypeStep DEF IInv
<1> USE DEF IInv, TypeOK, None
<1>2. ASSUME NEW t \in Tokens, Login(t) PROVE IInv'
  <2>1. given[t] = None /\ t \notin revoked /\ session[t] = None
    BY <1>2 DEF Login, StoreRight
  <2>2. StoreRight'
    BY <1>2, <2>1 DEF Login, StoreRight, Ended, ConstantsOK
  <2>3. ASSUME NEW v \in Visits PROVE VisitRight(v)'
    BY <1>2, <2>1 DEF Login, VisitRight, Ended
  <2> QED BY <1>1, <2>2, <2>3
<1>3. ASSUME NEW t \in Tokens, Logout(t) PROVE IInv'
  <2>1. StoreRight'
    BY <1>3 DEF Logout, StoreRight, Ended
  <2>2. ASSUME NEW v \in Visits PROVE VisitRight(v)'
    BY <1>3 DEF Logout, VisitRight, Ended
  <2> QED BY <1>1, <2>1, <2>2
<1>4. ASSUME NEW v \in Visits, NEW t \in Tokens, Arrive(v, t) PROVE IInv'
  <2>1. StoreRight'
    BY <1>4 DEF Arrive, StoreRight, Ended
  <2>2. ASSUME NEW w \in Visits PROVE VisitRight(w)'
    BY <1>4 DEF Arrive, VisitRight, Ended
  <2> QED BY <1>1, <2>1, <2>2
<1>5. ASSUME NEW v \in Visits, Lookup(v) PROVE IInv'
  <2>1. StoreRight'
    BY <1>5 DEF Lookup, StoreRight, Ended
  <2>2. ASSUME NEW w \in Visits PROVE VisitRight(w)'
    BY <1>5 DEF Lookup, VisitRight, StoreRight, Ended
  <2> QED BY <1>1, <2>1, <2>2
<1>6. ASSUME NEW v \in Visits, Judge(v) PROVE IInv'
  <2>1. StoreRight'
    BY <1>6 DEF Judge, StoreRight, Ended
  <2>2. ASSUME NEW w \in Visits PROVE VisitRight(w)'
    BY <1>6 DEF Judge, VisitRight, Ended
  <2> QED BY <1>1, <2>1, <2>2
<1>7. CASE Reap
  <2>1. StoreRight'
    BY <1>7 DEF Reap, StoreRight, Ended
  <2>2. ASSUME NEW w \in Visits PROVE VisitRight(w)'
    BY <1>7 DEF Reap, VisitRight, Ended
  <2> QED BY <1>1, <2>1, <2>2
<1>8. CASE Tick
  <2>1. StoreRight'
    BY <1>8 DEF Tick, StoreRight, Ended
  <2>2. ASSUME NEW w \in Visits PROVE VisitRight(w)'
    BY <1>8 DEF Tick, VisitRight, Ended
  <2> QED BY <1>1, <2>1, <2>2
<1>9. CASE UNCHANGED vars
  <2>1. StoreRight'
    BY <1>9 DEF vars, StoreRight, Ended
  <2>2. ASSUME NEW w \in Visits PROVE VisitRight(w)'
    BY <1>9 DEF vars, VisitRight, Ended
  <2> QED BY <1>1, <2>1, <2>2
<1> QED BY <1>2, <1>3, <1>4, <1>5, <1>6, <1>7, <1>8, <1>9 DEF Next

-----------------------------------------------------------------------------
LEMMA Invariance == ASSUME ConstantsOK PROVE Spec => []IInv
<1>1. Init => IInv
  BY InitIInv
<1>2. IInv /\ [Next]_vars => IInv'
  BY IInvStep
<1> QED BY <1>1, <1>2, PTL DEF Spec

(* No request gets in with a session that had expired or been logged out   *)
(* when it came, and none is turned away before its session has ended, for *)
(* any number of requests, logins, logouts and passes of the reaper.       *)
THEOREM SessionsJudged ==
    ASSUME ConstantsOK PROVE Spec => SessionsEndOnTime
<1>1. ASSUME IInv, NEW v \in Visits, visit[v].at = "looked", visit'[v].at = "answered"
      PROVE  IF Admits(v) THEN ~visit[v].late ELSE Ended(visit[v].token)
  BY <1>1 DEF IInv, TypeOK, VisitRight, Admits, Ended, None
<1>2. IInv =>
      [\A v \in Visits : visit[v].at = "looked" /\ visit'[v].at = "answered" =>
        IF Admits(v) THEN ~visit[v].late ELSE Ended(visit[v].token)]_vars
  BY <1>1
<1> QED BY <1>2, Invariance, PTL DEF Spec, SessionsEndOnTime
=============================================================================
