---------------------------- MODULE Leases_proofs ----------------------------
(***************************************************************************)
(* That a lease is kept while its executor is at work, for all timeouts,   *)
(* any number of executors, and every bound on clock and reservations.     *)
(***************************************************************************)
EXTENDS Leases, TLAPS

AtWork(h) == exec[h].at # "free"

(* How late an executor can still be at work, counted from the reservation *)
(* of the job it has: first the hand-over, then the execution.             *)
Span(h) == MaxDelay + (IF exec[h].at = "busy" THEN Allowed(h) ELSE 0)

(* Nothing happens before the settings are read and the job is there, and  *)
(* nobody is at work past the limit.                                       *)
Orderly ==
    /\ ~booted => row.status = "none"
    /\ row.status = "none" => \A h \in Holders : ~AtWork(h)
    /\ \A h \in Holders : AtWork(h) => sec <= exec[h].limit

(* If the stale timeout fits, the limit of one at work follows from the    *)
(* updated_at of its own reservation, which nobody has written over.       *)
Held(h) ==
    /\ row.status = "running"
    /\ row.attempts = exec[h].lease
    /\ exec[h].limit <= row.updated + Span(h)
    /\ \A g \in Holders : AtWork(g) => g = h

IInv ==
    /\ TypeOK
    /\ Orderly
    /\ Fits => \A h \in Holders : AtWork(h) => Held(h)

-----------------------------------------------------------------------------
LEMMA InitIInv == ConstantsOK /\ Init => IInv
<1> SUFFICES ASSUME ConstantsOK, Init PROVE IInv
  OBVIOUS
<1>1. TypeOK
  <2>1. sec \in 0..MaxTime /\ 0 \in 0..MaxLeases /\ 0 \in 0..MaxTime
    BY DEF ConstantsOK, Init
  <2>2. Free \in [at : {"free", "given", "busy"}, lease : 0..MaxLeases, limit : Nat]
    BY <2>1 DEF Free
  <2>3. exec \in [Holders -> [at : {"free", "given", "busy"}, lease : 0..MaxLeases, limit : Nat]]
    BY <2>2 DEF Init
  <2> QED BY <2>1, <2>3 DEF ConstantsOK, Init, TypeOK
<1>2. \A h \in Holders : ~AtWork(h)
  BY DEF Init, Free, AtWork
<1> QED BY <1>1, <1>2 DEF IInv, Orderly, Init

(* The timeouts are numbers of seconds. *)
LEMMA AllowedType ==
    ASSUME ConstantsOK, TypeOK, NEW h \in Holders PROVE Allowed(h) \in Nat
  BY DEF ConstantsOK, TypeOK, Allowed, Timeouts

(* A stale timeout that fits covers the whole span.                        *)
LEMMA SpanFits ==
    ASSUME ConstantsOK, TypeOK, Fits, NEW h \in Holders
    PROVE  Span(h) \in Nat /\ Span(h) <= seconds["stale"]
<1>1. Allowed(h) \in Nat
  BY AllowedType
<1>2. MaxDelay \in Nat /\ seconds["stale"] \in Nat
  BY DEF ConstantsOK, TypeOK, Timeouts
<1>3. Allowed(h) + MaxDelay <= seconds["stale"]
  BY DEF Fits
<1> QED BY <1>1, <1>2, <1>3 DEF Span

LEMMA TypeStep == ConstantsOK /\ TypeOK /\ [Next]_vars => TypeOK'
<1> SUFFICES ASSUME ConstantsOK, TypeOK, [Next]_vars PROVE TypeOK'
  OBVIOUS
<1> USE DEF TypeOK
<1>1. ASSUME NEW h \in Holders, Reserve(h) PROVE TypeOK'
  BY <1>1 DEF Reserve, ConstantsOK, settingVars
<1>2. ASSUME NEW h \in Holders, Begin(h) PROVE TypeOK'
  <2>1. sec + Allowed(h) \in Nat
    BY AllowedType DEF ConstantsOK
  <2> QED BY <1>2, <2>1 DEF Begin, settingVars
<1>3. ASSUME NEW h \in Holders, Succeed(h) \/ Fail(h) \/ TimeOut(h) PROVE TypeOK'
  <2>1. exec' = [exec EXCEPT ![h] = Free] /\ UNCHANGED <<sec, settingVars>>
    BY <1>3 DEF Succeed, Fail, TimeOut
  <2>2. UNCHANGED row \/ \E s \in {"pending", "failed", "done"} : SetStatus(s)
    BY <1>3 DEF Succeed, Fail, TimeOut
  <2>3. row' \in [status : {"none", "pending", "running", "done", "failed"},
                  updated : 0..MaxTime, attempts : 0..MaxLeases]
    BY <2>2 DEF SetStatus
  <2>4. exec' \in [Holders -> [at : {"free", "given", "busy"}, lease : 0..MaxLeases, limit : Nat]]
    BY <2>1 DEF Free, ConstantsOK
  <2> QED BY <2>1, <2>3, <2>4 DEF settingVars
<1>4. CASE ReadSettings
  <2>1. PICK setting \in [Timeouts -> Settings] :
            seconds' = [t \in Timeouts |-> IF setting[t] > 0 THEN setting[t] ELSE Preset[t]]
    BY <1>4 DEF ReadSettings
  <2>2. ASSUME NEW t \in Timeouts
        PROVE  (IF setting[t] > 0 THEN setting[t] ELSE Preset[t]) \in Nat \ {0}
    <3>1. setting[t] \in Int /\ Preset[t] \in Nat \ {0}
      BY DEF ConstantsOK
    <3> QED BY <3>1
  <2>3. seconds' \in [Timeouts -> Nat \ {0}]
    BY <2>1, <2>2
  <2> QED BY <1>4, <2>3 DEF ReadSettings
<1>5. CASE Submit
  BY <1>5 DEF Submit, SetStatus
<1>6. CASE Reap
  BY <1>6 DEF Reap, SetStatus, settingVars
<1>7. CASE Tick
  BY <1>7 DEF Tick, settingVars, ConstantsOK
<1>8. CASE UNCHANGED vars
  BY <1>8 DEF vars, settingVars
<1> QED BY <1>1, <1>2, <1>3, <1>4, <1>5, <1>6, <1>7, <1>8 DEF Next

(* The clock stops at the limit of whoever is at work.                     *)
LEMMA OrderlyStep == ConstantsOK /\ TypeOK /\ Orderly /\ [Next]_vars => Orderly'
<1> SUFFICES ASSUME ConstantsOK, TypeOK, Orderly, [Next]_vars PROVE Orderly'
  OBVIOUS
<1> USE DEF Orderly, AtWork
<1>1. ASSUME NEW h \in Holders, Reserve(h) PROVE Orderly'
  BY <1>1 DEF Reserve, settingVars, TypeOK, ConstantsOK
<1>2. ASSUME NEW h \in Holders, Begin(h) PROVE Orderly'
  <2>1. Allowed(h) \in Nat
    BY AllowedType
  <2> QED BY <1>2, <2>1 DEF Begin, settingVars, TypeOK
<1>3. ASSUME NEW h \in Holders, Succeed(h) \/ Fail(h) \/ TimeOut(h) PROVE Orderly'
  <2>1. exec[h].at = "busy" /\ exec' = [exec EXCEPT ![h] = Free] /\ UNCHANGED <<sec, settingVars>>
    BY <1>3 DEF Succeed, Fail, TimeOut
  <2>2. UNCHANGED row \/ \E s \in {"pending", "failed", "done"} : SetStatus(s)
    BY <1>3 DEF Succeed, Fail, TimeOut
  <2>3. row'.status # "none"
    BY <2>1, <2>2 DEF SetStatus, TypeOK
  <2> QED BY <2>1, <2>3 DEF settingVars, Free, TypeOK
<1>4. CASE ReadSettings
  BY <1>4 DEF ReadSettings
<1>5. CASE Submit
  BY <1>5 DEF Submit, SetStatus, TypeOK
<1>6. CASE Reap
  BY <1>6 DEF Reap, SetStatus, settingVars, TypeOK
<1>7. CASE Tick
  BY <1>7 DEF Tick, settingVars, TypeOK
<1>8. CASE UNCHANGED vars
  BY <1>8 DEF vars, settingVars
<1> QED BY <1>1, <1>2, <1>3, <1>4, <1>5, <1>6, <1>7, <1>8 DEF Next

(* The settings of a job in the table do not change any more.              *)
LEMMA HeldStep == ConstantsOK /\ IInv /\ [Next]_vars => IInv'
<1> SUFFICES ASSUME ConstantsOK, IInv, [Next]_vars PROVE IInv'
  OBVIOUS
<1>1. TypeOK' /\ Orderly'
  BY TypeStep, OrderlyStep DEF IInv
<1> SUFFICES ASSUME Fits', NEW h \in Holders, AtWork(h)' PROVE Held(h)'
  BY <1>1 DEF IInv
<1>2. ASSUME UNCHANGED settingVars
      PROVE  Fits /\ \A g \in Holders : Allowed(g)' = Allowed(g)
  BY <1>2 DEF Fits, Allowed, settingVars
<1>3. ASSUME Fits, NEW g \in Holders, AtWork(g) PROVE Held(g)
  BY <1>3 DEF IInv
<1>4. \A g \in Holders : Allowed(g) \in Nat
  BY AllowedType DEF IInv
<1>5. ASSUME NEW g \in Holders, Reserve(g) PROVE Held(h)'
  <2>1. \A f \in Holders : ~AtWork(f)
    BY <1>5, <1>2, <1>3 DEF Reserve, Held
  <2>2. h = g /\ \A f \in Holders : AtWork(f)' => f = g
    BY <1>5, <2>1 DEF Reserve, AtWork, IInv, TypeOK
  <2> QED BY <1>5, <2>2 DEF Reserve, Held, Span, IInv, TypeOK, ConstantsOK
<1>6. ASSUME NEW g \in Holders, Begin(g) PROVE Held(h)'
  <2>1. AtWork(g) /\ Held(g) /\ sec <= exec[g].limit
    BY <1>6, <1>2, <1>3 DEF Begin, AtWork, IInv, Orderly
  <2>2. h = g /\ \A f \in Holders : AtWork(f)' => f = g
    BY <1>6, <2>1 DEF Begin, AtWork, Held, IInv, TypeOK
  <2>3. row' = row /\ exec'[g].lease = exec[g].lease /\ exec'[g].at = "busy"
        /\ exec'[g].limit = sec + Allowed(g)
    BY <1>6 DEF Begin, IInv, TypeOK
  <2>4. exec[g].limit <= row.updated + MaxDelay
    BY <2>1, <1>6 DEF Held, Span, Begin, IInv, TypeOK, ConstantsOK
  <2>5. Span(g)' = MaxDelay + Allowed(g)
    BY <2>3, <1>2, <1>6 DEF Span, Begin
  <2>6. exec'[g].limit <= row'.updated + Span(g)'
    BY <2>1, <2>3, <2>4, <2>5, <1>4 DEF IInv, TypeOK, ConstantsOK
  <2> QED BY <2>1, <2>2, <2>3, <2>6 DEF Held
<1>7. ASSUME NEW g \in Holders, Succeed(g) \/ Fail(g) \/ TimeOut(g) PROVE Held(h)'
  <2>1. exec[g].at = "busy" /\ exec' = [exec EXCEPT ![g] = Free] /\ UNCHANGED settingVars
    BY <1>7 DEF Succeed, Fail, TimeOut
  <2>2. AtWork(g) /\ Held(g)
    BY <2>1, <1>2, <1>3 DEF AtWork
  <2>3. ~AtWork(h)'
    BY <2>1, <2>2 DEF AtWork, Held, Free, IInv, TypeOK
  <2> QED BY <2>3
<1>8. CASE ReadSettings
  BY <1>8, <1>1 DEF ReadSettings, IInv, Orderly, AtWork
<1>9. CASE Submit
  BY <1>9 DEF Submit, IInv, Orderly, AtWork
<1>10. CASE Reap
  <2>1. AtWork(h) /\ Held(h) /\ Fits /\ sec <= exec[h].limit
    BY <1>10, <1>2, <1>3 DEF Reap, AtWork, IInv, Orderly
  <2>2. Span(h) \in Nat /\ Span(h) <= seconds["stale"]
    BY <2>1, SpanFits DEF IInv
  <2>3. /\ sec \in Int /\ row.updated \in Int /\ exec[h].limit \in Int
        /\ seconds["stale"] \in Int
    BY DEF IInv, TypeOK, Timeouts
  <2>4. exec[h].limit <= row.updated + Span(h) /\ row.updated < sec - seconds["stale"]
    BY <1>10, <2>1 DEF Held, Reap
  <2> QED BY <2>1, <2>2, <2>3, <2>4
<1>11. CASE Tick
  BY <1>11, <1>2, <1>3 DEF Tick, Held, AtWork, Span, settingVars
<1>12. CASE UNCHANGED vars
  BY <1>12, <1>2, <1>3 DEF vars, Held, AtWork, Span, settingVars
<1> QED BY <1>5, <1>6, <1>7, <1>8, <1>9, <1>10, <1>11, <1>12 DEF Next

-----------------------------------------------------------------------------
LEMMA Invariance == ASSUME ConstantsOK PROVE Spec => []IInv
<1>1. Init => IInv
  BY InitIInv
<1>2. IInv /\ [Next]_vars => IInv'
  BY HeldStep
<1> QED BY <1>1, <1>2, PTL DEF Spec

(* If the stale timeout covers hand-over and execution, the reaper never   *)
(* takes a job from an executor at work, and nobody else gets it, for any  *)
(* timeouts and any number of executors.                                   *)
THEOREM LeaseKept ==
    ASSUME ConstantsOK PROVE Spec => []LiveLeaseIsKept
<1>1. IInv => LiveLeaseIsKept
  BY DEF IInv, LiveLeaseIsKept, Held, AtWork
<1> QED BY <1>1, Invariance, PTL
=============================================================================
