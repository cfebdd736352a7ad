--------------------------- MODULE Shutdown_proofs ---------------------------
(***************************************************************************)
(* That main, when it goes on because all jobs have finished, leaves none  *)
(* of those in execution at the signal half done, for any number of jobs   *)
(* and of pool goroutines.                                                 *)
(***************************************************************************)
EXTENDS Shutdown, TLAPS

(* Where a goroutine has the only say about its job: from the reservation  *)
(* until the row is written and the follow-up is in the table.             *)
Owning == {"count", "execute", "chain", "await"}

HandRight(h) ==
    /\ hand[h] \in {"top", "reserve", "out"} => duty[h] = {}
    /\ hand[h] \in Owning \cup {"leave"} => \E j \in Duties : duty[h] = {j}
    /\ hand[h] \in {"execute", "chain", "await", "leave"} => h \in counted
    /\ hand[h] \in {"count", "execute"} => \A j \in duty[h] : status[j] = "running"
    /\ hand[h] \in {"chain", "await"} =>
        duty[h] \subseteq Followed /\ \A j \in duty[h] : status[j] = "done"

(* A job is reserved by one goroutine at a time.                           *)
Exclusive ==
    \A g, h \in Hands :
        hand[g] \in Owning /\ hand[h] \in Owning /\ g # h => duty[g] \cap duty[h] = {}

(* What is still to be done for a job that was in execution at the signal  *)
(* is in the hands of a goroutine.                                         *)
BegunInHands ==
    /\ stage = "serve" => begun = {}
    /\ \A j \in begun :
        /\ status[j] = "running" => \E h \in Hands : hand[h] = "execute" /\ j \in duty[h]
        /\ status[j] = "done" /\ j \in Followed /\ j \notin followed =>
            \E h \in Hands : hand[h] \in {"chain", "await"} /\ j \in duty[h]

IInv ==
    /\ TypeOK
    /\ \A h \in Hands : HandRight(h)
    /\ Exclusive
    /\ BegunInHands
    /\ BegunAreAwaited

-----------------------------------------------------------------------------
LEMMA InitIInv == Init => IInv
  BY DEF Init, IInv, TypeOK, HandRight, Exclusive, BegunInHands, BegunAreAwaited, Owning

LEMMA TypeStep == ConstantsOK /\ IInv /\ [Next]_vars => TypeOK'
<1> SUFFICES ASSUME ConstantsOK, IInv, [Next]_vars PROVE TypeOK'
  OBVIOUS
<1> USE DEF TypeOK, Goto, vars, handVars, chainVars
<1>0. TypeOK
  BY DEF IInv
<1>1. ASSUME NEW h \in Hands, HandStep(h) PROVE TypeOK'
  <2>1. CASE Look(h)
    BY <1>0, <2>1 DEF Look
  <2>2. CASE ReserveJob(h)
    BY <1>0, <2>2 DEF ReserveJob
  <2>3. CASE FindNothing(h) \/ Count(h)
    BY <1>0, <2>3 DEF FindNothing, Count
  <2>4. CASE Succeed(h) \/ Fail(h)
    BY <1>0, <2>4 DEF Succeed, Fail, Write
  <2>5. CASE Chain(h)
    <3>1. duty[h] \subseteq Followed
      BY <2>5 DEF Chain, IInv, HandRight
    <3> QED BY <1>0, <2>5, <3>1 DEF Chain
  <2>6. CASE ReceiveAnswer(h) \/ Leave(h)
    BY <1>0, <2>6 DEF ReceiveAnswer, Leave
  <2> QED BY <1>1, <2>1, <2>2, <2>3, <2>4, <2>5, <2>6 DEF HandStep
<1>2. CASE Flush \/ CoalescerReturns \/ Insert
  BY <1>0, <1>2 DEF Flush, CoalescerReturns, Insert
<1>3. CASE CloseStop
  <2>1. begun' \subseteq Duties
    BY <1>0, <1>3 DEF CloseStop
  <2> QED BY <1>0, <1>3, <2>1 DEF CloseStop
<1>4. CASE AllFinished \/ GiveUp \/ ReturnMain
  BY <1>0, <1>4 DEF AllFinished, GiveUp, ReturnMain
<1>5. CASE UNCHANGED vars
  BY <1>0, <1>5
<1> QED BY <1>1, <1>2, <1>3, <1>4, <1>5 DEF Next

(* What the others have is left alone by a goroutine that writes a row.    *)
LEMMA OthersKeepTheirRows ==
    ASSUME IInv, NEW h \in Hands, NEW g \in Hands, g # h,
           hand[h] = "execute", hand[g] \in Owning, NEW s, Write(h, s)
    PROVE  \A j \in duty[g] : status'[j] = status[j]
  BY DEF IInv, TypeOK, Exclusive, Owning, Write

LEMMA HandsStep == ConstantsOK /\ IInv /\ [Next]_vars => \A g \in Hands : HandRight(g)'
<1> SUFFICES ASSUME ConstantsOK, IInv, [Next]_vars, NEW g \in Hands PROVE HandRight(g)'
  OBVIOUS
<1> USE DEF Goto, vars, handVars, chainVars, Owning
<1>0. TypeOK /\ HandRight(g)
  BY DEF IInv
<1>1. ASSUME NEW h \in Hands, HandStep(h) PROVE HandRight(g)'
  <2>0. TypeOK /\ HandRight(h)
    BY DEF IInv
  <2>1. CASE Look(h)
    BY <1>0, <2>0, <2>1 DEF Look, HandRight, TypeOK
  <2>2. CASE ReserveJob(h)
    <3>1. PICK j \in Duties : /\ status[j] = "pending"
                              /\ status' = [status EXCEPT ![j] = "running"]
                              /\ duty' = [duty EXCEPT ![h] = {j}]
      BY <2>2 DEF ReserveJob
    <3>2. hand' = [hand EXCEPT ![h] = "count"] /\ UNCHANGED counted
      BY <2>2 DEF ReserveJob
    <3>3. CASE g = h
      BY <1>0, <3>1, <3>2, <3>3 DEF HandRight, TypeOK
    <3>4. CASE g # h
      <4>1. hand[g] \in Owning => j \notin duty[g]
        BY <1>0, <3>1 DEF HandRight
      <4>2. hand'[g] = hand[g] /\ duty'[g] = duty[g]
        BY <1>0, <3>1, <3>2, <3>4 DEF TypeOK
      <4> QED BY <1>0, <3>1, <3>2, <4>1, <4>2 DEF HandRight, TypeOK
    <3> QED BY <3>3, <3>4
  <2>3. CASE FindNothing(h) \/ Count(h)
    BY <1>0, <2>0, <2>3 DEF FindNothing, Count, HandRight, TypeOK
  <2>4. CASE Succeed(h) \/ Fail(h)
    <3>1. PICK s \in {"done", "pending", "failed"} : Write(h, s) /\ (Succeed(h) => s = "done")
      BY <2>4 DEF Succeed, Fail, Write
    <3>2. hand[h] = "execute" /\ UNCHANGED <<duty, counted>>
          /\ \E p \in {"chain", "leave"} :
                /\ hand' = [hand EXCEPT ![h] = p]
                /\ p = "chain" => Succeed(h) /\ duty[h] \subseteq Followed
      BY <2>4 DEF Succeed, Fail
    <3>3. CASE g = h
      BY <1>0, <3>1, <3>2, <3>3 DEF HandRight, TypeOK, Write
    <3>4. CASE g # h
      <4>1. hand[g] \in Owning => \A j \in duty[g] : status'[j] = status[j]
        BY <3>1, <3>2, <3>4, OthersKeepTheirRows
      <4>2. hand'[g] = hand[g] /\ duty'[g] = duty[g] /\ counted' = counted
        BY <1>0, <3>2, <3>4 DEF TypeOK
      <4> QED BY <1>0, <4>1, <4>2 DEF HandRight
    <3> QED BY <3>3, <3>4
  <2>5. CASE Chain(h) \/ ReceiveAnswer(h)
    BY <1>0, <2>0, <2>5 DEF Chain, ReceiveAnswer, HandRight, TypeOK
  <2>6. CASE Leave(h)
    BY <1>0, <2>0, <2>6 DEF Leave, HandRight, TypeOK
  <2> QED BY <1>1, <2>1, <2>2, <2>3, <2>4, <2>5, <2>6 DEF HandStep
<1>2. CASE \/ Flush \/ CoalescerReturns \/ Insert \/ CloseStop
           \/ AllFinished \/ GiveUp \/ ReturnMain \/ UNCHANGED vars
  BY <1>0, <1>2 DEF Flush, CoalescerReturns, Insert, CloseStop, AllFinished, GiveUp,
     ReturnMain, HandRight
<1> QED BY <1>1, <1>2 DEF Next

LEMMA ExclusiveStep == ConstantsOK /\ IInv /\ [Next]_vars => Exclusive'
<1> SUFFICES ASSUME ConstantsOK, IInv, [Next]_vars PROVE Exclusive'
  OBVIOUS
<1> USE DEF Goto, vars, handVars, chainVars, Owning
<1>0. TypeOK /\ Exclusive
  BY DEF IInv
<1>1. ASSUME NEW h \in Hands, HandStep(h), ~ReserveJob(h) PROVE Exclusive'
  <2>1. /\ duty' = duty \/ hand'[h] = "top"
        /\ hand'[h] \in Owning => hand[h] \in Owning
        /\ \A g \in Hands \ {h} : hand'[g] = hand[g] /\ duty'[g] = duty[g]
    BY <1>0, <1>1 DEF HandStep, Look, FindNothing, Count, Succeed, Fail, Chain,
       ReceiveAnswer, Leave, TypeOK
  <2> QED BY <1>0, <2>1 DEF Exclusive
<1>2. ASSUME NEW h \in Hands, ReserveJob(h) PROVE Exclusive'
  <2>1. PICK j \in Duties : status[j] = "pending" /\ duty' = [duty EXCEPT ![h] = {j}]
    BY <1>2 DEF ReserveJob
  <2>2. \A g \in Hands \ {h} :
            /\ hand'[g] = hand[g] /\ duty'[g] = duty[g]
            /\ hand[g] \in Owning => j \notin duty[g]
    BY <1>0, <1>2, <2>1 DEF ReserveJob, IInv, HandRight, TypeOK
  <2>3. duty'[h] = {j}
    BY <1>0, <2>1 DEF TypeOK
  <2> QED BY <1>0, <2>2, <2>3 DEF Exclusive
<1>3. CASE \/ Flush \/ CoalescerReturns \/ Insert \/ CloseStop
           \/ AllFinished \/ GiveUp \/ ReturnMain \/ UNCHANGED vars
  BY <1>0, <1>3 DEF Flush, CoalescerReturns, Insert, CloseStop, AllFinished, GiveUp,
     ReturnMain, Exclusive
<1> QED BY <1>1, <1>2, <1>3 DEF Next

(* Only a goroutine that executes a job takes it out of "running", and     *)
(* only one that has dispatched the follow-up lets go of a job that is     *)
(* done; a job reserved anew is not counted among the begun ones.          *)
LEMMA BegunStep == ConstantsOK /\ IInv /\ [Next]_vars => BegunInHands'
<1> SUFFICES ASSUME ConstantsOK, IInv, [Next]_vars PROVE BegunInHands'
  OBVIOUS
<1> USE DEF Goto, vars, handVars, chainVars
<1>0. TypeOK /\ BegunInHands
  BY DEF IInv
<1>1. ASSUME NEW h \in Hands, HandStep(h) PROVE BegunInHands'
  <2>0. HandRight(h)
    BY DEF IInv
  <2>1. CASE Look(h)
    BY <1>0, <2>1 DEF Look, BegunInHands, TypeOK
  <2>2. CASE ReserveJob(h)
    <3>1. PICK j \in Duties : /\ status' = [status EXCEPT ![j] = "running"]
                              /\ begun' = begun \ {j}
                              /\ duty' = [duty EXCEPT ![h] = {j}]
      BY <2>2 DEF ReserveJob
    <3>2. \A i \in begun' : i \in begun /\ status'[i] = status[i]
      BY <1>0, <3>1 DEF TypeOK
    <3>3. \A g \in Hands : hand[g] \in {"execute", "chain", "await"} =>
              hand'[g] = hand[g] /\ duty'[g] = duty[g]
      BY <1>0, <2>2, <3>1 DEF ReserveJob, TypeOK
    <3>4. UNCHANGED <<stage, followed>>
      BY <2>2 DEF ReserveJob
    <3> QED BY <1>0, <3>1, <3>2, <3>3, <3>4 DEF BegunInHands
  <2>3. CASE FindNothing(h) \/ Count(h)
    BY <1>0, <2>3 DEF FindNothing, Count, BegunInHands, TypeOK
  <2>4. CASE Succeed(h) \/ Fail(h)
    <3>1. PICK i \in Duties : duty[h] = {i}
      BY <2>0, <2>4 DEF Succeed, Fail, HandRight, Owning
    <3>2. PICK s \in {"done", "pending", "failed"} :
            /\ Write(h, s)
            /\ s = "done" /\ i \in Followed => hand'[h] = "chain"
      BY <1>0, <2>4, <3>1 DEF Succeed, Fail, Write, TypeOK
    <3>3. /\ status'[i] = s
          /\ \A j \in Duties \ {i} : status'[j] = status[j]
      BY <1>0, <3>1, <3>2 DEF Write, TypeOK
    <3>4. /\ \A g \in Hands \ {h} : hand'[g] = hand[g]
          /\ UNCHANGED <<duty, stage, begun, followed>>
          /\ hand[h] = "execute"
      BY <1>0, <2>4 DEF Succeed, Fail, TypeOK
    <3>5. ASSUME NEW j \in begun
          PROVE  /\ status'[j] = "running" =>
                    \E g \in Hands : hand'[g] = "execute" /\ j \in duty[g]
                 /\ status'[j] = "done" /\ j \in Followed /\ j \notin followed =>
                    \E g \in Hands : hand'[g] \in {"chain", "await"} /\ j \in duty[g]
      <4>1. CASE j = i
        BY <3>1, <3>2, <3>3, <4>1
      <4>2. CASE j # i
        <5>1. status'[j] = status[j] /\ j \notin duty[h]
          BY <1>0, <3>1, <3>3, <4>2 DEF TypeOK
        <5>2. status[j] = "running" =>
                  \E g \in Hands \ {h} : hand[g] = "execute" /\ j \in duty[g]
          BY <1>0, <5>1 DEF BegunInHands
        <5>3. status[j] = "done" /\ j \in Followed /\ j \notin followed =>
                  \E g \in Hands \ {h} : hand[g] \in {"chain", "await"} /\ j \in duty[g]
          BY <1>0, <5>1 DEF BegunInHands
        <5> QED BY <3>4, <5>1, <5>2, <5>3
      <4> QED BY <4>1, <4>2
    <3>6. stage' = "serve" => begun' = {}
      BY <1>0, <3>4 DEF BegunInHands
    <3> QED BY <3>4, <3>5, <3>6 DEF BegunInHands
  <2>5. CASE Chain(h)
    BY <1>0, <2>5 DEF Chain, BegunInHands, TypeOK
  <2>6. CASE ReceiveAnswer(h)
    <3>1. \A g \in Hands \ {h} : hand'[g] = hand[g]
      BY <1>0, <2>6 DEF ReceiveAnswer, TypeOK
    <3>2. \A j \in duty[h] : j \in followed
      BY <2>6 DEF ReceiveAnswer
    <3> QED BY <1>0, <2>6, <3>1, <3>2 DEF ReceiveAnswer, BegunInHands
  <2>7. CASE Leave(h)
    <3>1. \A g \in Hands \ {h} : hand'[g] = hand[g] /\ duty'[g] = duty[g]
      BY <1>0, <2>7 DEF Leave, TypeOK
    <3> QED BY <1>0, <2>7, <3>1 DEF Leave, BegunInHands
  <2> QED BY <1>1, <2>1, <2>2, <2>3, <2>4, <2>5, <2>6, <2>7 DEF HandStep
<1>2. CASE \/ Flush \/ CoalescerReturns \/ AllFinished \/ GiveUp \/ ReturnMain
           \/ UNCHANGED vars
  BY <1>0, <1>2 DEF Flush, CoalescerReturns, AllFinished, GiveUp, ReturnMain, BegunInHands
<1>3. CASE Insert
  BY <1>0, <1>3 DEF Insert, BegunInHands
<1>4. CASE CloseStop
  <2>1. ASSUME NEW j \in begun'
        PROVE  /\ status[j] = "running" => \E h \in Hands : hand[h] = "execute" /\ j \in duty[h]
               /\ status[j] = "done" =>
                   \E h \in Hands : hand[h] \in {"chain", "await"} /\ j \in duty[h]
    <3>1. PICK h \in Hands : hand[h] \in {"execute", "chain", "await"} /\ j \in duty[h]
      BY <1>4 DEF CloseStop
    <3>2. HandRight(h)
      BY DEF IInv
    <3> QED BY <3>1, <3>2 DEF HandRight
  <2> QED BY <1>4, <2>1 DEF CloseStop, BegunInHands
<1> QED BY <1>1, <1>2, <1>3, <1>4 DEF Next

(* When nobody is counted, nothing that was begun is in anybody's hands.   *)
LEMMA AwaitedStep == ConstantsOK /\ IInv /\ [Next]_vars => BegunAreAwaited'
<1> SUFFICES ASSUME ConstantsOK, IInv, [Next]_vars PROVE BegunAreAwaited'
  OBVIOUS
<1> USE DEF Goto, vars, handVars, chainVars
<1>0. TypeOK /\ BegunAreAwaited
  BY DEF IInv
<1>1. ASSUME NEW h \in Hands, HandStep(h) PROVE BegunAreAwaited'
  <2>0. HandRight(h)
    BY DEF IInv
  <2>1. CASE Look(h) \/ FindNothing(h) \/ Count(h) \/ Chain(h) \/ ReceiveAnswer(h) \/ Leave(h)
    BY <1>0, <2>1 DEF Look, FindNothing, Count, Chain, ReceiveAnswer, Leave, BegunAreAwaited
  <2>2. CASE ReserveJob(h)
    <3>1. PICK j \in Duties : /\ status' = [status EXCEPT ![j] = "running"]
                              /\ begun' = begun \ {j}
      BY <2>2 DEF ReserveJob
    <3>2. \A i \in begun' : i \in begun /\ status'[i] = status[i]
      BY <1>0, <3>1 DEF TypeOK
    <3> QED BY <1>0, <2>2, <3>2 DEF ReserveJob, BegunAreAwaited
  <2>3. CASE Succeed(h) \/ Fail(h)
    <3>1. UNCHANGED <<stage, begun, followed, inTime>> /\ hand[h] = "execute"
          /\ \E s \in {"done", "pending", "failed"} : Write(h, s)
      BY <2>3 DEF Succeed, Fail
    <3>2. \A j \in duty[h] : status[j] = "running"
      BY <2>0, <3>1 DEF HandRight
    <3>3. \A j \in Duties \ duty[h] : status'[j] = status[j]
      BY <1>0, <3>1 DEF Write, TypeOK
    <3> QED BY <1>0, <3>1, <3>2, <3>3 DEF BegunAreAwaited, TypeOK
  <2> QED BY <1>1, <2>1, <2>2, <2>3 DEF HandStep
<1>2. CASE Flush \/ CoalescerReturns \/ CloseStop \/ GiveUp \/ ReturnMain \/ UNCHANGED vars
  BY <1>0, <1>2 DEF Flush, CoalescerReturns, CloseStop, GiveUp, ReturnMain, BegunAreAwaited
<1>3. CASE Insert
  BY <1>0, <1>3 DEF Insert, BegunAreAwaited
<1>4. CASE AllFinished
  <2>1. \A h \in Hands : hand[h] \notin {"execute", "chain", "await"}
    BY <1>4 DEF AllFinished, IInv, HandRight
  <2> QED BY <1>4, <2>1 DEF AllFinished, IInv, BegunInHands, BegunAreAwaited
<1> QED BY <1>1, <1>2, <1>3, <1>4 DEF Next

-----------------------------------------------------------------------------
LEMMA Invariance == ASSUME ConstantsOK PROVE Spec => []IInv
<1>1. Init => IInv
  BY InitIInv
<1>2. IInv /\ [Next]_vars => IInv'
  BY TypeStep, HandsStep, ExclusiveStep, BegunStep, AwaitedStep DEF IInv
<1> QED BY <1>1, <1>2, PTL DEF Spec

(* When main goes on without having given up, the row of every job that    *)
(* was in execution at the signal is written, and what follows a job that  *)
(* is done is in the table, whatever the insert coalescer has left behind. *)
THEOREM NoneLeftHalfDone ==
    ASSUME ConstantsOK PROVE Spec => []BegunAreAwaited
<1>1. IInv => BegunAreAwaited
  BY DEF IInv
<1> QED BY <1>1, Invariance, PTL
=============================================================================
