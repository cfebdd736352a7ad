------------------------- MODULE WriteArbiter_proofs -------------------------
(***************************************************************************)
(* That a dedup_key names one row, and that the id a client is given names *)
(* its own row, for any number of requests, batches of any size and        *)
(* channels of any capacity, through failing statements, failing commits   *)
(* and a restart.                                                          *)
(***************************************************************************)
EXTENDS WriteArbiter, TLAPS, SequenceTheorems

(* No two rows have the same key, not even in an open transaction.         *)
Distinct(rows) ==
    \A a, b \in DOMAIN rows :
        Key[rows[a].req] = Key[rows[b].req] /\ Key[rows[a].req] # NoKey => a = b

(* A handler goes on to its follow-up only with an id.                     *)
IInv ==
    /\ TypeOK
    /\ \A r \in Requests : handler[r] = "followup" => answer[r] \in Nat
    /\ Distinct(table) /\ Distinct(tx)

-----------------------------------------------------------------------------
LEMMA OpTypes ==
    /\ \A batch \in Seq(Requests) : InsertOp(batch) \in Ops
    /\ \A batch \in Seq(Nat) : DoneOp(batch) \in Ops
    /\ \A r \in Requests, id \in Nat : ExecOp(r, id) \in Ops
    /\ NoOp \in Ops
<1>1. <<>> \in Seq(Requests) /\ <<>> \in Seq(Nat)
  BY EmptySeq
<1>2. \A r \in Requests, id \in Nat : <<r>> \in Seq(Requests) /\ <<id>> \in Seq(Nat)
  OBVIOUS
<1> QED BY <1>1, <1>2 DEF InsertOp, DoneOp, ExecOp, NoOp, Ops

(* Only InsertRow adds a row, and only one that shares no key.             *)
LEMMA AppendDistinct ==
    ASSUME tx \in Seq(Row), Distinct(tx), NEW r \in Requests, ~IsDuplicate(r)
    PROVE  /\ Append(tx, [req |-> r, done |-> FALSE]) \in Seq(Row)
           /\ Distinct(Append(tx, [req |-> r, done |-> FALSE]))
<1> DEFINE row  == [req |-> r, done |-> FALSE]
           rows == Append(tx, row)
<1>1. row \in Row /\ row.req = r
  BY DEF Row
<1> HIDE DEF row
<1>2. /\ rows \in Seq(Row) /\ DOMAIN rows = 1..(Len(tx) + 1) /\ DOMAIN tx = 1..Len(tx)
      /\ Len(tx) \in Nat
      /\ \A a \in 1..Len(tx) : rows[a] = tx[a]
      /\ rows[Len(tx) + 1] = row
  BY <1>1
<1>3. \A a \in 1..Len(tx) : Key[r] = Key[tx[a].req] => Key[r] = NoKey
  BY <1>2 DEF IsDuplicate
<1> HIDE DEF rows
<1>4. Distinct(rows)
  BY <1>1, <1>2, <1>3 DEF Distinct
<1> QED BY <1>2, <1>4 DEF row, rows

(* The statements of a done batch leave the requests of the rows alone.    *)
LEMMA DoneDistinct ==
    ASSUME table \in Seq(Row), Distinct(table), NEW S
    PROVE  LET rows == [id \in DOMAIN table |->
                          IF id \in S THEN [table[id] EXCEPT !.done = TRUE] ELSE table[id]]
           IN  rows \in Seq(Row) /\ Distinct(rows)
<1> DEFINE e(id) == IF id \in S THEN [table[id] EXCEPT !.done = TRUE] ELSE table[id]
           rows  == [id \in DOMAIN table |-> e(id)]
<1>1. DOMAIN table = 1..Len(table) /\ Len(table) \in Nat
  OBVIOUS
<1>2. ASSUME NEW id \in DOMAIN table PROVE e(id) \in Row /\ e(id).req = table[id].req
  <2>1. table[id] \in Row
    BY <1>1, ElementOfSeq
  <2> QED BY <2>1 DEF Row
<1> HIDE DEF e
<1>3. rows \in Seq(Row) /\ DOMAIN rows = DOMAIN table
      /\ \A id \in DOMAIN table : rows[id].req = table[id].req
  BY <1>1, <1>2
<1> HIDE DEF rows
<1>4. Distinct(rows)
  BY <1>3 DEF Distinct
<1> QED BY <1>3, <1>4 DEF rows, e

-----------------------------------------------------------------------------
LEMMA InitIInv == Init => IInv
<1> SUFFICES ASSUME Init PROVE IInv
  OBVIOUS
<1>1. /\ <<>> \in Seq(Requests) /\ <<>> \in Seq(Nat) /\ <<>> \in Seq(Ops)
      /\ <<>> \in Seq(Row) /\ <<>> \in Seq(Answers) /\ Len(<<>>) = 0 /\ DOMAIN <<>> = {}
  BY EmptySeq
<1>2. PICK s \in Scenarios :
        /\ handler = [r \in Requests |-> IF r \in s.requests THEN "idle" ELSE "finished"]
        /\ faults = s.faults
  BY DEF Init
<1>3. faults \subseteq Faults
  BY <1>2, ScenariosAssumption
<1>4. handler \in [Requests -> {"idle", "finished"}]
  BY <1>2
<1>5. answer \in [Requests -> Answers \cup {Unanswered}] /\ resultCh \in [Requests -> Seq(Answers)]
  BY <1>1 DEF Init
<1>6. op \in Ops
  BY OpTypes DEF Init
<1>7. Len(insertBuf) < MaxBatch /\ Len(doneBuf) < MaxBatch
  BY <1>1, MaxBatchAssumption DEF Init
<1>8. TypeOK
  BY <1>1, <1>3, <1>4, <1>5, <1>6, <1>7 DEF Init, TypeOK
<1> QED BY <1>1, <1>4, <1>8 DEF IInv, Init, Distinct

LEMMA HandlerTypes ==
    ASSUME IInv, NEW r \in Requests, HandlerStep(r) PROVE IInv'
<1>0. TypeOK
  BY DEF IInv
<1> USE DEF handlerVars, channelVars, dbVars
<1>1. CASE Submit(r)
  <2>1. insertCh' \in Seq(Requests)
    BY <1>0, <1>1, AppendProperties DEF Submit, TypeOK
  <2>2. TypeOK'
    BY <1>0, <1>1, <2>1 DEF Submit, TypeOK
  <2> QED BY <1>0, <1>1, <2>2 DEF Submit, IInv, TypeOK, Distinct
<1>2. CASE ReceiveAnswer(r)
  <2>1. resultCh[r] \in Seq(Answers) /\ resultCh[r] # <<>>
    BY <1>0, <1>2 DEF ReceiveAnswer, TypeOK
  <2>2. Head(resultCh[r]) \in Answers /\ Tail(resultCh[r]) \in Seq(Answers)
    BY <2>1
  <2>3. /\ answer' \in [Requests -> Answers \cup {Unanswered}]
        /\ resultCh' \in [Requests -> Seq(Answers)]
    BY <1>0, <1>2, <2>2 DEF ReceiveAnswer, TypeOK
  <2>4. TypeOK'
    BY <1>0, <1>2, <2>3 DEF ReceiveAnswer, TypeOK
  <2>5. ASSUME NEW q \in Requests, handler'[q] = "followup" PROVE answer'[q] \in Nat
    <3>1. CASE q = r
      <4>1. answer'[r] = Head(resultCh[r]) /\ Head(resultCh[r]) > 0
        BY <1>0, <1>2, <2>5, <3>1 DEF ReceiveAnswer, TypeOK
      <4> QED BY <2>2, <3>1, <4>1 DEF Answers, Error
    <3>2. CASE q # r
      BY <1>0, <1>2, <2>5, <3>2 DEF ReceiveAnswer, IInv, TypeOK
    <3> QED BY <3>1, <3>2
  <2> QED BY <1>2, <2>4, <2>5 DEF ReceiveAnswer, IInv, Distinct
<1>3. CASE FollowUp(r)
  <2>1. ExecOp(r, answer[r]) \in Ops
    BY <1>3, OpTypes DEF FollowUp, IInv
  <2>2. arbiterCh' \in Seq(Ops)
    BY <1>0, <1>3, <2>1, AppendProperties DEF FollowUp, TypeOK
  <2>3. TypeOK'
    BY <1>0, <1>3, <2>2 DEF FollowUp, TypeOK
  <2> QED BY <1>0, <1>3, <2>3 DEF FollowUp, IInv, TypeOK, Distinct
<1> QED BY <1>1, <1>2, <1>3 DEF HandlerStep

(* The coalescers, reports of success and the stop: no row changes.        *)
LEMMA CoalescerTypes ==
    ASSUME IInv,
           \/ InsertCoalescer \/ DoneCoalescer \/ Stop
           \/ \E id \in DOMAIN table : ReportDone(id)
    PROVE  IInv'
<1>0. TypeOK /\ MaxBatch \in Nat \ {0}
  BY MaxBatchAssumption DEF IInv
<1> USE DEF handlerVars, channelVars, dbVars
<1>1. UNCHANGED <<handler, answer, table, tx>>
  BY DEF InsertCoalescer, TakeInsert, FlushInserts, CoalescerReturns, DoneCoalescer,
     TakeDone, FlushDones, Stop, ReportDone
<1>2. SUFFICES TypeOK'
  BY <1>1 DEF IInv, Distinct
<1>3. /\ <<>> \in Seq(Requests) /\ <<>> \in Seq(Nat) /\ Len(<<>>) = 0
  BY EmptySeq
<1>4. CASE TakeInsert
  <2> DEFINE pending == Append(insertBuf, Head(insertCh))
  <2>1. Head(insertCh) \in Requests /\ insertCh' \in Seq(Requests)
    BY <1>0, <1>4 DEF TakeInsert, TypeOK
  <2>2. pending \in Seq(Requests)
    BY <1>0, <2>1, AppendProperties DEF TypeOK
  <2>3. InsertOp(pending) \in Ops
    BY <2>2, OpTypes
  <2>4. /\ arbiterCh' = arbiterCh \/ arbiterCh' = Append(arbiterCh, InsertOp(pending))
        /\ insertBuf' = <<>> \/ (insertBuf' = pending /\ ~(Len(pending) >= MaxBatch))
    BY <1>4 DEF TakeInsert
  <2> HIDE DEF pending
  <2>5. arbiterCh' \in Seq(Ops)
    <3>1. Append(arbiterCh, InsertOp(pending)) \in Seq(Ops) /\ arbiterCh \in Seq(Ops)
      BY <1>0, <2>3, AppendProperties DEF TypeOK
    <3> QED BY <2>4, <3>1
  <2>6. insertBuf' \in Seq(Requests) /\ Len(insertBuf') < MaxBatch
    <3>1. CASE insertBuf' = <<>>
      BY <1>0, <1>3, <3>1
    <3>2. CASE insertBuf' = pending /\ ~(Len(pending) >= MaxBatch)
      <4>1. Len(pending) \in Nat
        BY <2>2, LenProperties
      <4> QED BY <1>0, <2>2, <3>2, <4>1
    <3> QED BY <2>4, <3>1, <3>2
  <2> QED BY <1>0, <1>4, <2>1, <2>5, <2>6 DEF TakeInsert, TypeOK
<1>5. CASE FlushInserts
  <2>1. InsertOp(insertBuf) \in Ops
    BY <1>0, OpTypes DEF TypeOK
  <2>2. arbiterCh' \in Seq(Ops)
    BY <1>0, <1>5, <2>1, AppendProperties DEF FlushInserts, TypeOK
  <2> QED BY <1>0, <1>3, <1>5, <2>2 DEF FlushInserts, TypeOK
<1>6. CASE TakeDone
  <2> DEFINE pending == Append(doneBuf, Head(doneCh))
  <2>1. Head(doneCh) \in Nat /\ doneCh' \in Seq(Nat)
    BY <1>0, <1>6 DEF TakeDone, TypeOK
  <2>2. pending \in Seq(Nat)
    BY <1>0, <2>1, AppendProperties DEF TypeOK
  <2>3. DoneOp(pending) \in Ops
    BY <2>2, OpTypes
  <2>4. /\ arbiterCh' = arbiterCh \/ arbiterCh' = Append(arbiterCh, DoneOp(pending))
        /\ doneBuf' = <<>> \/ (doneBuf' = pending /\ ~(Len(pending) >= MaxBatch))
    BY <1>6 DEF TakeDone
  <2> HIDE DEF pending
  <2>5. arbiterCh' \in Seq(Ops)
    <3>1. Append(arbiterCh, DoneOp(pending)) \in Seq(Ops) /\ arbiterCh \in Seq(Ops)
      BY <1>0, <2>3, AppendProperties DEF TypeOK
    <3> QED BY <2>4, <3>1
  <2>6. doneBuf' \in Seq(Nat) /\ Len(doneBuf') < MaxBatch
    <3>1. CASE doneBuf' = <<>>
      BY <1>0, <1>3, <3>1
    <3>2. CASE doneBuf' = pending /\ ~(Len(pending) >= MaxBatch)
      <4>1. Len(pending) \in Nat
        BY <2>2, LenProperties
      <4> QED BY <1>0, <2>2, <3>2, <4>1
    <3> QED BY <2>4, <3>1, <3>2
  <2> QED BY <1>0, <1>6, <2>1, <2>5, <2>6 DEF TakeDone, TypeOK
<1>7. CASE FlushDones
  <2>1. DoneOp(doneBuf) \in Ops
    BY <1>0, OpTypes DEF TypeOK
  <2>2. arbiterCh' \in Seq(Ops)
    BY <1>0, <1>7, <2>1, AppendProperties DEF FlushDones, TypeOK
  <2> QED BY <1>0, <1>3, <1>7, <2>2 DEF FlushDones, TypeOK
<1>8. CASE CoalescerReturns("insert") \/ CoalescerReturns("done")
  BY <1>0, <1>8 DEF CoalescerReturns, TypeOK
<1>9. CASE Stop
  BY <1>0, <1>9 DEF Stop, TypeOK
<1>10. ASSUME NEW id \in DOMAIN table, ReportDone(id) PROVE TypeOK'
  <2>1. id \in Nat
    BY <1>0 DEF TypeOK
  <2>2. doneCh' \in Seq(Nat) /\ reported' \in SUBSET Nat
    BY <1>0, <1>10, <2>1, AppendProperties DEF ReportDone, TypeOK
  <2> QED BY <1>0, <1>10, <2>2 DEF ReportDone, TypeOK
<1> QED BY <1>4, <1>5, <1>6, <1>7, <1>8, <1>9, <1>10 DEF InsertCoalescer, DoneCoalescer

LEMMA AnswerType ==
    ASSUME TypeOK, NEW r \in Requests, NEW a \in Answers, Answer(r, a)
    PROVE  resultCh' \in [Requests -> Seq(Answers)]
<1>1. <<a>> \in Seq(Answers)
  OBVIOUS
<1> QED BY <1>1 DEF Answer, TypeOK

(* One request of an insert batch: a row more at most, of a key that the   *)
(* transaction does not have yet.                                          *)
LEMMA InsertTypes == IInv /\ InsertNext => IInv'
<1> SUFFICES ASSUME IInv, InsertNext PROVE IInv'
  OBVIOUS
<1>0. TypeOK /\ tx \in Seq(Row) /\ Distinct(tx)
  BY DEF IInv, TypeOK
<1> USE DEF handlerVars, channelVars, dbVars
<1>1. op \in Ops /\ op.reqs # <<>> /\ op.reqs \in Seq(Requests)
  BY <1>0 DEF InsertNext, TypeOK, Ops
<1> DEFINE r == Head(op.reqs)
<1>2. r \in Requests /\ Tail(op.reqs) \in Seq(Requests)
  BY <1>1
<1>3. UNCHANGED <<handler, answer, insertCh, insertBuf, doneCh, doneBuf, arbiterCh, table,
                  linked, reported, running, stopping, faults>>
  BY DEF InsertNext
<1>4. InsertFails(r) \/ ((InsertRow(r) \/ IgnoreDuplicate(r)) /\ NextRequest)
  BY DEF InsertNext
<1> HIDE DEF r
<1>5. op' \in Ops
  <2>1. op' = [op EXCEPT !.reqs = Tail(op.reqs)]
    BY <1>4 DEF InsertFails, NextRequest
  <2> QED BY <1>1, <1>2, <2>1 DEF Ops
<1>6. UNCHANGED tx \/ (~IsDuplicate(r) /\ tx' = Append(tx, [req |-> r, done |-> FALSE]))
  BY <1>4 DEF InsertFails, InsertRow, IgnoreDuplicate
<1>7. tx' \in Seq(Row) /\ Distinct(tx')
  BY <1>0, <1>2, <1>6, AppendDistinct
<1>8. resultCh' \in [Requests -> Seq(Answers)]
  <2>1. Len(tx) + 1 \in Answers /\ 0 \in Answers /\ Error \in Answers
    BY <1>0 DEF Answers
  <2>2. PICK a \in Answers : Answer(r, a)
    BY <1>4, <2>1 DEF InsertFails, InsertRow, IgnoreDuplicate
  <2> QED BY <1>0, <1>2, <2>2, AnswerType
<1>9. TypeOK'
  BY <1>0, <1>3, <1>5, <1>7, <1>8 DEF TypeOK
<1>10. Distinct(table') /\ \A q \in Requests : handler'[q] = "followup" => answer'[q] \in Nat
  BY <1>3 DEF IInv
<1> QED BY <1>7, <1>9, <1>10 DEF IInv, Distinct

LEMMA ArbiterTypes == IInv /\ ArbiterStep => IInv'
<1> SUFFICES ASSUME IInv, ArbiterStep PROVE IInv'
  OBVIOUS
<1>0. TypeOK /\ table \in Seq(Row) /\ Distinct(table)
  BY DEF IInv, TypeOK
<1> USE DEF handlerVars, channelVars, dbVars
<1>1. CASE ArbiterTakes
  <2>1. op' \in Ops /\ arbiterCh' \in Seq(Ops)
    BY <1>0, <1>1 DEF ArbiterTakes, TypeOK
  <2>2. TypeOK'
    BY <1>0, <1>1, <2>1 DEF ArbiterTakes, TypeOK
  <2> QED BY <1>1, <2>2 DEF ArbiterTakes, IInv, Distinct
<1>2. CASE BeginFails
  <2>1. <<Error>> \in Seq(Answers)
    <3>1. Error \in Answers
      BY DEF Answers
    <3> QED BY <3>1
  <2>2. resultCh' \in [Requests -> Seq(Answers)]
    BY <1>0, <1>2, <2>1 DEF BeginFails, TypeOK
  <2>3. arbiterCh' \in Seq(Ops)
    BY <1>0, <1>2 DEF BeginFails, TypeOK
  <2>4. TypeOK'
    BY <1>0, <1>2, <2>2, <2>3 DEF BeginFails, TypeOK
  <2> QED BY <1>2, <2>4 DEF BeginFails, IInv, Distinct
<1>3. CASE InsertNext
  BY <1>3, InsertTypes
<1>4. CASE Commit
  <2>1. TypeOK'
    BY <1>0, <1>4, OpTypes DEF Commit, TypeOK
  <2> QED BY <1>4, <2>1 DEF Commit, IInv, Distinct
<1>5. CASE CommitDone
  <2>1. PICK S : table' = [id \in DOMAIN table |->
                    IF id \in S THEN [table[id] EXCEPT !.done = TRUE] ELSE table[id]]
    BY <1>5 DEF CommitDone
  <2>2. table' \in Seq(Row) /\ Distinct(table')
    BY <1>0, <2>1, DoneDistinct
  <2>3. TypeOK'
    BY <1>0, <1>5, <2>2, OpTypes DEF CommitDone, TypeOK
  <2> QED BY <1>5, <2>2, <2>3 DEF CommitDone, IInv, Distinct
<1>6. CASE Exec
  <2>1. handler' \in [Requests -> {"idle", "waiting", "followup", "executing", "finished"}]
        /\ \A r \in Requests : handler'[r] = "followup" => handler[r] = "followup"
    BY <1>0, <1>6 DEF Exec, TypeOK
  <2>2. linked' \in SUBSET Nat
    <3>1. DOMAIN table = 1..Len(table) /\ Len(table) \in Nat
      BY <1>0
    <3>2. DOMAIN table \subseteq Nat /\ linked \subseteq Nat
      BY <1>0, <3>1 DEF TypeOK
    <3>3. linked' \subseteq linked \cup DOMAIN table
      BY <1>6 DEF Exec
    <3> QED BY <3>2, <3>3
  <2>3. TypeOK'
    BY <1>0, <1>6, <2>1, <2>2, OpTypes DEF Exec, TypeOK
  <2> QED BY <1>6, <2>1, <2>3 DEF Exec, IInv, Distinct
<1> QED BY <1>1, <1>2, <1>3, <1>4, <1>5, <1>6 DEF ArbiterStep

LEMMA RestartTypes == IInv /\ Restart => IInv'
<1> SUFFICES ASSUME IInv, Restart PROVE IInv'
  OBVIOUS
<1>0. TypeOK /\ Distinct(table) /\ MaxBatch \in Nat \ {0}
  BY MaxBatchAssumption DEF IInv
<1>1. /\ <<>> \in Seq(Requests) /\ <<>> \in Seq(Nat) /\ <<>> \in Seq(Ops)
      /\ <<>> \in Seq(Answers) /\ Len(<<>>) = 0
  BY EmptySeq
<1>2. /\ handler' \in [Requests -> {"idle", "finished"}]
      /\ answer' \in [Requests -> Answers \cup {Unanswered}]
      /\ resultCh' \in [Requests -> Seq(Answers)]
  BY <1>0, <1>1 DEF Restart, TypeOK
<1>3. reported' \in SUBSET Nat
  BY <1>0 DEF Restart, TypeOK
<1>4. op' \in Ops /\ Len(insertBuf') < MaxBatch /\ Len(doneBuf') < MaxBatch
  BY <1>0, <1>1, OpTypes DEF Restart
<1>5. TypeOK'
  BY <1>0, <1>1, <1>2, <1>3, <1>4 DEF Restart, TypeOK
<1> QED BY <1>0, <1>2, <1>5 DEF Restart, IInv, Distinct

-----------------------------------------------------------------------------
(* INSERT OR IGNORE within one transaction after the other keeps the keys  *)
(* apart, whatever fails and whenever the process restarts.                *)
THEOREM OneRow == Spec => []OneRowPerKey
<1>1. IInv /\ [Next]_vars => IInv'
  <2>1. ASSUME IInv, UNCHANGED vars PROVE IInv'
    BY <2>1 DEF vars, handlerVars, channelVars, dbVars, IInv, TypeOK, Distinct
  <2> QED BY <2>1, HandlerTypes, CoalescerTypes, ArbiterTypes, RestartTypes DEF Next
<1>2. IInv => OneRowPerKey
  BY DEF IInv, OneRowPerKey, Distinct
<1> QED BY InitIInv, <1>1, <1>2, PTL DEF Spec

-----------------------------------------------------------------------------
(* The id of an answer is a row of the open or committed table, the        *)
(* request's own. An error, a duplicate or no answer names no row.         *)
RowOf(r, id) == id > 0 => id \in DOMAIN tx /\ tx[id].req = r

AnswerShape(r) ==
    /\ resultCh[r] # <<>> => Len(resultCh[r]) = 1 /\ RowOf(r, resultCh[r][1])
    /\ RowOf(r, answer[r])
    /\ handler[r] = "followup" => answer[r] > 0
    /\ handler[r] = "finished" /\ answer[r] > 0 => answer[r] \in linked

(* A follow-up on its way carries the id its handler was answered.         *)
FollowUpShape(o) ==
    o.kind = "exec" =>
        \E r \in Requests : /\ o.reqs = <<r>> /\ o.ids = <<answer[r]>> /\ answer[r] > 0
                            /\ handler[r] \in {"executing", "finished"}

OnTheWay == Range(arbiterCh) \cup {op}

(* The transaction starts from the committed table and only an insert      *)
(* batch is ahead of it. *)
TxShape ==
    /\ DOMAIN table \subseteq DOMAIN tx
    /\ \A id \in DOMAIN table : tx[id] = table[id]
    /\ op.kind # "insert" => tx = table
    /\ linked \subseteq DOMAIN table

AnswersShape ==
    /\ \A r \in Requests : AnswerShape(r)
    /\ \A o \in OnTheWay : FollowUpShape(o)

(* The inductive invariant. A commit that fails takes rows back that were  *)
(* answered for; where none can fail every answer has its row.             *)
UsableInv ==
    /\ IInv
    /\ TxShape
    /\ "commitfail" \notin faults => AnswersShape

-----------------------------------------------------------------------------
LEMMA RangeFacts ==
    ASSUME NEW S, NEW s \in Seq(S)
    PROVE  /\ \A e \in S : Range(Append(s, e)) = Range(s) \cup {e}
           /\ s # <<>> => Head(s) \in Range(s) /\ Range(Tail(s)) \subseteq Range(s)
<1>1. DOMAIN s = 1..Len(s) /\ Len(s) \in Nat
  OBVIOUS
<1>2. ASSUME NEW e \in S PROVE Range(Append(s, e)) = Range(s) \cup {e}
  <2>1. /\ DOMAIN Append(s, e) = 1..(Len(s) + 1)
        /\ \A i \in 1..Len(s) : Append(s, e)[i] = s[i]
        /\ Append(s, e)[Len(s) + 1] = e
    OBVIOUS
  <2>2. \A i \in 1..(Len(s) + 1) : i \in 1..Len(s) \/ i = Len(s) + 1
    BY <1>1
  <2>3. Range(Append(s, e)) \subseteq Range(s) \cup {e}
    BY <1>1, <2>1, <2>2 DEF Range
  <2>4. ASSUME NEW x \in Range(s) PROVE x \in Range(Append(s, e))
    <3>1. PICK i \in 1..Len(s) : s[i] = x
      BY <1>1 DEF Range
    <3>2. i \in 1..(Len(s) + 1) /\ Append(s, e)[i] = x
      BY <1>1, <2>1, <3>1
    <3> QED BY <2>1, <3>2 DEF Range
  <2>5. e \in Range(Append(s, e))
    <3>1. Len(s) + 1 \in 1..(Len(s) + 1)
      BY <1>1
    <3> QED BY <2>1, <3>1 DEF Range
  <2> QED BY <2>3, <2>4, <2>5
<1>3. ASSUME s # <<>> PROVE Head(s) \in Range(s) /\ Range(Tail(s)) \subseteq Range(s)
  <2>1. Len(s) >= 1 /\ Head(s) = s[1]
    BY <1>3, EmptySeq
  <2>2. DOMAIN Tail(s) = 1..(Len(s) - 1) /\ \A i \in 1..(Len(s) - 1) : Tail(s)[i] = s[i + 1]
    BY <1>3
  <2>3. Head(s) \in Range(s)
    BY <1>1, <2>1 DEF Range
  <2>4. ASSUME NEW x \in Range(Tail(s)) PROVE x \in Range(s)
    <3>1. PICK i \in 1..(Len(s) - 1) : x = s[i + 1]
      BY <2>2 DEF Range
    <3>2. i + 1 \in 1..Len(s)
      BY <1>1
    <3> QED BY <1>1, <3>1, <3>2 DEF Range
  <2> QED BY <2>3, <2>4
<1> QED BY <1>2, <1>3

LEMMA FollowUpKept ==
    ASSUME NEW o, FollowUpShape(o),
           \A r \in Requests : handler[r] \in {"executing", "finished"} =>
                answer'[r] = answer[r] /\ handler'[r] \in {"executing", "finished"}
    PROVE  FollowUpShape(o)'
  BY DEF FollowUpShape

LEMMA AnswerKept ==
    ASSUME NEW r \in Requests, AnswerShape(r), resultCh'[r] = resultCh[r],
           answer'[r] = answer[r], handler'[r] = handler[r], linked \subseteq linked',
           DOMAIN tx \subseteq DOMAIN tx', \A id \in DOMAIN tx : tx'[id].req = tx[id].req
    PROVE  AnswerShape(r)'
  BY DEF AnswerShape, RowOf

(* A step that leaves answers and rows alone and puts no follow-up on its  *)
(* way keeps the invariant. *)
LEMMA UsableKept ==
    ASSUME UsableInv, IInv', UNCHANGED <<handler, answer, resultCh, table, tx, linked>>,
           faults' = faults, op'.kind # "insert" => tx = table,
           \A o \in OnTheWay' : o \in OnTheWay \/ o.kind # "exec"
    PROVE  UsableInv'
<1>1. TxShape'
  BY DEF UsableInv, TxShape
<1>2. ASSUME "commitfail" \notin faults' PROVE AnswersShape'
  <2>1. AnswersShape
    BY <1>2 DEF UsableInv
  <2>2. \A r \in Requests : AnswerShape(r)'
    BY <2>1, AnswerKept DEF AnswersShape
  <2>3. ASSUME NEW o \in OnTheWay' PROVE FollowUpShape(o)'
    <3>1. CASE o \in OnTheWay
      BY <2>1, <3>1, FollowUpKept DEF AnswersShape
    <3>2. CASE o.kind # "exec"
      BY <3>2 DEF FollowUpShape
    <3> QED BY <3>1, <3>2
  <2> QED BY <2>2, <2>3 DEF AnswersShape
<1> QED BY <1>1, <1>2 DEF UsableInv

LEMMA InitUsable == Init => UsableInv
<1> SUFFICES ASSUME Init PROVE UsableInv
  OBVIOUS
<1>1. IInv
  BY InitIInv
<1>2. table = <<>> /\ tx = <<>> /\ linked = {} /\ arbiterCh = <<>> /\ op = NoOp
  BY DEF Init
<1>3. TxShape
  BY <1>2 DEF TxShape
<1>4. ASSUME NEW r \in Requests PROVE AnswerShape(r)
  <2>1. resultCh[r] = <<>> /\ answer[r] = -2 /\ handler[r] # "followup"
    BY DEF Init, Unanswered
  <2> QED BY <2>1 DEF AnswerShape, RowOf
<1>5. ASSUME NEW o \in OnTheWay PROVE FollowUpShape(o)
  <2>1. o = NoOp
    BY <1>2 DEF OnTheWay, Range
  <2> QED BY <2>1 DEF NoOp, FollowUpShape
<1> QED BY <1>1, <1>3, <1>4, <1>5 DEF UsableInv, AnswersShape

LEMMA HandlerUsable ==
    ASSUME UsableInv, NEW r \in Requests, HandlerStep(r)
    PROVE  UsableInv'
<1>0. IInv' /\ TypeOK /\ TypeOK'
  BY HandlerTypes DEF UsableInv, IInv
<1> USE DEF handlerVars, channelVars, dbVars
<1>1. UNCHANGED <<table, tx, linked, op, faults>>
  BY DEF HandlerStep, Submit, ReceiveAnswer, FollowUp
<1>2. TxShape'
  BY <1>1 DEF UsableInv, TxShape
<1>3. ASSUME "commitfail" \notin faults' PROVE AnswersShape'
  <2>0. AnswersShape
    BY <1>1, <1>3 DEF UsableInv
  <2>1. CASE Submit(r)
    <3>1. /\ handler[r] = "idle" /\ handler' = [handler EXCEPT ![r] = "waiting"]
          /\ UNCHANGED <<answer, resultCh, arbiterCh>>
      BY <2>1 DEF Submit
    <3>2. ASSUME NEW q \in Requests PROVE AnswerShape(q)'
      <4>1. AnswerShape(q) /\ (handler'[q] = handler[q] \/ handler'[q] = "waiting")
        BY <1>0, <2>0, <3>1 DEF AnswersShape, TypeOK
      <4> QED BY <1>1, <3>1, <4>1 DEF AnswerShape, RowOf
    <3>3. ASSUME NEW o \in OnTheWay' PROVE FollowUpShape(o)'
      <4>1. FollowUpShape(o)
        BY <1>1, <2>0, <3>1 DEF AnswersShape, OnTheWay
      <4>2. \A q \in Requests : handler[q] \in {"executing", "finished"} => handler'[q] = handler[q]
        BY <1>0, <3>1 DEF TypeOK
      <4> QED BY <3>1, <4>1, <4>2, FollowUpKept
    <3> QED BY <3>2, <3>3 DEF AnswersShape
  <2>2. CASE ReceiveAnswer(r)
    <3> DEFINE a == Head(resultCh[r])
    <3>1. /\ handler[r] = "waiting" /\ resultCh[r] # <<>> /\ UNCHANGED arbiterCh
          /\ answer' = [answer EXCEPT ![r] = a]
          /\ resultCh' = [resultCh EXCEPT ![r] = Tail(@)]
          /\ handler' = [handler EXCEPT ![r] = IF a > 0 THEN "followup" ELSE "finished"]
      BY <2>2 DEF ReceiveAnswer
    <3>2. /\ resultCh[r] \in Seq(Answers) /\ Len(resultCh[r]) = 1 /\ a = resultCh[r][1]
          /\ RowOf(r, a)
      BY <1>0, <2>0, <3>1 DEF AnswersShape, AnswerShape, TypeOK
    <3>3. Tail(resultCh[r]) = <<>>
      <4>1. Tail(resultCh[r]) \in Seq(Answers) /\ Len(Tail(resultCh[r])) = 0
        BY <3>1, <3>2
      <4> QED BY <4>1, EmptySeq
    <3>4. ASSUME NEW q \in Requests PROVE AnswerShape(q)'
      <4>1. CASE q = r
        <5>1. /\ resultCh'[r] = <<>> /\ answer'[r] = a
              /\ handler'[r] = IF a > 0 THEN "followup" ELSE "finished"
          BY <1>0, <3>1, <3>3 DEF TypeOK
        <5> HIDE DEF a
        <5> QED BY <1>1, <3>2, <4>1, <5>1 DEF AnswerShape, RowOf
      <4>2. CASE q # r
        <5>1. answer'[q] = answer[q] /\ resultCh'[q] = resultCh[q] /\ handler'[q] = handler[q]
          BY <1>0, <3>1, <4>2 DEF TypeOK
        <5> QED BY <1>1, <2>0, <5>1, AnswerKept DEF AnswersShape
      <4> QED BY <4>1, <4>2
    <3>5. ASSUME NEW o \in OnTheWay' PROVE FollowUpShape(o)'
      <4>1. FollowUpShape(o)
        BY <1>1, <2>0, <3>1 DEF AnswersShape, OnTheWay
      <4>2. \A q \in Requests : handler[q] \in {"executing", "finished"} =>
                answer'[q] = answer[q] /\ handler'[q] = handler[q]
        BY <1>0, <3>1 DEF TypeOK
      <4> QED BY <4>1, <4>2, FollowUpKept
    <3> QED BY <3>4, <3>5 DEF AnswersShape
  <2>3. CASE FollowUp(r)
    <3> DEFINE f == ExecOp(r, answer[r])
    <3>1. /\ handler[r] = "followup" /\ arbiterCh' = Append(arbiterCh, f)
          /\ handler' = [handler EXCEPT ![r] = "executing"]
          /\ UNCHANGED <<answer, resultCh>>
      BY <2>3 DEF FollowUp
    <3>2. answer[r] > 0
      BY <2>0, <3>1 DEF AnswersShape, AnswerShape
    <3>3. ASSUME NEW q \in Requests PROVE AnswerShape(q)'
      <4>1. AnswerShape(q) /\ (handler'[q] = handler[q] \/ handler'[q] = "executing")
        BY <1>0, <2>0, <3>1 DEF AnswersShape, TypeOK
      <4> QED BY <1>1, <3>1, <4>1 DEF AnswerShape, RowOf
    <3>4. \A o \in OnTheWay' : o \in OnTheWay \/ o = f
      <4>1. f \in Ops /\ arbiterCh \in Seq(Ops)
        BY <1>0, <3>1, OpTypes DEF UsableInv, IInv, TypeOK
      <4>2. Range(arbiterCh') = Range(arbiterCh) \cup {f}
        BY <3>1, <4>1, RangeFacts
      <4> HIDE DEF f
      <4> QED BY <1>1, <4>2 DEF OnTheWay
    <3>5. ASSUME NEW o \in OnTheWay' PROVE FollowUpShape(o)'
      <4>1. CASE o \in OnTheWay
        <5>1. \A q \in Requests : handler[q] \in {"executing", "finished"} =>
                handler'[q] \in {"executing", "finished"}
          BY <1>0, <3>1 DEF TypeOK
        <5> QED BY <2>0, <3>1, <4>1, <5>1, FollowUpKept DEF AnswersShape
      <4>2. CASE o = f
        <5>1. o.reqs = <<r>> /\ o.ids = <<answer'[r]>> /\ answer'[r] > 0
          BY <3>1, <3>2, <4>2 DEF ExecOp
        <5>2. handler'[r] = "executing"
          BY <1>0, <3>1 DEF TypeOK
        <5> QED BY <5>1, <5>2 DEF FollowUpShape
      <4> QED BY <3>4, <4>1, <4>2
    <3> QED BY <3>3, <3>5 DEF AnswersShape
  <2> QED BY <2>1, <2>2, <2>3 DEF HandlerStep
<1> QED BY <1>0, <1>2, <1>3 DEF UsableInv
LEMMA CoalescerUsable ==
    ASSUME UsableInv,
           \/ InsertCoalescer \/ DoneCoalescer \/ Stop
           \/ \E id \in DOMAIN table : ReportDone(id)
    PROVE  UsableInv'
<1>0. IInv' /\ TypeOK /\ TypeOK' /\ TxShape
  BY CoalescerTypes DEF UsableInv, IInv
<1> USE DEF handlerVars, channelVars, dbVars
<1>1. UNCHANGED <<handler, answer, resultCh, table, tx, linked, op, faults>>
  BY DEF InsertCoalescer, TakeInsert, FlushInserts, CoalescerReturns, DoneCoalescer,
     TakeDone, FlushDones, Stop, ReportDone
<1>2. \/ UNCHANGED arbiterCh
      \/ \E o \in Ops : o.kind # "exec" /\ arbiterCh' = Append(arbiterCh, o)
  <2>1. CASE TakeInsert
    <3> DEFINE pending == Append(insertBuf, Head(insertCh))
    <3>1. pending \in Seq(Requests)
      <4>1. insertCh \in Seq(Requests) /\ insertCh # <<>> /\ insertBuf \in Seq(Requests)
        BY <1>0, <2>1 DEF TakeInsert, TypeOK
      <4> QED BY <4>1
    <3>2. InsertOp(pending) \in Ops /\ InsertOp(pending).kind = "insert"
      BY <3>1, OpTypes DEF InsertOp
    <3> QED BY <2>1, <3>2 DEF TakeInsert
  <2>2. CASE FlushInserts
    <3>1. InsertOp(insertBuf) \in Ops /\ InsertOp(insertBuf).kind = "insert"
      BY <1>0, OpTypes DEF InsertOp, TypeOK
    <3> QED BY <2>2, <3>1 DEF FlushInserts
  <2>3. CASE TakeDone
    <3> DEFINE pending == Append(doneBuf, Head(doneCh))
    <3>1. pending \in Seq(Nat)
      <4>1. doneCh \in Seq(Nat) /\ doneCh # <<>> /\ doneBuf \in Seq(Nat)
        BY <1>0, <2>3 DEF TakeDone, TypeOK
      <4> QED BY <4>1
    <3>2. DoneOp(pending) \in Ops /\ DoneOp(pending).kind = "done"
      BY <3>1, OpTypes DEF DoneOp
    <3> QED BY <2>3, <3>2 DEF TakeDone
  <2>4. CASE FlushDones
    <3>1. DoneOp(doneBuf) \in Ops /\ DoneOp(doneBuf).kind = "done"
      BY <1>0, OpTypes DEF DoneOp, TypeOK
    <3> QED BY <2>4, <3>1 DEF FlushDones
  <2>5. CASE \/ CoalescerReturns("insert") \/ CoalescerReturns("done") \/ Stop
             \/ \E id \in DOMAIN table : ReportDone(id)
    BY <2>5 DEF CoalescerReturns, Stop, ReportDone
  <2> QED BY <2>1, <2>2, <2>3, <2>4, <2>5 DEF InsertCoalescer, DoneCoalescer
<1>3. ASSUME NEW o \in OnTheWay' PROVE o \in OnTheWay \/ o.kind # "exec"
  <2>1. CASE UNCHANGED arbiterCh
    BY <1>1, <2>1 DEF OnTheWay
  <2>2. ASSUME NEW n \in Ops, n.kind # "exec", arbiterCh' = Append(arbiterCh, n)
        PROVE  o \in OnTheWay \/ o.kind # "exec"
    <3>1. Range(arbiterCh') = Range(arbiterCh) \cup {n}
      BY <1>0, <2>2, RangeFacts DEF TypeOK
    <3> QED BY <1>1, <2>2, <3>1 DEF OnTheWay
  <2> QED BY <1>2, <2>1, <2>2
<1>4. op'.kind # "insert" => tx = table
  BY <1>0, <1>1 DEF TxShape
<1> QED BY <1>0, <1>1, <1>3, <1>4, UsableKept

LEMMA InsertUsable ==
    ASSUME UsableInv, InsertNext
    PROVE  UsableInv'
<1>0. IInv' /\ TypeOK /\ TypeOK' /\ TxShape
  BY InsertTypes DEF UsableInv, IInv
<1> USE DEF handlerVars, channelVars, dbVars
<1>1. /\ UNCHANGED <<handler, answer, arbiterCh, table, linked, faults>>
      /\ op.kind = "insert" /\ op.reqs # <<>>
  BY DEF InsertNext
<1>2. PICK r : r = Head(op.reqs)
  OBVIOUS
<1>3. /\ r \in Requests /\ op \in Ops
      /\ InsertFails(r) \/ ((InsertRow(r) \/ IgnoreDuplicate(r)) /\ NextRequest)
  BY <1>0, <1>1, <1>2 DEF InsertNext, TypeOK, Ops
<1>4. op' = [op EXCEPT !.reqs = Tail(op.reqs)]
  BY <1>3 DEF InsertFails, NextRequest
<1>5. op'.kind = "insert"
  BY <1>1, <1>3, <1>4 DEF Ops
<1>6. /\ tx \in Seq(Row) /\ DOMAIN tx = 1..Len(tx) /\ Len(tx) \in Nat
  BY <1>0 DEF TypeOK
<1>7. /\ DOMAIN tx \subseteq DOMAIN tx' /\ \A id \in DOMAIN tx : tx'[id] = tx[id]
      /\ InsertRow(r) => Len(tx) + 1 \in DOMAIN tx' /\ tx'[Len(tx) + 1].req = r
  <2>1. CASE InsertRow(r)
    <3> DEFINE row == [req |-> r, done |-> FALSE]
    <3>1. row \in Row /\ row.req = r /\ tx' = Append(tx, row)
      BY <1>3, <2>1 DEF InsertRow, Row
    <3> HIDE DEF row
    <3>2. /\ DOMAIN tx' = 1..(Len(tx) + 1) /\ tx'[Len(tx) + 1] = row
          /\ \A id \in 1..Len(tx) : tx'[id] = tx[id]
      BY <1>6, <3>1
    <3> QED BY <1>6, <3>1, <3>2
  <2>2. CASE ~InsertRow(r)
    BY <1>3, <2>2 DEF InsertFails, IgnoreDuplicate
  <2> QED BY <2>1, <2>2
<1>8. TxShape'
  BY <1>0, <1>1, <1>5, <1>7 DEF TxShape
<1>9. PICK a : Answer(r, a) /\ ((InsertRow(r) /\ a = Len(tx) + 1) \/ a = 0 \/ a = Error)
  BY <1>3 DEF InsertFails, InsertRow, IgnoreDuplicate
<1>10. ASSUME "commitfail" \notin faults' PROVE AnswersShape'
  <2>0. AnswersShape
    BY <1>1, <1>10 DEF UsableInv
  <2>1. ASSUME NEW q \in Requests PROVE AnswerShape(q)'
    <3>1. CASE q = r
      <4>1. resultCh'[r] = <<a>>
        BY <1>0, <1>3, <1>9 DEF Answer, TypeOK
      <4>2. RowOf(r, a)'
        BY <1>7, <1>9 DEF RowOf, Error
      <4>3. RowOf(r, answer[r])'
        BY <1>1, <1>3, <1>7, <2>0 DEF AnswersShape, AnswerShape, RowOf
      <4>4. Len(<<a>>) = 1 /\ <<a>>[1] = a
        OBVIOUS
      <4> QED BY <1>1, <2>0, <3>1, <4>1, <4>2, <4>3, <4>4 DEF AnswersShape, AnswerShape, RowOf
    <3>2. CASE q # r
      <4>1. resultCh'[q] = resultCh[q]
        BY <1>0, <1>9, <3>2 DEF Answer, TypeOK
      <4> QED BY <1>1, <1>7, <2>0, <4>1, AnswerKept DEF AnswersShape
    <3> QED BY <3>1, <3>2
  <2>2. ASSUME NEW o \in OnTheWay' PROVE FollowUpShape(o)'
    <3>1. CASE o \in OnTheWay
      BY <1>1, <2>0, <3>1, FollowUpKept DEF AnswersShape
    <3>2. CASE o = op'
      BY <1>5, <3>2 DEF FollowUpShape
    <3> QED BY <1>1, <3>1, <3>2 DEF OnTheWay
  <2> QED BY <2>1, <2>2 DEF AnswersShape
<1> QED BY <1>0, <1>8, <1>10 DEF UsableInv

LEMMA ArbiterUsable ==
    ASSUME UsableInv, ArbiterStep
    PROVE  UsableInv'
<1>0. IInv' /\ TypeOK /\ TypeOK' /\ TxShape /\ arbiterCh \in Seq(Ops)
  BY ArbiterTypes DEF UsableInv, IInv, TypeOK
<1> USE DEF handlerVars, channelVars, dbVars
<1>1. CASE ArbiterTakes
  <2>1. /\ UNCHANGED <<handler, answer, resultCh, table, tx, linked, faults>>
        /\ op = NoOp /\ arbiterCh # <<>> /\ op' = Head(arbiterCh) /\ arbiterCh' = Tail(arbiterCh)
    BY <1>1 DEF ArbiterTakes
  <2>2. Head(arbiterCh) \in Range(arbiterCh) /\ Range(Tail(arbiterCh)) \subseteq Range(arbiterCh)
    BY <1>0, <2>1, RangeFacts
  <2>3. \A o \in OnTheWay' : o \in OnTheWay
    BY <2>1, <2>2 DEF OnTheWay
  <2>4. tx = table
    BY <1>0, <2>1 DEF TxShape, NoOp
  <2> QED BY <1>0, <2>1, <2>3, <2>4, UsableKept
<1>2. CASE BeginFails
  <2> DEFINE failed == Range(Head(arbiterCh).reqs)
  <2>1. /\ UNCHANGED <<handler, answer, table, tx, linked, op, faults>>
        /\ arbiterCh # <<>> /\ arbiterCh' = Tail(arbiterCh)
        /\ resultCh' = [r \in Requests |-> IF r \in failed THEN <<Error>> ELSE resultCh[r]]
    BY <1>2 DEF BeginFails
  <2> HIDE DEF failed
  <2>2. \A o \in OnTheWay' : o \in OnTheWay
    BY <1>0, <2>1, RangeFacts DEF OnTheWay
  <2>3. TxShape'
    BY <1>0, <2>1 DEF TxShape
  <2>4. ASSUME "commitfail" \notin faults' PROVE AnswersShape'
    <3>0. AnswersShape
      BY <2>1, <2>4 DEF UsableInv
    <3>1. ASSUME NEW r \in Requests PROVE AnswerShape(r)'
      <4>1. CASE r \in failed
        <5>1. resultCh'[r] = <<Error>> /\ Len(<<Error>>) = 1 /\ <<Error>>[1] = Error
          BY <2>1, <4>1
        <5>2. RowOf(r, Error)'
          BY DEF RowOf, Error
        <5> QED BY <2>1, <3>0, <5>1, <5>2 DEF AnswersShape, AnswerShape, RowOf
      <4>2. CASE r \notin failed
        BY <2>1, <3>0, <4>2, AnswerKept DEF AnswersShape
      <4> QED BY <4>1, <4>2
    <3>2. \A o \in OnTheWay' : FollowUpShape(o)'
      BY <2>1, <2>2, <3>0, FollowUpKept DEF AnswersShape
    <3> QED BY <3>1, <3>2 DEF AnswersShape
  <2> QED BY <1>0, <2>3, <2>4 DEF UsableInv
<1>3. CASE InsertNext
  BY <1>3, InsertUsable
<1>4. CASE Commit
  <2>1. /\ UNCHANGED <<handler, answer, resultCh, arbiterCh, linked, faults>>
        /\ op' = NoOp /\ table' = tx'
        /\ (UNCHANGED tx \/ ("commitfail" \in faults /\ table' = table))
    BY <1>4 DEF Commit
  <2>2. TxShape'
    BY <1>0, <2>1 DEF TxShape
  <2>3. ASSUME "commitfail" \notin faults' PROVE AnswersShape'
    <3>0. AnswersShape /\ tx' = tx
      BY <2>1, <2>3 DEF UsableInv
    <3>1. \A r \in Requests : AnswerShape(r)'
      BY <2>1, <3>0, AnswerKept DEF AnswersShape
    <3>2. ASSUME NEW o \in OnTheWay' PROVE FollowUpShape(o)'
      <4>1. CASE o \in OnTheWay
        BY <2>1, <3>0, <4>1, FollowUpKept DEF AnswersShape
      <4>2. CASE o = NoOp
        BY <4>2 DEF FollowUpShape, NoOp
      <4> QED BY <2>1, <4>1, <4>2 DEF OnTheWay
    <3> QED BY <3>1, <3>2 DEF AnswersShape
  <2> QED BY <1>0, <2>2, <2>3 DEF UsableInv
<1>5. CASE CommitDone
  <2>1. PICK S : /\ table' = [id \in DOMAIN table |->
                      IF id \in S THEN [table[id] EXCEPT !.done = TRUE] ELSE table[id]]
                 /\ tx' = table' /\ op' = NoOp /\ op.kind = "done"
                 /\ UNCHANGED <<handler, answer, resultCh, arbiterCh, linked, faults>>
    BY <1>5 DEF CommitDone
  <2>2. tx = table /\ \A id \in DOMAIN table : table[id] \in Row
    <3>1. table \in Seq(Row) /\ DOMAIN table = 1..Len(table)
      BY <1>0 DEF TypeOK
    <3> QED BY <1>0, <2>1, <3>1, ElementOfSeq DEF TxShape
  <2>3. DOMAIN tx' = DOMAIN tx /\ \A id \in DOMAIN tx : tx'[id].req = tx[id].req
    <3>1. DOMAIN table' = DOMAIN table
      BY <2>1
    <3>2. \A id \in DOMAIN table : table'[id].req = table[id].req
      BY <2>1, <2>2 DEF Row
    <3> QED BY <2>1, <2>2, <3>1, <3>2
  <2>4. TxShape'
    BY <1>0, <2>1, <2>2, <2>3 DEF TxShape
  <2>5. ASSUME "commitfail" \notin faults' PROVE AnswersShape'
    <3>0. AnswersShape
      BY <2>1, <2>5 DEF UsableInv
    <3>1. \A r \in Requests : AnswerShape(r)'
      BY <2>1, <2>3, <3>0, AnswerKept DEF AnswersShape
    <3>2. ASSUME NEW o \in OnTheWay' PROVE FollowUpShape(o)'
      <4>1. CASE o \in OnTheWay
        BY <2>1, <3>0, <4>1, FollowUpKept DEF AnswersShape
      <4>2. CASE o = NoOp
        BY <4>2 DEF FollowUpShape, NoOp
      <4> QED BY <2>1, <4>1, <4>2 DEF OnTheWay
    <3> QED BY <3>1, <3>2 DEF AnswersShape
  <2> QED BY <1>0, <2>4, <2>5 DEF UsableInv
<1>6. CASE Exec
  <2>1. /\ linked' = linked \cup (Range(op.ids) \cap DOMAIN table)
        /\ handler' = [handler EXCEPT ![Head(op.reqs)] = "finished"]
        /\ op' = NoOp /\ op.kind = "exec"
        /\ UNCHANGED <<answer, resultCh, arbiterCh, table, tx, faults>>
    BY <1>6 DEF Exec
  <2>2. tx = table
    BY <1>0, <2>1 DEF TxShape
  <2>3. TxShape'
    BY <1>0, <2>1, <2>2 DEF TxShape
  <2>4. ASSUME "commitfail" \notin faults' PROVE AnswersShape'
    <3>0. AnswersShape
      BY <2>1, <2>4 DEF UsableInv
    <3>1. PICK r \in Requests : /\ op.reqs = <<r>> /\ op.ids = <<answer[r]>> /\ answer[r] > 0
                                /\ handler[r] \in {"executing", "finished"}
      BY <2>1, <3>0 DEF AnswersShape, OnTheWay, FollowUpShape
    <3>2. handler' = [handler EXCEPT ![r] = "finished"]
      BY <2>1, <3>1
    <3>3. answer[r] \in linked'
      <4>1. answer[r] \in DOMAIN table
        BY <2>2, <3>0, <3>1 DEF AnswersShape, AnswerShape, RowOf
      <4>2. answer[r] \in Range(op.ids)
        <5>1. DOMAIN op.ids = 1..1 /\ op.ids[1] = answer[r]
          BY <3>1
        <5> QED BY <5>1 DEF Range
      <4> QED BY <2>1, <4>1, <4>2
    <3>4. ASSUME NEW q \in Requests PROVE AnswerShape(q)'
      <4>1. CASE q = r
        <5>1. handler'[r] = "finished"
          BY <1>0, <3>2 DEF TypeOK
        <5> QED BY <2>1, <3>0, <3>3, <4>1, <5>1 DEF AnswersShape, AnswerShape, RowOf
      <4>2. CASE q # r
        <5>1. handler'[q] = handler[q] /\ linked \subseteq linked'
          BY <1>0, <2>1, <3>2, <4>2 DEF TypeOK
        <5> QED BY <2>1, <3>0, <5>1, AnswerKept DEF AnswersShape
      <4> QED BY <4>1, <4>2
    <3>5. ASSUME NEW o \in OnTheWay' PROVE FollowUpShape(o)'
      <4>1. CASE o \in OnTheWay
        <5>1. \A q \in Requests : handler[q] \in {"executing", "finished"} =>
                handler'[q] \in {"executing", "finished"}
          BY <1>0, <3>2 DEF TypeOK
        <5> QED BY <2>1, <3>0, <4>1, <5>1, FollowUpKept DEF AnswersShape
      <4>2. CASE o = NoOp
        BY <4>2 DEF FollowUpShape, NoOp
      <4> QED BY <2>1, <4>1, <4>2 DEF OnTheWay
    <3> QED BY <3>4, <3>5 DEF AnswersShape
  <2> QED BY <1>0, <2>3, <2>4 DEF UsableInv
<1> QED BY <1>1, <1>2, <1>3, <1>4, <1>5, <1>6 DEF ArbiterStep

(* A restart forgets every answer but those that have been used, and keeps *)
(* the committed rows those are for. *)
LEMMA RestartUsable ==
    ASSUME UsableInv, Restart
    PROVE  UsableInv'
<1>0. IInv' /\ TypeOK /\ TxShape
  BY RestartTypes DEF UsableInv, IInv
<1>1. /\ handler' = [r \in Requests |-> IF handler[r] = "finished" THEN "finished" ELSE "idle"]
      /\ answer' = [r \in Requests |-> IF handler[r] = "finished" THEN answer[r] ELSE Unanswered]
      /\ resultCh' = [r \in Requests |-> <<>>]
      /\ arbiterCh' = <<>> /\ op' = NoOp /\ tx' = table
      /\ faults' = faults \ {"stop", "crash"} /\ UNCHANGED <<table, linked>>
  BY DEF Restart
<1>2. TxShape'
  BY <1>0, <1>1 DEF TxShape
<1>3. ASSUME "commitfail" \notin faults' PROVE AnswersShape'
  <2>0. AnswersShape
    BY <1>1, <1>3 DEF UsableInv
  <2>1. ASSUME NEW r \in Requests PROVE AnswerShape(r)'
    <3>1. CASE handler[r] = "finished"
      <4>1. RowOf(r, answer[r])'
        BY <1>0, <1>1, <2>0, <3>1 DEF AnswersShape, AnswerShape, RowOf, TxShape
      <4>2. resultCh'[r] = <<>> /\ answer'[r] = answer[r] /\ handler'[r] = "finished"
        BY <1>1, <3>1
      <4> QED BY <1>1, <2>0, <3>1, <4>2, <4>1 DEF AnswersShape, AnswerShape, RowOf
    <3>2. CASE handler[r] # "finished"
      <4>1. resultCh'[r] = <<>> /\ answer'[r] = -2 /\ handler'[r] = "idle"
        BY <1>1, <3>2 DEF Unanswered
      <4> QED BY <4>1 DEF AnswerShape, RowOf
    <3> QED BY <3>1, <3>2
  <2>2. ASSUME NEW o \in OnTheWay' PROVE FollowUpShape(o)'
    <3>1. o = NoOp
      BY <1>1 DEF OnTheWay, Range
    <3> QED BY <3>1 DEF FollowUpShape, NoOp
  <2> QED BY <2>1, <2>2 DEF AnswersShape
<1> QED BY <1>0, <1>2, <1>3 DEF UsableInv

(* An id a client is given names its own committed row as soon as no       *)
(* transaction is open, and the follow-up statement of a request that is   *)
(* finished found that row: for any requests, keys, batches and channels,  *)
(* through failing statements, a shutdown and crashes.                     *)
THEOREM AnswersUsable == Spec => []AnsweredIdIsUsable
<1>1. UsableInv /\ [Next]_vars => UsableInv'
  <2> SUFFICES ASSUME UsableInv, [Next]_vars PROVE UsableInv'
    OBVIOUS
  <2>1. CASE UNCHANGED vars
    <3>1. UNCHANGED <<handler, answer, resultCh, arbiterCh, table, tx, linked, op, faults>>
      BY <2>1 DEF vars, handlerVars, channelVars, dbVars
    <3>2. IInv'
      BY <2>1 DEF vars, handlerVars, channelVars, dbVars, UsableInv, IInv, TypeOK, Distinct
    <3>3. \A o \in OnTheWay' : o \in OnTheWay
      BY <3>1 DEF OnTheWay
    <3>4. op'.kind # "insert" => tx = table
      BY <3>1 DEF UsableInv, TxShape
    <3> QED BY <3>1, <3>2, <3>3, <3>4, UsableKept
  <2> QED BY <2>1, HandlerUsable, CoalescerUsable, ArbiterUsable, RestartUsable DEF Next
<1>2. UsableInv => AnsweredIdIsUsable
  <2> SUFFICES ASSUME UsableInv, "commitfail" \notin faults, NEW r \in Requests, answer[r] > 0
               PROVE  /\ op = NoOp => answer[r] \in DOMAIN table /\ table[answer[r]].req = r
                      /\ handler[r] = "finished" => answer[r] \in linked
    BY DEF AnsweredIdIsUsable
  <2>1. AnswersShape
    BY DEF UsableInv
  <2>2. op = NoOp => tx = table
    BY DEF UsableInv, TxShape, NoOp
  <2> QED BY <2>1, <2>2 DEF AnswersShape, AnswerShape, RowOf
<1> QED BY InitUsable, <1>1, <1>2, PTL DEF Spec
==============================================================================
