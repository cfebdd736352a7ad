---------------------------- MODULE WriteArbiter ----------------------------
(***************************************************************************)
(* How writes reach SQLite: HTTP handlers hand insert requests to the      *)
(* insert coalescer, finished jobs go to the done coalescer, both cut      *)
(* batches for the one writer goroutine (the DB arbiter), which other      *)
(* statements reach directly. An insert batch is one transaction; every    *)
(* request is answered on its result channel while the transaction is      *)
(* still open, and the commit comes after the last answer.                 *)
(*                                                                         *)
(* The database is opened with a single connection, so nobody reads while  *)
(* a transaction is open: what a reader sees is the committed table.       *)
(***************************************************************************)
EXTENDS Integers, SequencesExt

CONSTANTS
    Requests,   \* POST /api/jobs requests, each sent again if a crash cut it off
    Key,        \* dedup_key of each request, NoKey if it has none
    NoKey,
    MaxBatch,   \* a coalescer flushes at this many, 50 in the code
    ChanCap,    \* capacity of the three channels, 4096 in the code
    Scenarios   \* the requests made and the faults that may strike, one of these
                \* pairs in each behaviour

Faults == {"beginfail", "execfail", "commitfail", "stop", "crash"}

Coalescers == {"insert", "done"}

ASSUME MaxBatchAssumption == MaxBatch \in Nat \ {0}
ASSUME ChanCapAssumption  == ChanCap \in Nat \ {0}
ASSUME ScenariosAssumption ==
    Scenarios \subseteq [requests : SUBSET Requests, faults : SUBSET Faults]

VARIABLES
    handler,    \* where each HTTP handler is
    answer,     \* what it took from its result channel
    resultCh,   \* its result channel, of capacity 1
    insertCh,   \* insertCoalesceCh
    insertBuf,  \* the insert coalescer's pending slice
    doneCh,     \* doneCoalesceCh
    doneBuf,    \* the done coalescer's pending slice
    arbiterCh,  \* dbArbiterCh
    op,         \* the write the arbiter is executing, with what is left of it
    table,      \* committed rows of jobs; a row's id is its place
    tx,         \* the rows as the open transaction sees them
    linked,     \* ids whose follow-up UPDATE (next_job, tags, batch_id) hit a row
    reported,   \* ids a worker has reported done
    running,    \* the coalescer goroutines that have not returned
    stopping,   \* stopGoWorker is closed
    faults      \* what may still go wrong in this behaviour

handlerVars == <<handler, answer, resultCh>>
channelVars == <<insertCh, insertBuf, doneCh, doneBuf, arbiterCh>>
dbVars      == <<op, table, tx, linked>>
vars == <<handlerVars, channelVars, dbVars, reported, running, stopping, faults>>

-----------------------------------------------------------------------------
(* Answers: a job id, 0 for a duplicate, or an error. *)
Error      == -1
Unanswered == -2
Answers    == Nat \cup {Error}

Row == [req : Requests, done : BOOLEAN]

(* A dbWriteReq. An insert batch names requests, the others name job ids.  *)
InsertOp(batch) == [kind |-> "insert", reqs |-> batch, ids |-> <<>>]
DoneOp(batch)   == [kind |-> "done", reqs |-> <<>>, ids |-> batch]
ExecOp(r, id)   == [kind |-> "exec", reqs |-> <<r>>, ids |-> <<id>>]
NoOp            == [kind |-> "none", reqs |-> <<>>, ids |-> <<>>]

Ops == [kind : {"insert", "done", "exec", "none"},
        reqs : Seq(Requests), ids : Seq(Nat)]

Init ==
    /\ \E s \in Scenarios :
        /\ handler = [r \in Requests |-> IF r \in s.requests THEN "idle" ELSE "finished"]
        /\ faults = s.faults
    /\ answer = [r \in Requests |-> Unanswered]
    /\ resultCh = [r \in Requests |-> <<>>]
    /\ insertCh = <<>> /\ insertBuf = <<>>
    /\ doneCh = <<>> /\ doneBuf = <<>>
    /\ arbiterCh = <<>>
    /\ op = NoOp
    /\ table = <<>> /\ tx = <<>>
    /\ linked = {}
    /\ reported = {}
    /\ running = Coalescers
    /\ stopping = FALSE

-----------------------------------------------------------------------------
(* HTTP handlers and workers                                               *)

(* dispatchJobRaw: into the channel, then wait. *)
Submit(r) ==
    /\ handler[r] = "idle"
    /\ Len(insertCh) < ChanCap
    /\ insertCh' = Append(insertCh, r)
    /\ handler' = [handler EXCEPT ![r] = "waiting"]
    /\ UNCHANGED <<answer, resultCh, insertBuf, doneCh, doneBuf, arbiterCh, dbVars,
                   reported, running, stopping, faults>>

(* ... for the answer. A new job gets a second statement of its own. *)
ReceiveAnswer(r) ==
    /\ handler[r] = "waiting"
    /\ resultCh[r] # <<>>
    /\ answer' = [answer EXCEPT ![r] = Head(resultCh[r])]
    /\ resultCh' = [resultCh EXCEPT ![r] = Tail(@)]
    /\ handler' = [handler EXCEPT
                    ![r] = IF Head(resultCh[r]) > 0 THEN "followup" ELSE "finished"]
    /\ UNCHANGED <<channelVars, dbVars, reported, running, stopping, faults>>

(* dbExec of the UPDATE that sets next_job, tags or batch_id by job id.    *)
FollowUp(r) ==
    /\ handler[r] = "followup"
    /\ Len(arbiterCh) < ChanCap
    /\ arbiterCh' = Append(arbiterCh, ExecOp(r, answer[r]))
    /\ handler' = [handler EXCEPT ![r] = "executing"]
    /\ UNCHANGED <<answer, resultCh, insertCh, insertBuf, doneCh, doneBuf, dbVars,
                   reported, running, stopping, faults>>

(* markDone, for a job that was dispatched and hence committed. *)
ReportDone(id) ==
    /\ id \in DOMAIN table
    /\ id \notin reported
    /\ Len(doneCh) < ChanCap
    /\ doneCh' = Append(doneCh, id)
    /\ reported' = reported \cup {id}
    /\ UNCHANGED <<handlerVars, insertCh, insertBuf, doneBuf, arbiterCh, dbVars, running, stopping, faults>>

-----------------------------------------------------------------------------
(* The coalescers. After stopGoWorker is closed the select may still take  *)
(* from the channel a few times before it takes the stop.                  *)

TakeInsert ==
    /\ "insert" \in running
    /\ insertCh # <<>>
    /\ insertCh' = Tail(insertCh)
    /\ LET pending == Append(insertBuf, Head(insertCh))
       IN  IF Len(pending) >= MaxBatch
           THEN /\ Len(arbiterCh) < ChanCap
                /\ arbiterCh' = Append(arbiterCh, InsertOp(pending))
                /\ insertBuf' = <<>>
           ELSE insertBuf' = pending /\ UNCHANGED arbiterCh
    /\ UNCHANGED <<handlerVars, doneCh, doneBuf, dbVars, reported, running, stopping, faults>>

(* The 500 us ticker. *)
FlushInserts ==
    /\ "insert" \in running
    /\ insertBuf # <<>>
    /\ Len(arbiterCh) < ChanCap
    /\ arbiterCh' = Append(arbiterCh, InsertOp(insertBuf))
    /\ insertBuf' = <<>>
    /\ UNCHANGED <<handlerVars, insertCh, doneCh, doneBuf, dbVars, reported, running, stopping, faults>>

(* Slip: the id that fills the batch is left out of it. *)
TakeDoneDropping ==
    /\ "done" \in running
    /\ doneCh # <<>>
    /\ doneCh' = Tail(doneCh)
    /\ IF Len(doneBuf) + 1 >= MaxBatch
       THEN /\ Len(arbiterCh) < ChanCap
            /\ arbiterCh' = Append(arbiterCh, DoneOp(doneBuf))
            /\ doneBuf' = <<>>
       ELSE doneBuf' = Append(doneBuf, Head(doneCh)) /\ UNCHANGED arbiterCh
    /\ UNCHANGED <<handlerVars, insertCh, insertBuf, dbVars, reported, running, stopping, faults>>

TakeDone ==
    /\ "done" \in running
    /\ doneCh # <<>>
    /\ doneCh' = Tail(doneCh)
    /\ LET pending == Append(doneBuf, Head(doneCh))
       IN  IF Len(pending) >= MaxBatch
           THEN /\ Len(arbiterCh) < ChanCap
                /\ arbiterCh' = Append(arbiterCh, DoneOp(pending))
                /\ doneBuf' = <<>>
           ELSE doneBuf' = pending /\ UNCHANGED arbiterCh
    /\ UNCHANGED <<handlerVars, insertCh, insertBuf, dbVars, reported, running, stopping, faults>>

(* The 1 ms ticker. *)
FlushDones ==
    /\ "done" \in running
    /\ doneBuf # <<>>
    /\ Len(arbiterCh) < ChanCap
    /\ arbiterCh' = Append(arbiterCh, DoneOp(doneBuf))
    /\ doneBuf' = <<>>
    /\ UNCHANGED <<handlerVars, insertCh, insertBuf, doneCh, dbVars, reported, running, stopping, faults>>

(* main closes stopGoWorker. *)
Stop ==
    /\ "stop" \in faults
    /\ ~stopping
    /\ stopping' = TRUE
    /\ UNCHANGED <<handlerVars, channelVars, dbVars, reported, running, faults>>

(* A coalescer flushes what it has taken and returns; what is still in its *)
(* channel stays there.                                                    *)
CoalescerReturns(c) ==
    /\ stopping
    /\ c \in running
    /\ IF c = "insert" THEN insertBuf = <<>> ELSE doneBuf = <<>>
    /\ running' = running \ {c}
    /\ UNCHANGED <<handlerVars, channelVars, dbVars, reported, stopping, faults>>

-----------------------------------------------------------------------------
(* The arbiter: startDBWriter's loop                                       *)

ArbiterTakes ==
    /\ op = NoOp
    /\ arbiterCh # <<>>
    /\ op' = Head(arbiterCh)
    /\ arbiterCh' = Tail(arbiterCh)
    /\ UNCHANGED <<handlerVars, insertCh, insertBuf, doneCh, doneBuf, table, tx,
                   linked, reported, running, stopping, faults>>

(* Begin or Prepare fails: the insert requests hear of it, a done batch is *)
(* dropped and its jobs stay running for the stale job reaper.             *)
BeginFails ==
    /\ "beginfail" \in faults
    /\ op = NoOp
    /\ arbiterCh # <<>>
    /\ Head(arbiterCh).kind # "exec"
    /\ LET batch == Range(Head(arbiterCh).reqs)
       IN  /\ \A r \in batch : resultCh[r] = <<>>
           /\ resultCh' = [r \in Requests |->
                                IF r \in batch THEN <<Error>> ELSE resultCh[r]]
    /\ arbiterCh' = Tail(arbiterCh)
    /\ UNCHANGED <<handler, answer, insertCh, insertBuf, doneCh, doneBuf, dbVars,
                   reported, running, stopping, faults>>

Answer(r, a) ==
    /\ resultCh[r] = <<>>
    /\ resultCh' = [resultCh EXCEPT ![r] = <<a>>]

(* The request being inserted is done with. *)
NextRequest == op' = [op EXCEPT !.reqs = Tail(@)]

IsDuplicate(r) ==
    Key[r] # NoKey /\ \E id \in DOMAIN tx : Key[tx[id].req] = Key[r]

(* Slip: duplicates are looked for among the committed rows only. *)
InsertRowMissingBatch(r) ==
    /\ ~(Key[r] # NoKey /\ \E id \in DOMAIN table : Key[table[id].req] = Key[r])
    /\ tx' = Append(tx, [req |-> r, done |-> FALSE])
    /\ Answer(r, Len(tx) + 1)

(* INSERT OR IGNORE adds a row, AUTOINCREMENT gives the next id ...        *)
InsertRow(r) ==
    /\ ~IsDuplicate(r)
    /\ tx' = Append(tx, [req |-> r, done |-> FALSE])
    /\ Answer(r, Len(tx) + 1)

(* Slip: RowsAffected is not looked at; LastInsertId is an earlier id. *)
IgnoreDuplicateUnseen(r) ==
    /\ IsDuplicate(r)
    /\ Answer(r, Len(tx))
    /\ UNCHANGED tx

(* ... or ignores the row over the unique dedup_key, whatever the status   *)
(* of the job that has it; RowsAffected = 0 tells.                         *)
IgnoreDuplicate(r) ==
    /\ IsDuplicate(r)
    /\ Answer(r, 0)
    /\ UNCHANGED tx

(* Slip: an error is answered but the loop does not go on to the next one, *)
(* so that the same request is answered again.                             *)
InsertFailsTwice(r) ==
    /\ "execfail" \in faults
    /\ Answer(r, Error)
    /\ UNCHANGED op
    /\ UNCHANGED tx

InsertFails(r) ==
    /\ "execfail" \in faults
    /\ Answer(r, Error)
    /\ NextRequest
    /\ UNCHANGED tx

InsertNext ==
    /\ op.kind = "insert"
    /\ op.reqs # <<>>
    /\ LET r == Head(op.reqs)
       IN  \/ InsertFails(r)
           \/ (InsertRow(r) \/ IgnoreDuplicate(r)) /\ NextRequest
    /\ UNCHANGED <<handler, answer, channelVars, table, linked, reported, running,
                   stopping, faults>>

(* The deferred Commit, or its failure, of which nobody is told. *)
Commit ==
    /\ op.kind = "insert"
    /\ op.reqs = <<>>
    /\ \/ table' = tx /\ UNCHANGED tx
       \/ "commitfail" \in faults /\ tx' = table /\ UNCHANGED table
    /\ op' = NoOp
    /\ UNCHANGED <<handlerVars, channelVars, linked, reported, running, stopping, faults>>

(* A done batch: its statements and its commit, which no reader separates. *)
(* A statement that fails is passed over.                                  *)
CommitDone ==
    /\ op.kind = "done"
    /\ \E failed \in SUBSET Range(op.ids) :
        /\ failed # {} => "execfail" \in faults
        /\ table' = [id \in DOMAIN table |->
                        IF id \in Range(op.ids) \ failed
                        THEN [table[id] EXCEPT !.done = TRUE] ELSE table[id]]
    /\ tx' = table'
    /\ op' = NoOp
    /\ UNCHANGED <<handlerVars, channelVars, linked, reported, running, stopping, faults>>

(* dbExec: one statement, and the caller goes on. *)
Exec ==
    /\ op.kind = "exec"
    /\ linked' = linked \cup (Range(op.ids) \cap DOMAIN table)
    /\ handler' = [handler EXCEPT ![Head(op.reqs)] = "finished"]
    /\ op' = NoOp
    /\ UNCHANGED <<answer, resultCh, channelVars, table, tx, reported, running,
                   stopping, faults>>

(* The process ends, by a crash or after Stop, and starts again on the     *)
(* committed table. Clients whose request was cut off send it again.       *)
(* Bound: one restart.                                                     *)
Restart ==
    /\ stopping \/ "crash" \in faults
    /\ handler' = [r \in Requests |->
                        IF handler[r] = "finished" THEN "finished" ELSE "idle"]
    /\ answer' = [r \in Requests |->
                        IF handler[r] = "finished" THEN answer[r] ELSE Unanswered]
    /\ resultCh' = [r \in Requests |-> <<>>]
    /\ insertCh' = <<>> /\ insertBuf' = <<>>
    /\ doneCh' = <<>> /\ doneBuf' = <<>>
    /\ arbiterCh' = <<>>
    /\ op' = NoOp
    /\ tx' = table
    /\ reported' = {id \in DOMAIN table : table[id].done}
    /\ running' = Coalescers
    /\ stopping' = FALSE
    /\ faults' = faults \ {"stop", "crash"}
    /\ UNCHANGED <<table, linked>>

HandlerStep(r) == Submit(r) \/ ReceiveAnswer(r) \/ FollowUp(r)

ArbiterStep ==
    \/ ArbiterTakes \/ BeginFails \/ InsertNext
    \/ Commit       \/ CommitDone \/ Exec

InsertCoalescer == TakeInsert \/ FlushInserts \/ CoalescerReturns("insert")

DoneCoalescer == TakeDone \/ FlushDones \/ CoalescerReturns("done")

Next ==
    \/ \E r \in Requests : HandlerStep(r)
    \/ \E id \in DOMAIN table : ReportDone(id)
    \/ InsertCoalescer \/ DoneCoalescer \/ ArbiterStep
    \/ Stop \/ Restart

Spec == Init /\ [][Next]_vars

(* The goroutines run; a select whose ticker and channel are both ready    *)
(* takes either, so the ticker's flush needs a fairness of its own.        *)
FairSpec ==
    /\ Spec
    /\ \A r \in Requests : WF_vars(ReceiveAnswer(r)) /\ WF_vars(FollowUp(r))
    /\ WF_vars(TakeInsert) /\ WF_vars(FlushInserts)
    /\ WF_vars(TakeDone) /\ WF_vars(FlushDones)
    /\ WF_vars(ArbiterStep)

-----------------------------------------------------------------------------
(* Properties                                                              *)

(* Every variable has the type its Go counterpart has, and what coalescers *)
(* have in hand stays below a full batch.                                  *)
TypeOK ==
    /\ handler \in [Requests -> {"idle", "waiting", "followup", "executing", "finished"}]
    /\ answer \in [Requests -> Answers \cup {Unanswered}]
    /\ resultCh \in [Requests -> Seq(Answers)]
    /\ insertCh \in Seq(Requests) /\ insertBuf \in Seq(Requests)
    /\ doneCh \in Seq(Nat) /\ doneBuf \in Seq(Nat)
    /\ Len(insertBuf) < MaxBatch /\ Len(doneBuf) < MaxBatch
    /\ arbiterCh \in Seq(Ops) /\ op \in Ops
    /\ table \in Seq(Row) /\ tx \in Seq(Row)
    /\ linked \in SUBSET Nat /\ reported \in SUBSET Nat
    /\ running \in SUBSET Coalescers /\ stopping \in BOOLEAN
    /\ faults \subseteq Faults

Benign == faults \subseteq {"beginfail", "execfail"}

(* A handler that was given an id may use it at once: while no transaction *)
(* holds the connection, the committed row of that id is the one this      *)
(* request inserted, and a handler that is finished has had its follow-up  *)
(* UPDATE find the row, although it went to the arbiter another way than   *)
(* the insert. The answer is sent before the commit, so this needs commits *)
(* that do not fail; a crash in between takes the handler with it.         *)
AnsweredIdIsUsable ==
    "commitfail" \notin faults => \A r \in Requests : answer[r] > 0 =>
        /\ op = NoOp =>
            answer[r] \in DOMAIN table /\ table[answer[r]].req = r
        /\ handler[r] = "finished" => answer[r] \in linked

(* At most one row for each dedup_key, also within one batch and when a    *)
(* request is sent again after a restart; the variables keep their types.  *)
OneRowPerKey ==
    /\ TypeOK
    /\ \A a, b \in DOMAIN table :
        Key[table[a].req] = Key[table[b].req] /\ Key[table[a].req] # NoKey => a = b

(* While the process lives no handler waits for ever, and no failing       *)
(* statement blocks the arbiter.                                           *)
EveryRequestAnswered ==
    \A r \in Requests :
        handler[r] = "waiting" /\ Benign ~> handler[r] = "finished"

(* Unless something fails, a success reported to the done coalescer reaches*)
(* the table.                                                              *)
DoneReachesTable ==
    \A id \in 1..2 : id \in reported /\ faults = {} ~> (id \in DOMAIN table /\ table[id].done)
=============================================================================
