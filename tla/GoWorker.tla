------------------------------ MODULE GoWorker ------------------------------
(***************************************************************************)
(* The client program of a remote worker, examples/goworker: one loop that *)
(* dials, reads jobs and dials again, a goroutine for each job, a ping     *)
(* ticker for each connection. The semaphore that bounds the goroutines is *)
(* shared by all connections; a goroutine answers on the connection its    *)
(* job came over, be it closed or not.                                     *)
(*                                                                         *)
(* The server is external: it sends a job at a time over a connection, the *)
(* same job again over another one perhaps, and may drop the connection.   *)
(***************************************************************************)
EXTENDS Integers, SequencesExt

CONSTANTS
    Tasks,       \* the jobs the server has for this worker
    Concurrency, \* capacity of sem
    MaxLinks     \* bound on connections made

ConstantsOK == Concurrency \in Nat \ {0} /\ MaxLinks \in Nat

VARIABLES
    loop,       \* where runWorker is
    link,       \* the current connection, 0 before the first
    up,         \* whether it still stands
    inbox,      \* messages on the wire to the worker
    taken,      \* the job read that waits for the semaphore, or none
    goroutines, \* handleJob goroutines, each with its place in the semaphore
    pinging,    \* the ping ticker is in the middle of a write
    raced,      \* two goroutines wrote to the current connection at once
    received,   \* jobs the server has sent over each connection
    answers,    \* results it got over each connection, in order
    stopped     \* stopCh is closed

linkVars == <<link, up, inbox>>
jobVars  == <<taken, goroutines>>
pingVars == <<pinging, raced>>
wireLog  == <<received, answers>>
vars == <<loop, linkVars, jobVars, pingVars, wireLog, stopped>>

Links == 1..MaxLinks

Init ==
    /\ loop = "dial"
    /\ link = 0 /\ up = FALSE /\ inbox = <<>>
    /\ taken = {} /\ goroutines = {}
    /\ pinging = FALSE /\ raced = FALSE
    /\ received = [l \in Links |-> {}]
    /\ answers = [l \in Links |-> <<>>]
    /\ stopped = FALSE

Alive == loop \notin {"returned", "panicked"}

-----------------------------------------------------------------------------
(* The server                                                              *)

(* A worker is idle until it is sent a job, and again when it has answered.*)
SendJob(t) ==
    /\ up
    /\ t \notin received[link]
    /\ received[link] = ToSet(answers[link])
    /\ received' = [received EXCEPT ![link] = @ \cup {t}]
    /\ inbox' = Append(inbox, t)
    /\ UNCHANGED <<loop, link, up, jobVars, pingVars, answers, stopped>>

Drop ==
    /\ up
    /\ up' = FALSE
    /\ UNCHANGED <<loop, link, inbox, jobVars, pingVars, wireLog, stopped>>

-----------------------------------------------------------------------------
(* runWorker                                                               *)

(* stopCh is looked at before a connection is made and while waiting to    *)
(* make the next one, nowhere else.                                        *)
Return ==
    /\ loop \in {"dial", "sleep"}
    /\ stopped
    /\ loop' = "returned"
    /\ goroutines' = {}
    /\ UNCHANGED <<linkVars, taken, pingVars, wireLog, stopped>>

Dial ==
    /\ loop = "dial"
    /\ ~stopped
    /\ link < MaxLinks
    /\ link' = link + 1
    /\ up' = TRUE /\ inbox' = <<>>
    /\ loop' = "read"
    /\ raced' = FALSE
    /\ UNCHANGED <<jobVars, pinging, wireLog, stopped>>

DialFails ==
    /\ loop = "dial"
    /\ ~stopped
    /\ loop' = "sleep"
    /\ UNCHANGED <<linkVars, jobVars, pingVars, wireLog, stopped>>

WakeUp ==
    /\ loop = "sleep"
    /\ loop' = "dial"
    /\ UNCHANGED <<linkVars, jobVars, pingVars, wireLog, stopped>>

ReadJob ==
    /\ loop = "read"
    /\ inbox # <<>>
    /\ taken' = {Head(inbox)}
    /\ inbox' = Tail(inbox)
    /\ loop' = "acquire"
    /\ UNCHANGED <<link, up, goroutines, pingVars, wireLog, stopped>>

(* sem <- struct{}{}: nothing is read while it blocks. *)
StartJob ==
    /\ loop = "acquire"
    /\ Cardinality(goroutines) < Concurrency
    /\ goroutines' = goroutines
            \cup {[task |-> t, link |-> link, at |-> "executing"] : t \in taken}
    /\ taken' = {}
    /\ loop' = "read"
    /\ UNCHANGED <<linkVars, pingVars, wireLog, stopped>>

(* The ping goroutine is told to end, without waiting for it. *)
ReadFails ==
    /\ loop = "read"
    /\ ~up
    /\ inbox' = <<>>
    /\ loop' = "sleep"
    /\ pinging' = FALSE
    /\ UNCHANGED <<link, up, jobVars, raced, wireLog, stopped>>

-----------------------------------------------------------------------------
(* Goroutines. The WebSocket library allows one writer at a time: when two *)
(* write to a connection at once, it may panic, which ends the process,    *)
(* mix up the messages, or do well by chance.                              *)

Writing(l) == \E g \in goroutines : g.link = l /\ g.at = "writing"

Panic ==
    /\ loop' = "panicked"
    /\ goroutines' = {}
    /\ UNCHANGED <<linkVars, taken, pingVars, wireLog, stopped>>

(* handleJob has its result, or the job's timeout has ended the handler;   *)
(* sendResult begins to write.                                             *)
SendResult(g) ==
    /\ g \in goroutines
    /\ g.at = "executing"
    /\ LET overlaps == Writing(g.link) \/ (pinging /\ g.link = link)
       IN  \/ overlaps /\ Panic
           \/ /\ goroutines' = (goroutines \ {g}) \cup {[g EXCEPT !.at = "writing"]}
              /\ raced' = (raced \/ (overlaps /\ g.link = link))
              /\ UNCHANGED <<loop, linkVars, taken, pinging, wireLog, stopped>>

(* Slip: the result goes to the connection of the day. *)
FinishOnCurrent(g) ==
    /\ g \in goroutines
    /\ g.at = "writing"
    /\ answers' = IF up THEN [answers EXCEPT ![link] = Append(@, g.task)] ELSE answers
    /\ goroutines' = goroutines \ {g}
    /\ UNCHANGED <<loop, linkVars, taken, pingVars, received, stopped>>

(* Slip: the place in the semaphore is given back only after a result      *)
(* that arrived.                                                           *)
FinishIfSent(g) ==
    /\ g \in goroutines
    /\ g.at = "writing"
    /\ g.link = link /\ up
    /\ answers' = [answers EXCEPT ![link] = Append(@, g.task)]
    /\ goroutines' = goroutines \ {g}
    /\ UNCHANGED <<loop, linkVars, taken, pingVars, received, stopped>>

(* The result is out, or lost with its connection or in a mix-up; no error *)
(* is looked at.                                                           *)
Finish(g) ==
    /\ g \in goroutines
    /\ g.at = "writing"
    /\ \/ /\ g.link = link /\ up
          /\ answers' = [answers EXCEPT ![link] = Append(@, g.task)]
       \/ /\ g.link # link \/ ~up \/ raced
          /\ answers' = answers
    /\ goroutines' = goroutines \ {g}
    /\ UNCHANGED <<loop, linkVars, taken, pingVars, received, stopped>>

Ping ==
    /\ loop \in {"read", "acquire"}
    /\ ~pinging
    /\ \/ Writing(link) /\ Panic
       \/ /\ pinging' = TRUE
          /\ raced' = (raced \/ Writing(link))
          /\ UNCHANGED <<loop, linkVars, jobVars, wireLog, stopped>>

PingEnds ==
    /\ pinging
    /\ pinging' = FALSE
    /\ UNCHANGED <<loop, linkVars, jobVars, raced, wireLog, stopped>>

(* A signal *)
Stop ==
    /\ ~stopped
    /\ stopped' = TRUE
    /\ UNCHANGED <<loop, linkVars, jobVars, pingVars, wireLog>>

LoopStep ==
    \/ Return  \/ Dial     \/ DialFails \/ WakeUp
    \/ ReadJob \/ StartJob \/ ReadFails

Goroutine(g) == SendResult(g) \/ Finish(g)

Handler(t, l) == \E g \in goroutines : g.task = t /\ g.link = l /\ Goroutine(g)

Next ==
    /\ Alive
    /\ \/ \E t \in Tasks : SendJob(t)
       \/ Drop \/ Stop
       \/ LoopStep
       \/ \E t \in Tasks, l \in Links : Handler(t, l)
       \/ Ping \/ PingEnds

(* What runs on its own: the loop reads and connects, handlers return at   *)
(* their timeout, writes end.                                              *)
MustRun == {<<"loop">>, <<"ping">>} \cup (Tasks \X Links)

MustStep(k) ==
    /\ Alive
    /\ \/ k = <<"loop">> /\ LoopStep
       \/ k = <<"ping">> /\ PingEnds
       \/ k \in Tasks \X Links /\ Handler(k[1], k[2])

Spec == Init /\ [][Next]_vars /\ \A k \in MustRun : WF_vars(MustStep(k))

-----------------------------------------------------------------------------
(* Properties                                                              *)

TypeOK ==
    /\ loop \in {"dial", "read", "acquire", "sleep", "returned", "panicked"}
    /\ link \in 0..MaxLinks /\ up \in BOOLEAN /\ inbox \in Seq(Tasks)
    /\ taken \subseteq Tasks /\ (Alive => (taken # {} <=> loop = "acquire"))
    /\ goroutines \subseteq [task : Tasks, link : Links, at : {"executing", "writing"}]
    /\ Cardinality(goroutines) <= Concurrency
    /\ pinging \in BOOLEAN /\ raced \in BOOLEAN /\ stopped \in BOOLEAN
    /\ received \in [Links -> SUBSET Tasks] /\ answers \in [Links -> Seq(Tasks)]

(* What the server builds on (WsDispatch models its clients so): over each *)
(* connection comes at most one answer to each job sent over it and none   *)
(* to another, also if a job that was begun on an earlier connection ends  *)
(* while the next one stands.                                              *)
AnswersAsAsked ==
    \A l \in Links : IsInjective(answers[l]) /\ ToSet(answers[l]) \subseteq received[l]

(* The server waits for an answer over the connection that stands, and     *)
(* sends no job before it has that one; no ping has got into a result.     *)
Waiting == Alive /\ up /\ ~raced /\ received[link] # ToSet(answers[link])

(* A job that was sent is answered, or its connection is lost, or the      *)
(* process ends; jobs left over from lost connections do not keep the      *)
(* worker from the new ones for ever. A signal alone changes nothing.      *)
EveryJobAnswered == []<>~Waiting
=============================================================================
