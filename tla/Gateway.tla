------------------------------- MODULE Gateway -------------------------------
(***************************************************************************)
(* Interactive traffic of the Gateway (gateway-go/main.go): the read loop  *)
(* of every session puts events on the one jobQueue, a fixed pool of       *)
(* workers dispatches them to Brain and puts the resulting actions on the  *)
(* sendQueue of the session that asked, whose write loop (Session) writes  *)
(* them.  Sessions end at any time, with work in every stage.              *)
(*                                                                         *)
(* A slot stands for one session from Upgrade on; it is not reused, because *)
(* jobs that outlive their session keep that session's own channels.       *)
(***************************************************************************)
EXTENDS Session, FiniteSets

CONSTANTS
    Workers,     \* the worker goroutines
    JobCap,      \* capacity of jobQueue
    MaxEvents,   \* bound: events NapCat sends on one session
    MaxActions,  \* bound: actions one event is answered with
    Answers      \* bound: how many an event of the session may be answered with

ASSUME GatewayAssumption ==
    /\ JobCap \in Nat \ {0}
    /\ MaxEvents \in Nat
    /\ MaxActions \in Nat

ASSUME AnswersAssumption == Answers \in [Sessions -> SUBSET (0..MaxActions)]

VARIABLES
    reader,    \* where the read loop of the session's handler is
    received,  \* number of events the read loop has received
    jobQueue,  \* events waiting for a worker
    stage,     \* where a worker is
    job,       \* the event a worker handles: <<>> or <<job>>
    next,      \* number of the action a worker is about to send
    answers,   \* history: number of actions Dispatch returned for an event
    written    \* history: the actions written on a session, in order

jobVars == <<jobQueue, stage, job, next, answers>>
vars == <<sessionVars, reader, received, jobVars, written>>

Job == [session : Sessions, event : 1..MaxEvents]
Action == [event : 1..MaxEvents, number : 1..MaxActions]

TypeOK ==
    /\ SessionTypeOK(Action)
    /\ reader \in [Sessions -> {"absent", "reading", "offering", "stopped"}]
    /\ received \in [Sessions -> 0..MaxEvents]
    /\ jobQueue \in Seq(Job) /\ Len(jobQueue) <= JobCap
    /\ stage \in [Workers -> {"idle", "dispatching", "checking", "sending"}]
    /\ job \in [Workers -> Seq(Job)]
    /\ next \in [Workers -> 1..MaxActions + 1]
    /\ answers \in [Sessions -> [1..MaxEvents -> 0..MaxActions]]
    /\ written \in [Sessions -> Seq(Action)]

Init ==
    /\ SessionInit
    /\ reader = [s \in Sessions |-> "absent"]
    /\ received = [s \in Sessions |-> 0]
    /\ jobQueue = <<>>
    /\ stage = [w \in Workers |-> "idle"]
    /\ job = [w \in Workers |-> <<>>]
    /\ next = [w \in Workers |-> 1]
    /\ answers = [s \in Sessions |-> [e \in 1..MaxEvents |-> 0]]
    /\ written = [s \in Sessions |-> <<>>]

-----------------------------------------------------------------------------
(* The handler of a session and its read loop. *)

Connect(s) ==
    /\ reader[s] = "absent"
    /\ Open(s)
    /\ reader' = [reader EXCEPT ![s] = "reading"]
    /\ UNCHANGED <<received, jobVars, written>>

ReadMessage(s) ==
    /\ reader[s] = "reading" /\ conn[s] # "closed"
    /\ received[s] < MaxEvents
    /\ received' = [received EXCEPT ![s] = @ + 1]
    /\ reader' = [reader EXCEPT ![s] = "offering"]
    /\ UNCHANGED <<sessionVars, jobVars, written>>

\* Mutant of OfferJob: a jobQueue without a limit.
OfferJobAnyway(s) ==
    /\ reader[s] = "offering"
    /\ jobQueue' = Append(jobQueue, [session |-> s, event |-> received[s]])
    /\ reader' = [reader EXCEPT ![s] = "reading"]
    /\ UNCHANGED <<sessionVars, received, stage, job, next, answers, written>>

OfferJob(s) ==
    /\ reader[s] = "offering"
    /\ Len(jobQueue) < JobCap
    /\ jobQueue' = Append(jobQueue, [session |-> s, event |-> received[s]])
    /\ reader' = [reader EXCEPT ![s] = "reading"]
    /\ UNCHANGED <<sessionVars, received, stage, job, next, answers, written>>

\* The reader leaves through its deferred closeSession: ReadMessage fails, or
\* done is closed while the jobQueue is full or at the same time.
ReaderLeaves(s) ==
    /\ reader[s] = "reading" \/ (reader[s] = "offering" /\ Done(s))
    /\ CloseDone(s)
    /\ reader' = [reader EXCEPT ![s] = "stopped"]
    /\ UNCHANGED <<queue, writer, inHand, received, jobVars, written>>

others == <<reader, received, jobVars>>

SocketCloses(s) == CloseSocket(s) /\ UNCHANGED <<others, written>>

-----------------------------------------------------------------------------
(* The write loop. *)

WriterTakes(s) == Take(s) /\ UNCHANGED <<others, written>>

WriteSucceeds(s) ==
    /\ Write(s)
    /\ written' = [written EXCEPT ![s] = @ \o inHand[s]]
    /\ UNCHANGED others

WriteFails(s) == FailWrite(s) /\ UNCHANGED <<others, written>>

WriterSeesDone(s) == SeeDone(s) /\ UNCHANGED <<others, written>>

WriterReturns(s) == Return(s) /\ UNCHANGED <<others, written>>

-----------------------------------------------------------------------------
(* The workers. *)

TakeJob(w) ==
    /\ stage[w] = "idle" /\ jobQueue # <<>>
    /\ job' = [job EXCEPT ![w] = <<Head(jobQueue)>>]
    /\ jobQueue' = Tail(jobQueue)
    /\ stage' = [stage EXCEPT ![w] = "dispatching"]
    /\ UNCHANGED <<sessionVars, reader, received, next, answers, written>>

\* The worker turns to action n of its job, or to the next job after the last.
TurnTo(w, n, total) ==
    IF n <= total
    THEN /\ stage' = [stage EXCEPT ![w] = "checking"]
         /\ next' = [next EXCEPT ![w] = n]
         /\ UNCHANGED job
    ELSE /\ stage' = [stage EXCEPT ![w] = "idle"]
         /\ next' = [next EXCEPT ![w] = 1]
         /\ job' = [job EXCEPT ![w] = <<>>]

\* Dispatch ignores the event, or asks Brain and turns its answer into actions;
\* a failing or silent Brain gives none.
DispatchReturns(w) ==
    /\ stage[w] = "dispatching"
    /\ \E n \in 0..MaxActions :
        /\ n \in Answers[job[w][1].session]
        /\ answers' = [answers EXCEPT ![job[w][1].session][job[w][1].event] = n]
        /\ TurnTo(w, 1, n)
    /\ UNCHANGED <<sessionVars, reader, received, jobQueue, written>>

SessionOf(w) == job[w][1].session
Total(w) == answers[SessionOf(w)][job[w][1].event]

Advance(w) ==
    /\ TurnTo(w, next[w] + 1, Total(w))
    /\ UNCHANGED <<reader, received, jobQueue, answers, written>>

\* Mutant of CheckDone: the loop goes straight to the second select.
CheckNothing(w) ==
    /\ stage[w] = "checking"
    /\ stage' = [stage EXCEPT ![w] = "sending"]
    /\ UNCHANGED <<sessionVars, reader, received, jobQueue, job, next, answers, written>>

\* The first select of the loop: drop the action if the session is over.
CheckDone(w) ==
    /\ stage[w] = "checking"
    /\ IF Done(SessionOf(w))
       THEN Advance(w)
       ELSE /\ stage' = [stage EXCEPT ![w] = "sending"]
            /\ UNCHANGED <<reader, received, jobQueue, job, next, answers, written>>
    /\ UNCHANGED sessionVars

\* Mutant of SendAction: a default case drops the action when the queue is full.
SendOrDrop(w) ==
    /\ stage[w] = "sending"
    /\ \/ Put(SessionOf(w), [event |-> job[w][1].event, number |-> next[w]])
       \/ Full(SessionOf(w)) /\ UNCHANGED sessionVars
    /\ Advance(w)

\* The second select: whichever of queue and done is ready.
SendAction(w) ==
    /\ stage[w] = "sending"
    /\ Put(SessionOf(w), [event |-> job[w][1].event, number |-> next[w]])
    /\ Advance(w)

\* Mutant of DropAction: the second select has no done case.
DropNever(w) == stage[w] = "sending" /\ FALSE /\ UNCHANGED vars

DropAction(w) ==
    /\ stage[w] = "sending" /\ Done(SessionOf(w))
    /\ Advance(w)
    /\ UNCHANGED sessionVars

-----------------------------------------------------------------------------
WriterStep(s) ==
    \/ WriterTakes(s) \/ WriteSucceeds(s) \/ WriteFails(s)
    \/ WriterSeesDone(s) \/ WriterReturns(s)

WorkerStep(w) ==
    TakeJob(w) \/ DispatchReturns(w) \/ CheckDone(w) \/ SendAction(w) \/ DropAction(w)

Next ==
    \/ \E s \in Sessions :
        \/ Connect(s) \/ ReadMessage(s) \/ OfferJob(s) \/ ReaderLeaves(s)
        \/ SocketCloses(s) \/ WriterStep(s)
    \/ \E w \in Workers : WorkerStep(w)

Spec == Init /\ [][Next]_vars

\* The goroutines are scheduled, a request to Brain ends within its timeout, a
\* write within its deadline, and ReadMessage fails once the socket is closed.
Fairness ==
    /\ \A w \in Workers : WF_vars(WorkerStep(w))
    /\ \A s \in Sessions :
        /\ WF_vars(OfferJob(s) \/ (Done(s) /\ ReaderLeaves(s)))
        /\ WF_vars(SocketCloses(s)) /\ WF_vars(WriterStep(s))

FairSpec == Spec /\ Fairness

-----------------------------------------------------------------------------
\* An answer of several actions never arrives with a gap or out of order: when
\* the session ends between two of them, none of the later ones is written,
\* although the write loop may still be draining the queue.
AnswersArriveAsPrefix ==
    \A s \in Sessions : \A k \in DOMAIN written[s] :
        written[s][k].number > 1 =>
            \E l \in 1..k - 1 :
                /\ written[s][l].event = written[s][k].event
                /\ written[s][l].number = written[s][k].number - 1

Places(s, a) ==
    Cardinality({k \in DOMAIN written[s] : written[s][k] = a})
        + Cardinality({k \in DOMAIN queue[s] : queue[s][k] = a})
        + Cardinality({k \in DOMAIN inHand[s] : inHand[s][k] = a})
        + Cardinality({w \in Workers :
            /\ stage[w] \in {"checking", "sending"}
            /\ SessionOf(w) = s /\ job[w][1].event = a.event
            /\ a.number \in next[w]..Total(w)})

\* While a session is up, every action it was answered with is in exactly one
\* place: still with its worker, on the queue, being written, or written. None
\* is lost and none is sent twice however the workers interleave.
NothingLostWhileUp ==
    \A s \in Sessions :
        conn[s] = "up" /\ writer[s] # "returning" =>
            \A e \in 1..MaxEvents : \A n \in 1..answers[s][e] :
                Places(s, [event |-> e, number |-> n]) = 1

\* A session that ends never holds a worker, a reader or a write loop for ever,
\* even if its queue is full or the jobQueue is.
EndedSessionsLetGo ==
    \A s \in Sessions :
        Done(s) /\ reader[s] # "absent" ~>
            /\ reader[s] = "stopped" /\ writer[s] = "stopped"
            /\ \A w \in Workers : job[w] = <<>> \/ SessionOf(w) # s

\* An event that waits for a worker: on the jobQueue, or in a read loop that
\* offers it to a full one.
Waits(s, e) ==
    \/ reader[s] = "offering" /\ received[s] = e
    \/ \E k \in DOMAIN jobQueue : jobQueue[k] = [session |-> s, event |-> e]

\* No event waits for ever: a worker takes it or its session ends, also when every
\* worker is blocked on the full sendQueue of another session and the read loops
\* of all sessions queue up behind them. As a session sends MaxEvents events at
\* most, this is to say that again and again nothing waits.
EveryEventIsTaken == []<>(\A s \in Sessions, e \in 1..MaxEvents : ~Waits(s, e))

=============================================================================
