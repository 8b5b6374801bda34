---------------------------- MODULE GatewayProofs ----------------------------
(***************************************************************************)
(* Theorems about interactive traffic: they hold for any number of         *)
(* sessions, workers, events and actions and any capacity of the queues.   *)
(***************************************************************************)
EXTENDS Gateway, FiniteSetTheorems, TLAPS

\* A worker has a job exactly while it is not idle, and is about to send one of
\* its actions; a read loop that offers an event has received one.
Coherent ==
    /\ \A w \in Workers :
        /\ stage[w] = "idle" <=> job[w] = <<>>
        /\ stage[w] \in {"checking", "sending"} => next[w] <= Total(w)
    /\ \A s \in Sessions :
        /\ reader[s] = "offering" => received[s] > 0
        /\ reader[s] = "absent" => received[s] = 0
        /\ inHand[s] # <<>> <=> writer[s] = "writing"
        /\ Len(inHand[s]) <= 1

\* The events that were received and whose offer to the jobQueue is over.
Offered == {j \in Job : /\ j.event <= received[j.session]
                        /\ reader[j.session] = "offering" => j.event < received[j.session]}

Unanswered == {j \in Job : answers[j.session][j.event] = 0}

\* An event is at one place only, on the jobQueue or with one worker, and is not
\* answered before its worker has dispatched it.
EventsOnce ==
    /\ \A k, l \in DOMAIN jobQueue : jobQueue[k] = jobQueue[l] => k = l
    /\ \A k \in DOMAIN jobQueue : jobQueue[k] \in Offered \cap Unanswered
    /\ \A w \in Workers : stage[w] # "idle" =>
        /\ job[w][1] \in Offered
        /\ stage[w] = "dispatching" => job[w][1] \in Unanswered
        /\ \A k \in DOMAIN jobQueue : jobQueue[k] # job[w][1]
        /\ \A v \in Workers : stage[v] # "idle" /\ job[v][1] = job[w][1] => v = w
    /\ Job \ Offered \subseteq Unanswered

Base == TypeOK /\ Coherent /\ EventsOnce

-----------------------------------------------------------------------------
LEMMA InitialBase == Init => Base
  <1> SUFFICES ASSUME Init PROVE Base
    OBVIOUS
  <1>1. TypeOK /\ Coherent
    BY GatewayAssumption DEF Init, SessionInit, TypeOK, SessionTypeOK, Coherent
  <1>2. EventsOnce
    BY DEF Init, EventsOnce, Job, Unanswered
  <1>. QED
    BY <1>1, <1>2 DEF Base

\* What a worker that is not idle works on.
LEMMA JobOf ==
    ASSUME Base, NEW w \in Workers, stage[w] # "idle"
    PROVE  /\ job[w][1] \in Job
           /\ SessionOf(w) \in Sessions /\ job[w][1].event \in 1..MaxEvents
           /\ Total(w) \in 0..MaxActions
           /\ next[w] \in Nat \ {0}
           /\ stage[w] \in {"checking", "sending"} =>
                /\ next[w] \in 1..MaxActions /\ next[w] <= Total(w)
                /\ [event |-> job[w][1].event, number |-> next[w]] \in Action
  <1>1. job[w] \in Seq(Job) /\ job[w] # <<>> /\ next[w] \in 1..MaxActions + 1
    BY DEF Base, TypeOK, Coherent
  <1>2. job[w][1] \in Job
    BY <1>1
  <1>3. SessionOf(w) \in Sessions /\ job[w][1].event \in 1..MaxEvents
    BY <1>2 DEF Job, SessionOf
  <1>4. Total(w) \in 0..MaxActions
    BY <1>3 DEF Total, Base, TypeOK
  <1>5. next[w] \in Nat \ {0}
    BY <1>1, GatewayAssumption
  <1>6. ASSUME stage[w] \in {"checking", "sending"}
        PROVE  /\ next[w] \in 1..MaxActions /\ next[w] <= Total(w)
               /\ [event |-> job[w][1].event, number |-> next[w]] \in Action
    <2>1. next[w] <= Total(w)
      BY <1>6 DEF Base, Coherent
    <2>2. next[w] \in 1..MaxActions
      BY <2>1, <1>4, <1>5, GatewayAssumption
    <2>. QED
      BY <2>1, <2>2, <1>3 DEF Action
  <1>. QED
    BY <1>2, <1>3, <1>4, <1>5, <1>6

\* The steps of the read loop, the socket and the write loop leave the workers
\* alone.
LEMMA SessionSideKeepsTypes ==
    ASSUME Base, NEW s \in Sessions,
           Connect(s) \/ ReadMessage(s) \/ OfferJob(s) \/ ReaderLeaves(s) \/ SocketCloses(s) \/ WriterStep(s)
    PROVE  TypeOK' /\ Coherent'
  <1>1. UNCHANGED <<stage, job, next, answers>>
    BY DEF Connect, ReadMessage, OfferJob, ReaderLeaves, SocketCloses, WriterStep, WriterTakes, WriteSucceeds,
           WriteFails, WriterSeesDone, WriterReturns, others, jobVars
  <1>2. \A w \in Workers : /\ (stage[w] = "idle" <=> job[w] = <<>>)'
                           /\ (stage[w] \in {"checking", "sending"} => next[w] <= Total(w))'
    BY <1>1 DEF Base, Coherent, Total, SessionOf
  <1>3. CASE Connect(s)
    BY <1>1, <1>2, <1>3 DEF Connect, Open, Base, Coherent, TypeOK, SessionTypeOK, jobVars
  <1>4. CASE ReadMessage(s)
    <2>1. received[s] + 1 \in 0..MaxEvents /\ received[s] + 1 > 0
      BY <1>4, GatewayAssumption DEF ReadMessage, Base, TypeOK
    <2>2. received' \in [Sessions -> 0..MaxEvents] /\ reader' \in [Sessions -> {"absent", "reading", "offering", "stopped"}]
      BY <1>4, <2>1 DEF ReadMessage, Base, TypeOK
    <2>3. UNCHANGED <<conn, queue, writer, inHand, jobQueue, written>>
      BY <1>4 DEF ReadMessage, sessionVars, jobVars
    <2>4. ASSUME NEW t \in Sessions
          PROVE  /\ reader'[t] = "offering" => received'[t] > 0
                 /\ reader'[t] = "absent" => received'[t] = 0
      BY <1>4, <2>1 DEF ReadMessage, Base, TypeOK, Coherent
    <2>. QED
      BY <1>1, <1>2, <2>2, <2>3, <2>4 DEF Base, Coherent, TypeOK, SessionTypeOK
  <1>5. CASE OfferJob(s)
    <2>1. [session |-> s, event |-> received[s]] \in Job
      BY <1>5 DEF OfferJob, Base, TypeOK, Coherent, Job
    <2>2. jobQueue' \in Seq(Job) /\ Len(jobQueue') <= JobCap
      BY <1>5, <2>1, GatewayAssumption DEF OfferJob, Base, TypeOK
    <2>. QED
      BY <1>1, <1>2, <1>5, <2>2 DEF OfferJob, Base, Coherent, TypeOK, SessionTypeOK, sessionVars
  <1>6. CASE ReaderLeaves(s)
    BY <1>1, <1>2, <1>6 DEF ReaderLeaves, CloseDone, Base, Coherent, TypeOK, SessionTypeOK, jobVars
  <1>7. CASE SocketCloses(s)
    BY <1>1, <1>2, <1>7 DEF SocketCloses, CloseSocket, others, Base, Coherent, TypeOK, SessionTypeOK, jobVars
  <1>8. CASE WriterStep(s)
    <2>1. UNCHANGED <<reader, received, jobQueue>>
      BY <1>8 DEF WriterStep, WriterTakes, WriteSucceeds, WriteFails, WriterSeesDone, WriterReturns, others, jobVars
    <2>2. CASE WriterTakes(s)
      <3>1. Head(queue[s]) \in Action /\ Tail(queue[s]) \in Seq(Action)
        BY <2>2 DEF WriterTakes, Take, Base, TypeOK, SessionTypeOK
      <3>. QED
        BY <1>1, <1>2, <2>1, <2>2, <3>1 DEF WriterTakes, Take, Base, Coherent, TypeOK, SessionTypeOK
    <2>3. CASE WriteSucceeds(s)
      <3>1. written[s] \o inHand[s] \in Seq(Action)
        BY DEF Base, TypeOK, SessionTypeOK
      <3>. QED
        BY <1>1, <1>2, <2>1, <2>3, <3>1 DEF WriteSucceeds, Write, Base, Coherent, TypeOK, SessionTypeOK
    <2>4. CASE WriteFails(s)
      BY <1>1, <1>2, <2>1, <2>4 DEF WriteFails, FailWrite, Base, Coherent, TypeOK, SessionTypeOK
    <2>5. CASE WriterSeesDone(s)
      BY <1>1, <1>2, <2>1, <2>5 DEF WriterSeesDone, SeeDone, Base, Coherent, TypeOK, SessionTypeOK
    <2>6. CASE WriterReturns(s)
      BY <1>1, <1>2, <2>1, <2>6 DEF WriterReturns, Return, CloseDone, Base, Coherent, TypeOK, SessionTypeOK
    <2>. QED
      BY <1>8, <2>2, <2>3, <2>4, <2>5, <2>6 DEF WriterStep
  <1>. QED
    BY <1>3, <1>4, <1>5, <1>6, <1>7, <1>8

\* A worker that turns to an action or to rest keeps its own books.
LEMMA TurnKeepsWorkers ==
    ASSUME Base, NEW w \in Workers, stage[w] # "idle", NEW n \in Nat \ {0}, NEW total \in 0..MaxActions,
           TurnTo(w, n, total), answers' \in [Sessions -> [1..MaxEvents -> 0..MaxActions]],
           Total(w)' = total \/ n > total,
           \A v \in Workers \ {w} : stage[v] \in {"checking", "sending"} => Total(v)' = Total(v)
    PROVE  /\ stage' \in [Workers -> {"idle", "dispatching", "checking", "sending"}]
           /\ job' \in [Workers -> Seq(Job)]
           /\ next' \in [Workers -> 1..MaxActions + 1]
           /\ \A v \in Workers : /\ (stage[v] = "idle" <=> job[v] = <<>>)'
                                 /\ (stage[v] \in {"checking", "sending"} => next[v] <= Total(v))'
  <1>1. CASE n <= total
    <2>1. n \in 1..MaxActions + 1
      BY <1>1, GatewayAssumption
    <2>2. /\ stage' = [stage EXCEPT ![w] = "checking"] /\ next' = [next EXCEPT ![w] = n] /\ job' = job
      BY <1>1 DEF TurnTo
    <2>3. Total(w)' = total
      BY <1>1, GatewayAssumption
    <2>4. ASSUME NEW v \in Workers
          PROVE  /\ (stage[v] = "idle" <=> job[v] = <<>>)'
                 /\ (stage[v] \in {"checking", "sending"} => next[v] <= Total(v))'
      <3>1. CASE v = w
        BY <1>1, <2>2, <2>3, <3>1 DEF Base, TypeOK, Coherent
      <3>2. CASE v # w
        <4>1. stage'[v] = stage[v] /\ next'[v] = next[v] /\ job'[v] = job[v]
          BY <2>2, <3>2 DEF Base, TypeOK
        <4>. QED
          BY <4>1, <3>2 DEF Base, Coherent
      <3>. QED
        BY <3>1, <3>2
    <2>. QED
      BY <2>1, <2>2, <2>4 DEF Base, TypeOK
  <1>2. CASE ~(n <= total)
    <2>1. 1 \in 1..MaxActions + 1
      BY GatewayAssumption
    <2>2. /\ stage' = [stage EXCEPT ![w] = "idle"] /\ next' = [next EXCEPT ![w] = 1]
          /\ job' = [job EXCEPT ![w] = <<>>]
      BY <1>2 DEF TurnTo
    <2>3. ASSUME NEW v \in Workers
          PROVE  /\ (stage[v] = "idle" <=> job[v] = <<>>)'
                 /\ (stage[v] \in {"checking", "sending"} => next[v] <= Total(v))'
      <3>1. CASE v = w
        BY <2>2, <3>1 DEF Base, TypeOK
      <3>2. CASE v # w
        <4>1. stage'[v] = stage[v] /\ next'[v] = next[v] /\ job'[v] = job[v]
          BY <2>2, <3>2 DEF Base, TypeOK
        <4>. QED
          BY <4>1, <3>2 DEF Base, Coherent
      <3>. QED
        BY <3>1, <3>2
    <2>. QED
      BY <2>1, <2>2, <2>3 DEF Base, TypeOK
  <1>. QED
    BY <1>1, <1>2

\* Events only become offered; where they are does not change with that.
LEMMA EventsStay ==
    ASSUME Base, UNCHANGED <<jobQueue, stage, job, answers>>, Offered \subseteq Offered'
    PROVE  EventsOnce'
  <1>1. Unanswered' = Unanswered
    BY DEF Unanswered
  <1>2. jobQueue' = jobQueue /\ stage' = stage /\ job' = job
    OBVIOUS
  <1>. QED
    BY <1>1, <1>2 DEF EventsOnce, Base

LEMMA SessionSideKeepsEvents ==
    ASSUME Base, NEW s \in Sessions,
           Connect(s) \/ ReadMessage(s) \/ OfferJob(s) \/ ReaderLeaves(s) \/ SocketCloses(s) \/ WriterStep(s)
    PROVE  EventsOnce'
  <1>1. CASE Connect(s)
    <2>1. UNCHANGED <<jobQueue, stage, job, answers>>
      BY <1>1 DEF Connect, jobVars
    <2>2. Offered \subseteq Offered'
      BY <1>1 DEF Connect, Offered, Base, TypeOK, Job
    <2>. QED
      BY <2>1, <2>2, EventsStay
  <1>2. CASE ReadMessage(s)
    <2>1. UNCHANGED <<jobQueue, stage, job, answers>>
      BY <1>2 DEF ReadMessage, jobVars
    <2>2. ASSUME NEW j \in Offered
          PROVE  j \in Offered'
      <3>1. j \in Job /\ j.session \in Sessions /\ j.event \in Nat /\ received[s] \in Nat
        BY GatewayAssumption DEF Offered, Job, Base, TypeOK
      <3>. QED
        BY <1>2, <3>1 DEF ReadMessage, Offered, Base, TypeOK
    <2>. QED
      BY <2>1, <2>2, EventsStay
  <1>3. CASE OfferJob(s)
    <2> DEFINE new == [session |-> s, event |-> received[s]]
    <2>1. /\ reader[s] = "offering" /\ jobQueue' = Append(jobQueue, new)
          /\ reader' = [reader EXCEPT ![s] = "reading"]
          /\ received' = received /\ stage' = stage /\ job' = job /\ answers' = answers
      BY <1>3 DEF OfferJob
    <2>2. new \in Job /\ new.session = s /\ new.event = received[s] /\ received[s] \in Nat
      BY <2>1, GatewayAssumption DEF Base, TypeOK, Coherent, Job
    <2>. HIDE DEF new
    <2>3. new \notin Offered /\ new \in Offered' /\ new \in Unanswered
      BY <2>1, <2>2 DEF Offered, Base, TypeOK, EventsOnce
    <2>4. Offered \subseteq Offered' /\ Unanswered' = Unanswered
      BY <2>1 DEF Offered, Unanswered, Base, TypeOK, Job
    <2>5. ASSUME NEW k \in DOMAIN jobQueue'
          PROVE  \/ k \in DOMAIN jobQueue /\ jobQueue'[k] = jobQueue[k]
                 \/ k = Len(jobQueue) + 1 /\ jobQueue'[k] = new
      BY <2>1, <2>2 DEF Base, TypeOK
    <2>6. \A k \in DOMAIN jobQueue : jobQueue[k] # new
      BY <2>3 DEF Base, EventsOnce
    <2>7. \A w \in Workers : stage[w] # "idle" => job[w][1] # new
      BY <2>3 DEF Base, EventsOnce
    <2>8. \A k, l \in DOMAIN jobQueue' : jobQueue'[k] = jobQueue'[l] => k = l
      BY <2>5, <2>6 DEF Base, EventsOnce
    <2>9. \A k \in DOMAIN jobQueue' : jobQueue'[k] \in Offered' \cap Unanswered'
      BY <2>3, <2>4, <2>5 DEF Base, EventsOnce
    <2>10. \A w \in Workers : stage[w] # "idle" => \A k \in DOMAIN jobQueue' : jobQueue'[k] # job[w][1]
      BY <2>5, <2>7 DEF Base, EventsOnce
    <2>11. (Job \ Offered \subseteq Unanswered)'
      BY <2>4 DEF Base, EventsOnce
    <2>12. \A w \in Workers : stage'[w] # "idle" =>
              /\ job'[w][1] \in Offered'
              /\ stage'[w] = "dispatching" => job'[w][1] \in Unanswered'
              /\ \A k \in DOMAIN jobQueue' : jobQueue'[k] # job'[w][1]
              /\ \A v \in Workers : stage'[v] # "idle" /\ job'[v][1] = job'[w][1] => v = w
      BY <2>1, <2>4, <2>10 DEF Base, EventsOnce
    <2>. QED
      BY <2>8, <2>9, <2>11, <2>12 DEF EventsOnce
  <1>4. CASE ReaderLeaves(s)
    <2>1. UNCHANGED <<jobQueue, stage, job, answers>>
      BY <1>4 DEF ReaderLeaves, jobVars
    <2>2. Offered \subseteq Offered'
      BY <1>4 DEF ReaderLeaves, Offered, Base, TypeOK, Job
    <2>. QED
      BY <2>1, <2>2, EventsStay
  <1>5. CASE SocketCloses(s) \/ WriterStep(s)
    <2>1. UNCHANGED <<jobQueue, stage, job, answers, reader, received>>
      BY <1>5 DEF SocketCloses, WriterStep, WriterTakes, WriteSucceeds, WriteFails, WriterSeesDone, WriterReturns,
             others, jobVars
    <2>2. Offered \subseteq Offered'
      BY <2>1 DEF Offered
    <2>. QED
      BY <2>1, <2>2, EventsStay
  <1>. QED
    BY <1>1, <1>2, <1>3, <1>4, <1>5

LEMMA OneAnswer ==
    ASSUME Base, NEW j \in Job, NEW n \in 0..MaxActions,
           answers' = [answers EXCEPT ![j.session][j.event] = n]
    PROVE  /\ answers' \in [Sessions -> [1..MaxEvents -> 0..MaxActions]]
           /\ answers'[j.session][j.event] = n
           /\ \A i \in Job : i # j => answers'[i.session][i.event] = answers[i.session][i.event]
  <1>1. answers \in [Sessions -> [1..MaxEvents -> 0..MaxActions]]
    BY DEF Base, TypeOK
  <1>2. j.session \in Sessions /\ j.event \in 1..MaxEvents
    BY DEF Job
  <1>3. /\ answers' \in [Sessions -> [1..MaxEvents -> 0..MaxActions]]
        /\ \A s \in Sessions, e \in 1..MaxEvents :
            answers'[s][e] = IF s = j.session /\ e = j.event THEN n ELSE answers[s][e]
    BY <1>1, <1>2
  <1>4. ASSUME NEW i \in Job, i # j
        PROVE  /\ i.session \in Sessions /\ i.event \in 1..MaxEvents
               /\ i.session # j.session \/ i.event # j.event
    BY <1>4 DEF Job
  <1>. QED
    BY <1>2, <1>3, <1>4

\* What a worker does to the events: it takes one, answers it, and lets go of it.
LEMMA WorkerKeepsEvents ==
    ASSUME Base, NEW w \in Workers, WorkerStep(w)
    PROVE  EventsOnce'
  <1>1. CASE TakeJob(w)
    <2> DEFINE taken == Head(jobQueue)
    <2>1. /\ stage[w] = "idle" /\ jobQueue # <<>> /\ jobQueue' = Tail(jobQueue)
          /\ job' = [job EXCEPT ![w] = <<taken>>] /\ stage' = [stage EXCEPT ![w] = "dispatching"]
          /\ answers' = answers /\ received' = received /\ reader' = reader
      BY <1>1 DEF TakeJob
    <2>2. Offered' = Offered /\ Unanswered' = Unanswered
      BY <2>1 DEF Offered, Unanswered
    <2>3. jobQueue \in Seq(Job) /\ 1 \in DOMAIN jobQueue /\ taken = jobQueue[1]
      BY <2>1 DEF Base, TypeOK
    <2>4. \A k \in DOMAIN jobQueue' : k + 1 \in DOMAIN jobQueue /\ k + 1 # 1 /\ jobQueue'[k] = jobQueue[k + 1]
      BY <2>1, <2>3
    <2>5. \A k \in DOMAIN jobQueue' : k \in Nat
      BY <2>1, <2>3
    <2>6. taken \in Offered \cap Unanswered
      BY <2>3 DEF Base, EventsOnce
    <2>7. \A k \in DOMAIN jobQueue' : jobQueue'[k] # taken
      BY <2>3, <2>4 DEF Base, EventsOnce
    <2>8. \A v \in Workers : stage[v] # "idle" => job[v][1] # taken
      BY <2>3 DEF Base, EventsOnce
    <2>9. \A k, l \in DOMAIN jobQueue' : jobQueue'[k] = jobQueue'[l] => k = l
      BY <2>4, <2>5 DEF Base, EventsOnce
    <2>10. \A k \in DOMAIN jobQueue' : jobQueue'[k] \in Offered \cap Unanswered
      BY <2>4 DEF Base, EventsOnce
    <2>11. \A v \in Workers : IF v = w THEN job'[v] = <<taken>> /\ stage'[v] = "dispatching"
                                        ELSE job'[v] = job[v] /\ stage'[v] = stage[v]
      BY <2>1 DEF Base, TypeOK
    <2>12. job'[w][1] = taken
      BY <2>11
    <2>. HIDE DEF taken
    <2>13. ASSUME NEW v \in Workers, stage'[v] # "idle"
           PROVE  /\ job'[v][1] \in Offered
                  /\ stage'[v] = "dispatching" => job'[v][1] \in Unanswered
                  /\ \A k \in DOMAIN jobQueue' : jobQueue'[k] # job'[v][1]
                  /\ \A u \in Workers : stage'[u] # "idle" /\ job'[u][1] = job'[v][1] => u = v
      <3>1. CASE v = w
        BY <2>6, <2>7, <2>8, <2>11, <2>12, <3>1
      <3>2. CASE v # w
        <4>1. job'[v] = job[v] /\ stage'[v] = stage[v]
          BY <2>11, <3>2
        <4>2. \A k \in DOMAIN jobQueue' : jobQueue'[k] # job[v][1]
          BY <2>4, <2>13, <4>1 DEF Base, EventsOnce
        <4>. QED
          BY <4>1, <4>2, <2>8, <2>11, <2>12, <2>13 DEF Base, EventsOnce
      <3>. QED
        BY <3>1, <3>2
    <2>. QED
      BY <2>2, <2>9, <2>10, <2>13 DEF EventsOnce, Base
  <1>2. CASE DispatchReturns(w)
    <2> DEFINE j == job[w][1]
    <2>1. PICK n \in 0..MaxActions : answers' = [answers EXCEPT ![j.session][j.event] = n] /\ TurnTo(w, 1, n)
      BY <1>2 DEF DispatchReturns
    <2>2. /\ stage[w] = "dispatching" /\ jobQueue' = jobQueue /\ received' = received /\ reader' = reader
      BY <1>2 DEF DispatchReturns
    <2>3. j \in Job /\ j \in Offered
      BY <2>2, JobOf DEF Base, EventsOnce
    <2>4. Offered' = Offered
      BY <2>2 DEF Offered
    <2>5. \A i \in Job : i # j => (i \in Unanswered' <=> i \in Unanswered)
      <3>1. \A i \in Job : i # j => answers'[i.session][i.event] = answers[i.session][i.event]
        BY <2>1, <2>3, OneAnswer
      <3>. QED
        BY <3>1 DEF Unanswered
    <2>6. /\ \A v \in Workers : v # w => job'[v] = job[v] /\ stage'[v] = stage[v]
          /\ stage'[w] # "dispatching"
          /\ stage'[w] # "idle" => job'[w] = job[w]
      <3>1. TurnTo(w, 1, n)
        BY <2>1
      <3>2. CASE 1 <= n
        BY <3>1, <3>2 DEF TurnTo, Base, TypeOK
      <3>3. CASE ~(1 <= n)
        BY <3>1, <3>3 DEF TurnTo, Base, TypeOK
      <3>. QED
        BY <3>2, <3>3
    <2>. HIDE DEF j
    <2>7. \A k \in DOMAIN jobQueue : jobQueue[k] # j /\ jobQueue[k] \in Job
      <3>1. jobQueue \in Seq(Job)
        BY DEF Base, TypeOK
      <3>2. \A k \in DOMAIN jobQueue : jobQueue[k] # job[w][1]
        BY <2>2 DEF Base, EventsOnce
      <3>. QED
        BY <3>1, <3>2 DEF j
    <2>8. \A k \in DOMAIN jobQueue : jobQueue[k] \in Offered \cap Unanswered'
      BY <2>5, <2>7 DEF Base, EventsOnce
    <2>9. Job \ Offered \subseteq Unanswered'
      BY <2>3, <2>5 DEF Base, EventsOnce
    <2>10. \A v \in Workers : stage[v] # "idle" /\ v # w => job[v][1] # j /\ job[v][1] \in Job
      BY <2>2, JobOf DEF j, Base, EventsOnce
    <2>11. ASSUME NEW v \in Workers, stage'[v] # "idle"
           PROVE  /\ job'[v][1] = job[v][1] /\ stage[v] # "idle"
                  /\ stage'[v] = "dispatching" => job'[v][1] \in Unanswered'
      <3>1. CASE v = w
        BY <2>2, <2>6, <2>11, <3>1
      <3>2. CASE v # w
        <4>1. job'[v] = job[v] /\ stage'[v] = stage[v] /\ job[v][1] # j /\ job[v][1] \in Job
          BY <2>6, <2>10, <2>11, <3>2
        <4>. QED
          BY <4>1, <2>5, <2>11 DEF Base, EventsOnce
      <3>. QED
        BY <3>1, <3>2
    <2>12. ASSUME NEW v \in Workers, stage'[v] # "idle"
           PROVE  /\ job'[v][1] \in Offered
                  /\ \A k \in DOMAIN jobQueue : jobQueue[k] # job'[v][1]
                  /\ \A u \in Workers : stage'[u] # "idle" /\ job'[u][1] = job'[v][1] => u = v
      BY <2>11, <2>12 DEF Base, EventsOnce
    <2>13. \A k, l \in DOMAIN jobQueue : jobQueue[k] = jobQueue[l] => k = l
      BY DEF Base, EventsOnce
    <2>. QED
      BY <2>2, <2>4, <2>8, <2>9, <2>11, <2>12, <2>13 DEF EventsOnce
  <1>3. CASE CheckDone(w) \/ SendAction(w) \/ DropAction(w)
    <2>1. /\ stage[w] \notin {"idle", "dispatching"}
          /\ UNCHANGED <<jobQueue, received, reader, answers>>
          /\ \A v \in Workers : /\ v # w => job'[v] = job[v] /\ stage'[v] = stage[v]
                                /\ stage'[w] # "dispatching"
                                /\ stage'[w] # "idle" => job'[w] = job[w]
      BY <1>3 DEF CheckDone, SendAction, DropAction, Advance, TurnTo, Base, TypeOK
    <2>2. Offered' = Offered /\ Unanswered' = Unanswered /\ jobQueue' = jobQueue
      BY <2>1 DEF Offered, Unanswered
    <2>3. \A v \in Workers : stage'[v] # "idle" =>
            stage[v] # "idle" /\ job'[v] = job[v] /\ (stage'[v] = "dispatching" => stage[v] = "dispatching")
      BY <2>1
    <2>. QED
      BY <2>2, <2>3 DEF EventsOnce, Base
  <1>. QED
    BY <1>1, <1>2, <1>3 DEF WorkerStep

LEMMA WorkerKeepsTypes ==
    ASSUME Base, NEW w \in Workers, WorkerStep(w)
    PROVE  TypeOK' /\ Coherent'
  <1> DEFINE Books == /\ stage \in [Workers -> {"idle", "dispatching", "checking", "sending"}]
                      /\ job \in [Workers -> Seq(Job)]
                      /\ next \in [Workers -> 1..MaxActions + 1]
                      /\ \A v \in Workers : /\ stage[v] = "idle" <=> job[v] = <<>>
                                            /\ stage[v] \in {"checking", "sending"} => next[v] <= Total(v)
  <1>1. ASSUME Books', UNCHANGED <<reader, received, written>>,
               answers' \in [Sessions -> [1..MaxEvents -> 0..MaxActions]],
               jobQueue' \in Seq(Job), Len(jobQueue') <= JobCap,
               UNCHANGED sessionVars \/ \E t \in Sessions, a \in Action : Put(t, a)
        PROVE  TypeOK' /\ Coherent'
    <2>1. /\ conn' = conn /\ writer' = writer /\ inHand' = inHand
          /\ queue' \in [Sessions -> Seq(Action)]
      <3>1. queue \in [Sessions -> Seq(Action)]
        BY DEF Base, TypeOK, SessionTypeOK
      <3>2. CASE UNCHANGED sessionVars
        BY <3>1, <3>2 DEF sessionVars
      <3>3. ASSUME NEW t \in Sessions, NEW a \in Action, Put(t, a)
            PROVE  /\ conn' = conn /\ writer' = writer /\ inHand' = inHand
                   /\ queue' \in [Sessions -> Seq(Action)]
        <4>1. Append(queue[t], a) \in Seq(Action)
          BY <3>1
        <4>. QED
          BY <3>1, <3>3, <4>1 DEF Put
      <3>. QED
        BY <1>1, <3>2, <3>3
    <2>2. SessionTypeOK(Action)'
      BY <2>1 DEF SessionTypeOK, Base, TypeOK
    <2>3. TypeOK'
      BY <1>1, <2>2 DEF TypeOK, Base
    <2>4. Coherent'
      BY <1>1, <2>1 DEF Coherent, Base
    <2>. QED
      BY <2>3, <2>4
  <1>2. CASE TakeJob(w)
    <2>1. Head(jobQueue) \in Job /\ Tail(jobQueue) \in Seq(Job) /\ Len(Tail(jobQueue)) <= JobCap
      BY <1>2, GatewayAssumption DEF TakeJob, Base, TypeOK
    <2>2. Books'
      <3>1. ASSUME NEW v \in Workers
            PROVE  /\ (stage[v] = "idle" <=> job[v] = <<>>)'
                   /\ (stage[v] \in {"checking", "sending"} => next[v] <= Total(v))'
        <4>1. CASE v = w
          BY <1>2, <4>1 DEF TakeJob, Base, TypeOK
        <4>2. CASE v # w
          BY <1>2, <4>2 DEF TakeJob, Base, TypeOK, Coherent, Total, SessionOf
        <4>. QED
          BY <4>1, <4>2
      <3>. QED
        BY <1>2, <2>1, <3>1 DEF TakeJob, Base, TypeOK
    <2>. HIDE DEF Books
    <2>. QED
      BY <1>1, <1>2, <2>1, <2>2 DEF TakeJob, Base, TypeOK
  <1>3. CASE DispatchReturns(w)
    <2> DEFINE j == job[w][1]
    <2>1. PICK n \in 0..MaxActions : answers' = [answers EXCEPT ![j.session][j.event] = n] /\ TurnTo(w, 1, n)
      BY <1>3 DEF DispatchReturns
    <2>2. stage[w] = "dispatching" /\ j \in Job
      BY <1>3, JobOf DEF DispatchReturns
    <2>3. /\ answers' \in [Sessions -> [1..MaxEvents -> 0..MaxActions]]
          /\ answers'[j.session][j.event] = n
          /\ \A i \in Job : i # j => answers'[i.session][i.event] = answers[i.session][i.event]
      BY <2>1, <2>2, OneAnswer
    <2>5. Total(w)' = n \/ 1 > n
      <3>1. CASE 1 <= n
        BY <2>1, <2>3, <3>1 DEF TurnTo, Total, SessionOf
      <3>. QED
        BY <3>1, GatewayAssumption
    <2>6. \A v \in Workers \ {w} : stage[v] \in {"checking", "sending"} => Total(v)' = Total(v)
      <3>1. ASSUME NEW v \in Workers \ {w}, stage[v] \in {"checking", "sending"}
            PROVE  Total(v)' = Total(v)
        <4>1. job[v][1] \in Job /\ job[v][1] # j
          BY <2>2, <3>1, JobOf DEF Base, EventsOnce
        <4>2. job'[v] = job[v]
          BY <2>1, <3>1 DEF TurnTo, Base, TypeOK
        <4>. QED
          BY <4>1, <4>2, <2>3 DEF Total, SessionOf
      <3>. QED
        BY <3>1
    <2>7. Books'
      BY <2>1, <2>2, <2>3, <2>5, <2>6, TurnKeepsWorkers
    <2>. HIDE DEF Books
    <2>. QED
      BY <1>1, <1>3, <2>3, <2>7 DEF DispatchReturns, Base, TypeOK
  <1>4. ASSUME Advance(w), stage[w] \in {"checking", "sending"},
               UNCHANGED sessionVars \/ \E t \in Sessions, a \in Action : Put(t, a)
        PROVE  TypeOK' /\ Coherent'
    <2>1. /\ TurnTo(w, next[w] + 1, Total(w)) /\ answers' = answers /\ jobQueue' = jobQueue
          /\ UNCHANGED <<reader, received, written>>
      BY <1>4 DEF Advance
    <2>2. next[w] + 1 \in Nat \ {0} /\ Total(w) \in 0..MaxActions
      <3>1. next[w] \in Nat \ {0} /\ Total(w) \in 0..MaxActions
        BY <1>4, JobOf
      <3>. QED
        BY <3>1
    <2>3. Total(w)' = Total(w) \/ next[w] + 1 > Total(w)
      <3>1. CASE next[w] + 1 <= Total(w)
        BY <2>1, <3>1 DEF TurnTo, Total, SessionOf
      <3>. QED
        BY <3>1, <2>2
    <2>4. \A v \in Workers \ {w} : stage[v] \in {"checking", "sending"} => Total(v)' = Total(v)
      BY <2>1 DEF TurnTo, Total, SessionOf, Base, TypeOK
    <2>5. Books'
      BY <1>4, <2>1, <2>2, <2>3, <2>4, TurnKeepsWorkers DEF Base, TypeOK
    <2>. HIDE DEF Books
    <2>. QED
      BY <1>1, <1>4, <2>1, <2>5 DEF Base, TypeOK
  <1>5. CASE CheckDone(w)
    <2>1. CASE Done(SessionOf(w))
      BY <1>4, <1>5, <2>1 DEF CheckDone
    <2>2. CASE ~Done(SessionOf(w))
      <3>1. /\ stage[w] = "checking" /\ stage' = [stage EXCEPT ![w] = "sending"]
            /\ UNCHANGED <<reader, received, jobQueue, job, next, answers, written, sessionVars>>
        BY <1>5, <2>2 DEF CheckDone
      <3>2. Books'
        BY <3>1 DEF Base, TypeOK, Coherent, Total, SessionOf
      <3>. HIDE DEF Books
      <3>. QED
        BY <1>1, <3>1, <3>2 DEF Base, TypeOK
    <2>. QED
      BY <2>1, <2>2
  <1>6. CASE SendAction(w)
    <2>1. /\ stage[w] = "sending" /\ Advance(w)
          /\ Put(SessionOf(w), [event |-> job[w][1].event, number |-> next[w]])
      BY <1>6 DEF SendAction
    <2>2. SessionOf(w) \in Sessions /\ [event |-> job[w][1].event, number |-> next[w]] \in Action
      BY <2>1, JobOf
    <2>. QED
      BY <1>4, <2>1, <2>2
  <1>7. CASE DropAction(w)
    BY <1>4, <1>7 DEF DropAction
  <1>. QED
    BY <1>2, <1>3, <1>5, <1>6, <1>7 DEF WorkerStep

LEMMA BaseStep == Base /\ [Next]_vars => Base'
  <1> SUFFICES ASSUME Base, [Next]_vars PROVE Base'
    OBVIOUS
  <1>1. ASSUME NEW s \in Sessions,
               Connect(s) \/ ReadMessage(s) \/ OfferJob(s) \/ ReaderLeaves(s) \/ SocketCloses(s) \/ WriterStep(s)
        PROVE  Base'
    BY <1>1, SessionSideKeepsTypes, SessionSideKeepsEvents DEF Base
  <1>2. ASSUME NEW w \in Workers, WorkerStep(w)
        PROVE  Base'
    BY <1>2, WorkerKeepsTypes, WorkerKeepsEvents DEF Base
  <1>3. CASE UNCHANGED vars
    BY <1>3 DEF vars, sessionVars, jobVars, Base, TypeOK, SessionTypeOK, Coherent, Total, SessionOf,
       EventsOnce, Offered, Unanswered
  <1>. QED
    BY <1>1, <1>2, <1>3 DEF Next

\* With the types: a worker only turns to actions its dispatch returned, and an
\* event is on the jobQueue or with one worker, and answered at most once.
THEOREM TypesInvariant == Spec => []Base
  BY InitialBase, BaseStep, PTL DEF Spec

\* TypeOK: the jobQueue never outgrows its capacity, and nothing but actions of
\* events that were received is queued, in hand or written.
THEOREM TypeCorrect == Spec => []TypeOK
  <1>1. Base => TypeOK
    BY DEF Base
  <1>. QED
    BY <1>1, TypesInvariant, PTL

-----------------------------------------------------------------------------
Elements(entries) == {entries[k] : k \in DOMAIN entries}
Previous(a) == [event |-> a.event, number |-> a.number - 1]

\* What will have been written before entry k of the queue is.
Ahead(s, k) == Elements(written[s]) \cup Elements(inHand[s]) \cup {queue[s][l] : l \in 1..k - 1}
Pipeline(s) == Elements(written[s]) \cup Elements(inHand[s]) \cup Elements(queue[s])
Writing(s) == writer[s] \in {"selecting", "writing"}

WrittenInOrder(s) ==
    \A k \in DOMAIN written[s] : written[s][k].number > 1 =>
        \E l \in 1..k - 1 : written[s][l] = Previous(written[s][k])

\* As long as the write loop goes on, what is in its hand and on the queue comes
\* after what it has to come after.
QueuedInOrder(s) ==
    /\ \A a \in Elements(inHand[s]) : a.number > 1 => Previous(a) \in Elements(written[s])
    /\ \A k \in DOMAIN queue[s] :
            queue[s][k].number > 1 => Previous(queue[s][k]) \in Ahead(s, k)

\* A worker may send an action only if it has sent the one before it: once it has
\* dropped one, the session is over and the first select drops the rest.
MaySend(w) ==
    stage[w] = "sending" \/ (stage[w] = "checking" /\ ~Done(SessionOf(w)))

InOrder ==
    /\ \A s \in Sessions :
        /\ WrittenInOrder(s)
        /\ Writing(s) => QueuedInOrder(s) /\ reader[s] # "absent"
    /\ \A w \in Workers :
        MaySend(w) /\ next[w] > 1 /\ Writing(SessionOf(w)) =>
            [event |-> job[w][1].event, number |-> next[w] - 1] \in Pipeline(SessionOf(w))

LEMMA InitialInOrder == Init => InOrder
  BY DEF Init, SessionInit, InOrder, WrittenInOrder, Writing, MaySend

\* A job is of a session that has been opened.
LEMMA JobIsOpen ==
    ASSUME Base, NEW w \in Workers, stage[w] # "idle"
    PROVE  reader[SessionOf(w)] # "absent"
  <1>1. job[w][1] \in Offered /\ job[w][1] \in Job
    BY JobOf DEF Base, EventsOnce
  <1>2. SessionOf(w) \in Sessions /\ received[SessionOf(w)] \in Nat
    <2>1. received \in [Sessions -> 0..MaxEvents]
      BY DEF Base, TypeOK
    <2>. QED
      BY <1>1, <2>1, GatewayAssumption DEF Job, SessionOf
  <1>3. received[SessionOf(w)] # 0
    BY <1>1, <1>2, GatewayAssumption DEF Offered, Job, SessionOf
  <1>. QED
    BY <1>2, <1>3 DEF Base, Coherent

\* Steps that touch neither what is to be written nor the workers.
LEMMA QuietKeepsOrder ==
    ASSUME Base, InOrder, UNCHANGED <<written, inHand, queue, stage, job, next>>,
           \A s \in Sessions :
                /\ writer'[s] \in {"selecting", "writing"} => writer[s] \in {"selecting", "writing"}
                /\ conn[s] # "up" => conn'[s] # "up"
                /\ reader[s] # "absent" => reader'[s] # "absent"
    PROVE  InOrder'
  <1>1. /\ written' = written /\ inHand' = inHand /\ queue' = queue
        /\ stage' = stage /\ job' = job /\ next' = next
    OBVIOUS
  <1>2. ASSUME NEW s \in Sessions
        PROVE  /\ WrittenInOrder(s)'
               /\ Writing(s)' => QueuedInOrder(s)' /\ reader'[s] # "absent"
    <2>1. WrittenInOrder(s)'
      BY <1>1 DEF InOrder, WrittenInOrder
    <2>2. ASSUME Writing(s)'
          PROVE  QueuedInOrder(s)' /\ reader'[s] # "absent"
      <3>1. Writing(s) /\ QueuedInOrder(s) /\ reader[s] # "absent"
        BY <2>2 DEF InOrder, Writing
      <3>. QED
        BY <1>1, <3>1 DEF QueuedInOrder, Ahead, Elements
    <2>. QED
      BY <2>1, <2>2
  <1>3. ASSUME NEW w \in Workers, MaySend(w)', next'[w] > 1, Writing(SessionOf(w))'
        PROVE  [event |-> job'[w][1].event, number |-> next'[w] - 1] \in Pipeline(SessionOf(w))'
    <2> DEFINE s == job[w][1].session
    <2>1. s \in Sessions /\ SessionOf(w) = s /\ SessionOf(w)' = s /\ stage[w] # "idle"
      <3>1. stage[w] # "idle" /\ SessionOf(w) = s /\ SessionOf(w)' = s
        BY <1>1, <1>3 DEF MaySend, SessionOf
      <3>. QED
        BY <3>1, JobOf
    <2>2. MaySend(w)
      BY <1>1, <1>3, <2>1 DEF MaySend, Done
    <2>3. Writing(s)
      BY <1>3, <2>1 DEF Writing
    <2>4. [event |-> job[w][1].event, number |-> next[w] - 1] \in Pipeline(s)
      BY <1>1, <1>3, <2>1, <2>2, <2>3 DEF InOrder
    <2>5. Pipeline(s)' = Pipeline(s)
      BY <1>1 DEF Pipeline, Elements
    <2>. QED
      BY <1>1, <2>1, <2>4, <2>5
  <1>. QED
    BY <1>2, <1>3 DEF InOrder

LEMMA ElementsOf ==
    /\ Elements(<<>>) = {}
    /\ \A x : Elements(<<x>>) = {x}
  BY DEF Elements

LEMMA ElementsOfAppend ==
    ASSUME NEW S, NEW entries \in Seq(S), NEW x \in S
    PROVE  Elements(Append(entries, x)) = Elements(entries) \cup {x}
  <1> DEFINE longer == Append(entries, x)
  <1>1. /\ DOMAIN longer = 1..Len(entries) + 1 /\ DOMAIN entries = 1..Len(entries) /\ Len(entries) \in Nat
        /\ \A k \in 1..Len(entries) : longer[k] = entries[k]
        /\ longer[Len(entries) + 1] = x
    OBVIOUS
  <1>. HIDE DEF longer
  <1>2. ASSUME NEW y \in Elements(longer)
        PROVE  y \in Elements(entries) \cup {x}
    <2>1. PICK k \in DOMAIN longer : y = longer[k]
      BY DEF Elements
    <2>2. k \in 1..Len(entries) \/ k = Len(entries) + 1
      BY <1>1, <2>1
    <2>. QED
      BY <1>1, <2>1, <2>2 DEF Elements
  <1>3. ASSUME NEW y \in Elements(entries) \cup {x}
        PROVE  y \in Elements(longer)
    <2>1. Len(entries) + 1 \in DOMAIN longer /\ \A k \in DOMAIN entries : k \in DOMAIN longer
      BY <1>1
    <2>. QED
      BY <1>1, <2>1 DEF Elements
  <1>. QED
    BY <1>2, <1>3 DEF longer

LEMMA ElementsOfTail ==
    ASSUME NEW S, NEW entries \in Seq(S), entries # <<>>
    PROVE  Elements(entries) = {Head(entries)} \cup Elements(Tail(entries))
  <1> DEFINE rest == Tail(entries)
  <1>1. /\ DOMAIN entries = 1..Len(entries) /\ Len(entries) \in Nat \ {0}
        /\ DOMAIN rest = 1..Len(entries) - 1 /\ Head(entries) = entries[1]
        /\ \A k \in 1..Len(entries) - 1 : rest[k] = entries[k + 1]
    OBVIOUS
  <1>. HIDE DEF rest
  <1>2. ASSUME NEW y \in Elements(entries)
        PROVE  y \in {Head(entries)} \cup Elements(rest)
    <2>1. PICK k \in DOMAIN entries : y = entries[k]
      BY DEF Elements
    <2>2. CASE k = 1
      BY <1>1, <2>1, <2>2
    <2>3. CASE k # 1
      <3>1. k - 1 \in 1..Len(entries) - 1 /\ rest[k - 1] = entries[k]
        <4>1. k - 1 \in 1..Len(entries) - 1 /\ (k - 1) + 1 = k
          BY <1>1, <2>1, <2>3
        <4>. QED
          BY <1>1, <4>1
      <3>. QED
        BY <1>1, <2>1, <3>1 DEF Elements
    <2>. QED
      BY <2>2, <2>3
  <1>3. ASSUME NEW y \in {Head(entries)} \cup Elements(rest)
        PROVE  y \in Elements(entries)
    <2>1. 1 \in DOMAIN entries /\ \A k \in DOMAIN rest : k + 1 \in DOMAIN entries
      BY <1>1
    <2>. QED
      BY <1>1, <2>1 DEF Elements
  <1>. QED
    BY <1>2, <1>3 DEF rest

\* Steps that move what one session has to write.
LEMMA MoveKeepsOrder ==
    ASSUME Base, InOrder, NEW s \in Sessions, UNCHANGED <<stage, job, next>>,
           \A t \in Sessions \ {s} :
                /\ written'[t] = written[t] /\ inHand'[t] = inHand[t] /\ queue'[t] = queue[t]
                /\ writer'[t] = writer[t] /\ conn'[t] = conn[t] /\ reader'[t] = reader[t],
           WrittenInOrder(s)',
           Writing(s)' => QueuedInOrder(s)' /\ reader'[s] # "absent",
           \/ reader[s] = "absent"
           \/ /\ Writing(s)' => Writing(s) /\ Pipeline(s) \subseteq Pipeline(s)'
              /\ conn[s] # "up" => conn'[s] # "up"
    PROVE  InOrder'
  <1>1. stage' = stage /\ job' = job /\ next' = next
    OBVIOUS
  <1>2. ASSUME NEW t \in Sessions
        PROVE  /\ WrittenInOrder(t)'
               /\ Writing(t)' => QueuedInOrder(t)' /\ reader'[t] # "absent"
    <2>1. CASE t = s
      BY <2>1
    <2>2. CASE t # s
      <3>1. /\ written'[t] = written[t] /\ inHand'[t] = inHand[t] /\ queue'[t] = queue[t]
            /\ writer'[t] = writer[t] /\ reader'[t] = reader[t]
        BY <2>2
      <3>2. WrittenInOrder(t)'
        BY <3>1 DEF InOrder, WrittenInOrder
      <3>3. ASSUME Writing(t)'
            PROVE  QueuedInOrder(t)' /\ reader'[t] # "absent"
        <4>1. QueuedInOrder(t) /\ reader[t] # "absent"
          BY <3>1, <3>3 DEF InOrder, Writing
        <4>. QED
          BY <3>1, <4>1 DEF QueuedInOrder, Ahead, Elements
      <3>. QED
        BY <3>2, <3>3
    <2>. QED
      BY <2>1, <2>2
  <1>3. ASSUME NEW w \in Workers, MaySend(w)', next'[w] > 1, Writing(SessionOf(w))'
        PROVE  [event |-> job'[w][1].event, number |-> next'[w] - 1] \in Pipeline(SessionOf(w))'
    <2>1. PICK t \in Sessions :
            SessionOf(w) = t /\ SessionOf(w)' = t /\ stage[w] # "idle" /\ reader[t] # "absent"
      <3>1. stage[w] # "idle" /\ SessionOf(w)' = SessionOf(w)
        BY <1>1, <1>3 DEF MaySend, SessionOf
      <3>. QED
        BY <3>1, JobOf, JobIsOpen
    <2>2. /\ Writing(t)' => Writing(t) /\ Pipeline(t) \subseteq Pipeline(t)'
          /\ conn[t] # "up" => conn'[t] # "up"
      <3>1. CASE t = s
        BY <2>1, <3>1
      <3>2. CASE t # s
        <4>1. /\ written'[t] = written[t] /\ inHand'[t] = inHand[t] /\ queue'[t] = queue[t]
              /\ writer'[t] = writer[t] /\ conn'[t] = conn[t]
          BY <2>1, <3>2
        <4>. QED
          BY <4>1 DEF Writing, Pipeline, Elements
      <3>. QED
        BY <3>1, <3>2
    <2>3. MaySend(w)
      BY <1>1, <1>3, <2>1, <2>2 DEF MaySend, Done
    <2>4. Writing(t)' /\ Writing(t)
      BY <1>3, <2>1, <2>2 DEF Writing
    <2>5. [event |-> job[w][1].event, number |-> next[w] - 1] \in Pipeline(t)
      BY <1>1, <1>3, <2>1, <2>3, <2>4 DEF InOrder
    <2>6. [event |-> job[w][1].event, number |-> next[w] - 1] \in Pipeline(t)'
      BY <2>2, <2>4, <2>5
    <2>. QED
      BY <1>1, <2>1, <2>6 DEF Pipeline
  <1>. QED
    BY <1>2, <1>3 DEF InOrder

LEMMA OneEntry ==
    ASSUME NEW S, NEW entries \in Seq(S), entries # <<>>, Len(entries) <= 1
    PROVE  Len(entries) = 1
  <1>1. Len(entries) # 0 /\ Len(entries) \in Nat
    OBVIOUS
  <1>. QED
    BY <1>1

LEMMA SessionSideKeepsOrder ==
    ASSUME Base, InOrder, NEW s \in Sessions,
           Connect(s) \/ ReadMessage(s) \/ OfferJob(s) \/ ReaderLeaves(s) \/ SocketCloses(s) \/ WriterStep(s)
    PROVE  InOrder'
  <1>1. /\ written \in [Sessions -> Seq(Action)] /\ queue \in [Sessions -> Seq(Action)]
        /\ inHand \in [Sessions -> Seq(Action)] /\ Len(inHand[s]) <= 1
        /\ inHand[s] # <<>> <=> writer[s] = "writing"
        /\ DOMAIN conn = Sessions /\ DOMAIN writer = Sessions /\ DOMAIN reader = Sessions
    BY DEF Base, TypeOK, SessionTypeOK, Coherent
  <1>2. WrittenInOrder(s) /\ (Writing(s) => QueuedInOrder(s) /\ reader[s] # "absent")
    BY DEF InOrder
  <1>3. CASE Connect(s)
    <2>1. /\ reader[s] = "absent" /\ writer[s] = "stopped"
          /\ reader' = [reader EXCEPT ![s] = "reading"] /\ queue' = [queue EXCEPT ![s] = <<>>]
          /\ conn' = [conn EXCEPT ![s] = "up"] /\ writer' = [writer EXCEPT ![s] = "selecting"]
          /\ inHand' = inHand /\ written' = written /\ UNCHANGED <<stage, job, next>>
      BY <1>3 DEF Connect, Open, jobVars
    <2>2. WrittenInOrder(s)'
      BY <1>2, <2>1 DEF WrittenInOrder
    <2>3. QueuedInOrder(s)' /\ reader'[s] # "absent"
      <3>1. inHand'[s] = <<>> /\ queue'[s] = <<>> /\ reader'[s] = "reading"
        BY <1>1, <2>1
      <3>. QED
        BY <3>1 DEF QueuedInOrder, Elements
    <2>4. \A t \in Sessions \ {s} :
            /\ written'[t] = written[t] /\ inHand'[t] = inHand[t] /\ queue'[t] = queue[t]
            /\ writer'[t] = writer[t] /\ conn'[t] = conn[t] /\ reader'[t] = reader[t]
      BY <1>1, <2>1
    <2>. QED
      BY <2>1, <2>2, <2>3, <2>4, MoveKeepsOrder
  <1>4. CASE ReadMessage(s) \/ OfferJob(s) \/ ReaderLeaves(s) \/ SocketCloses(s)
             \/ WriterSeesDone(s) \/ WriterReturns(s)
    <2>1. UNCHANGED <<written, inHand, queue, stage, job, next>>
      BY <1>4 DEF ReadMessage, OfferJob, ReaderLeaves, SocketCloses, CloseSocket, WriterSeesDone, SeeDone,
             WriterReturns, Return, others, sessionVars, jobVars
    <2>2. ASSUME NEW t \in Sessions
          PROVE  /\ writer'[t] \in {"selecting", "writing"} => writer[t] \in {"selecting", "writing"}
                 /\ conn[t] # "up" => conn'[t] # "up"
                 /\ reader[t] # "absent" => reader'[t] # "absent"
      BY <1>1, <1>4 DEF ReadMessage, OfferJob, ReaderLeaves, CloseDone, SocketCloses, CloseSocket,
             WriterSeesDone, SeeDone, WriterReturns, Return, others, sessionVars, jobVars
    <2>. QED
      BY <2>1, <2>2, QuietKeepsOrder
  <1>5. CASE WriterTakes(s)
    <2> DEFINE first == Head(queue[s])
    <2>1. /\ writer[s] = "selecting" /\ queue[s] # <<>>
          /\ inHand' = [inHand EXCEPT ![s] = <<first>>] /\ queue' = [queue EXCEPT ![s] = Tail(queue[s])]
          /\ writer' = [writer EXCEPT ![s] = "writing"] /\ conn' = conn
          /\ written' = written /\ reader' = reader /\ UNCHANGED <<stage, job, next>>
      BY <1>5 DEF WriterTakes, Take, others, jobVars
    <2>2. /\ inHand[s] = <<>> /\ inHand'[s] = <<first>> /\ queue'[s] = Tail(queue[s])
          /\ Writing(s) /\ queue[s] \in Seq(Action) /\ queue[s] # <<>>
      BY <1>1, <2>1 DEF Writing
    <2>3. /\ DOMAIN queue'[s] = 1..Len(queue[s]) - 1 /\ Len(queue[s]) \in Nat \ {0} /\ first = queue[s][1]
          /\ \A k \in 1..Len(queue[s]) - 1 : queue'[s][k] = queue[s][k + 1] /\ k + 1 \in DOMAIN queue[s]
          /\ 1 \in DOMAIN queue[s]
      BY <2>2
    <2>4. Elements(inHand[s]) = {} /\ Elements(inHand'[s]) = {first}
      BY <2>2, ElementsOf
    <2>. HIDE DEF first
    <2>5. WrittenInOrder(s)'
      BY <1>2, <2>1 DEF WrittenInOrder
    <2>6. ASSUME NEW a \in Elements(inHand'[s]), a.number > 1
          PROVE  Previous(a) \in Elements(written'[s])
      <3>1. a = queue[s][1] /\ 1 \in DOMAIN queue[s]
        BY <2>3, <2>4, <2>6
      <3>2. Previous(a) \in Ahead(s, 1)
        BY <1>2, <2>2, <2>6, <3>1 DEF QueuedInOrder
      <3>3. Ahead(s, 1) = Elements(written[s])
        BY <2>4 DEF Ahead
      <3>. QED
        BY <2>1, <3>2, <3>3
    <2>7. ASSUME NEW k \in DOMAIN queue'[s], queue'[s][k].number > 1
          PROVE  Previous(queue'[s][k]) \in Ahead(s, k)'
      <3>1. k \in 1..Len(queue[s]) - 1 /\ queue'[s][k] = queue[s][k + 1] /\ k + 1 \in DOMAIN queue[s]
        BY <2>3
      <3>2. Previous(queue'[s][k]) \in Ahead(s, k + 1)
        BY <1>2, <2>2, <2>7, <3>1 DEF QueuedInOrder
      <3>3. ASSUME NEW y \in Ahead(s, k + 1)
            PROVE  y \in Elements(written'[s]) \cup Elements(inHand'[s]) \cup {queue'[s][l] : l \in 1..k - 1}
        <4>1. CASE y \in Elements(written[s])
          BY <2>1, <4>1
        <4>2. CASE y \in {queue[s][l] : l \in 1..(k + 1) - 1}
          <5>1. PICK l \in 1..(k + 1) - 1 : y = queue[s][l]
            BY <4>2
          <5>2. CASE l = 1
            BY <2>3, <2>4, <5>1, <5>2
          <5>3. CASE l # 1
            <6>1. l - 1 \in 1..k - 1 /\ l - 1 \in 1..Len(queue[s]) - 1 /\ (l - 1) + 1 = l
              BY <2>3, <3>1, <5>1, <5>3
            <6>2. queue'[s][l - 1] = queue[s][l]
              BY <2>3, <6>1
            <6>. QED
              BY <5>1, <6>1, <6>2
          <5>. QED
            BY <5>2, <5>3
        <4>. QED
          BY <2>4, <3>3, <4>1, <4>2 DEF Ahead
      <3>. QED
        BY <3>2, <3>3 DEF Ahead
    <2>8. QueuedInOrder(s)'
      BY <2>6, <2>7 DEF QueuedInOrder
    <2>9. Pipeline(s) \subseteq Pipeline(s)'
      <3>1. Elements(queue[s]) = {first} \cup Elements(queue'[s])
        BY <2>2, ElementsOfTail DEF first
      <3>. QED
        BY <2>1, <2>4, <3>1 DEF Pipeline
    <2>10. \A t \in Sessions \ {s} :
            /\ written'[t] = written[t] /\ inHand'[t] = inHand[t] /\ queue'[t] = queue[t]
            /\ writer'[t] = writer[t] /\ conn'[t] = conn[t] /\ reader'[t] = reader[t]
      BY <1>1, <2>1
    <2>. QED
      BY <1>2, <2>1, <2>2, <2>5, <2>8, <2>9, <2>10, MoveKeepsOrder
  <1>6. CASE WriteSucceeds(s)
    <2>1. /\ writer[s] = "writing"
          /\ inHand' = [inHand EXCEPT ![s] = <<>>] /\ writer' = [writer EXCEPT ![s] = "selecting"]
          /\ written' = [written EXCEPT ![s] = written[s] \o inHand[s]]
          /\ queue' = queue /\ conn' = conn /\ reader' = reader /\ UNCHANGED <<stage, job, next>>
      BY <1>6 DEF WriteSucceeds, Write, others, jobVars
    <2>2. PICK a \in Action : inHand[s] = <<a>>
      <3>1. inHand[s] \in Seq(Action) /\ Len(inHand[s]) = 1
        <4>1. inHand[s] \in Seq(Action) /\ inHand[s] # <<>> /\ Len(inHand[s]) <= 1
          BY <1>1, <2>1
        <4>. QED
          BY <4>1, OneEntry
      <3>2. inHand[s][1] \in Action /\ inHand[s] = <<inHand[s][1]>>
        BY <3>1
      <3>. QED
        BY <3>2
    <2>3. /\ inHand'[s] = <<>> /\ written'[s] = Append(written[s], a) /\ queue'[s] = queue[s]
          /\ written[s] \in Seq(Action) /\ Writing(s)
      <3>1. written[s] \o <<a>> = Append(written[s], a)
        BY <1>1
      <3>. QED
        BY <1>1, <2>1, <2>2, <3>1 DEF Writing
    <2>4. /\ Elements(inHand[s]) = {a} /\ Elements(inHand'[s]) = {}
          /\ Elements(written'[s]) = Elements(written[s]) \cup {a}
      BY <2>2, <2>3, ElementsOf, ElementsOfAppend
    <2>5. WrittenInOrder(s)'
      <3>1. ASSUME NEW k \in DOMAIN written'[s], written'[s][k].number > 1
            PROVE  \E l \in 1..k - 1 : written'[s][l] = Previous(written'[s][k])
        <4>1. /\ DOMAIN written'[s] = 1..Len(written[s]) + 1 /\ Len(written[s]) \in Nat
              /\ DOMAIN written[s] = 1..Len(written[s])
              /\ \A l \in 1..Len(written[s]) : written'[s][l] = written[s][l]
              /\ written'[s][Len(written[s]) + 1] = a
          BY <2>3
        <4>2. CASE k \in 1..Len(written[s])
          <5>1. PICK l \in 1..k - 1 : written[s][l] = Previous(written[s][k])
            BY <1>2, <3>1, <4>1, <4>2 DEF WrittenInOrder
          <5>2. l \in 1..Len(written[s])
            BY <4>1, <4>2
          <5>. QED
            BY <4>1, <4>2, <5>1, <5>2
        <4>3. CASE k = Len(written[s]) + 1
          <5>1. Previous(a) \in Elements(written[s])
            BY <1>2, <2>3, <2>4, <3>1, <4>1, <4>3 DEF QueuedInOrder
          <5>2. PICK l \in 1..Len(written[s]) : written[s][l] = Previous(a)
            BY <4>1, <5>1 DEF Elements
          <5>3. l \in 1..k - 1
            BY <4>1, <4>3
          <5>. QED
            BY <4>1, <4>3, <5>2, <5>3
        <4>. QED
          BY <4>1, <4>2, <4>3
      <3>. QED
        BY <3>1 DEF WrittenInOrder
    <2>6. QueuedInOrder(s)'
      <3>1. \A k : Ahead(s, k)' = Ahead(s, k)
        BY <2>3, <2>4 DEF Ahead
      <3>2. \A k \in DOMAIN queue[s] : queue[s][k].number > 1 => Previous(queue[s][k]) \in Ahead(s, k)
        BY <1>2, <2>3 DEF QueuedInOrder
      <3>3. \A k \in DOMAIN queue[s] : queue[s][k].number > 1 => Previous(queue[s][k]) \in
                Elements(written'[s]) \cup Elements(inHand'[s]) \cup {queue'[s][l] : l \in 1..k - 1}
        BY <2>3, <2>4, <3>2 DEF Ahead
      <3>. QED
        BY <2>3, <2>4, <3>3 DEF QueuedInOrder, Ahead
    <2>7. Pipeline(s) \subseteq Pipeline(s)'
      BY <2>3, <2>4 DEF Pipeline
    <2>8. \A t \in Sessions \ {s} :
            /\ written'[t] = written[t] /\ inHand'[t] = inHand[t] /\ queue'[t] = queue[t]
            /\ writer'[t] = writer[t] /\ conn'[t] = conn[t] /\ reader'[t] = reader[t]
      BY <1>1, <2>1
    <2>. QED
      BY <1>2, <2>1, <2>3, <2>5, <2>6, <2>7, <2>8, MoveKeepsOrder
  <1>7. CASE WriteFails(s)
    <2>1. /\ inHand' = [inHand EXCEPT ![s] = <<>>] /\ writer' = [writer EXCEPT ![s] = "returning"]
          /\ queue' = queue /\ conn' = conn /\ reader' = reader /\ written' = written
          /\ UNCHANGED <<stage, job, next>>
      BY <1>7 DEF WriteFails, FailWrite, others, jobVars
    <2>2. ~Writing(s)'
      BY <1>1, <2>1 DEF Writing
    <2>3. WrittenInOrder(s)'
      BY <1>2, <2>1 DEF WrittenInOrder
    <2>4. \A t \in Sessions \ {s} :
            /\ written'[t] = written[t] /\ inHand'[t] = inHand[t] /\ queue'[t] = queue[t]
            /\ writer'[t] = writer[t] /\ conn'[t] = conn[t] /\ reader'[t] = reader[t]
      BY <1>1, <2>1
    <2>. QED
      BY <2>1, <2>2, <2>3, <2>4, MoveKeepsOrder
  <1>. QED
    BY <1>3, <1>4, <1>5, <1>6, <1>7 DEF WriterStep

\* Steps of one worker that put nothing on a queue.
LEMMA WorkerOnlyKeepsOrder ==
    ASSUME Base, InOrder, NEW w \in Workers,
           UNCHANGED <<written, inHand, queue, writer, conn, reader>>,
           \A v \in Workers \ {w} : job'[v] = job[v] /\ stage'[v] = stage[v] /\ next'[v] = next[v],
           MaySend(w)' /\ next'[w] > 1 =>
                MaySend(w) /\ next'[w] = next[w] /\ job'[w] = job[w]
    PROVE  InOrder'
  <1>1. /\ written' = written /\ inHand' = inHand /\ queue' = queue
        /\ writer' = writer /\ conn' = conn /\ reader' = reader
    OBVIOUS
  <1>2. ASSUME NEW s \in Sessions
        PROVE  /\ WrittenInOrder(s)'
               /\ Writing(s)' => QueuedInOrder(s)' /\ reader'[s] # "absent"
    <2>1. WrittenInOrder(s)'
      BY <1>1 DEF InOrder, WrittenInOrder
    <2>2. ASSUME Writing(s)'
          PROVE  QueuedInOrder(s)' /\ reader'[s] # "absent"
      <3>1. QueuedInOrder(s) /\ reader[s] # "absent"
        BY <1>1, <2>2 DEF InOrder, Writing
      <3>. QED
        BY <1>1, <3>1 DEF QueuedInOrder, Ahead, Elements
    <2>. QED
      BY <2>1, <2>2
  <1>3. ASSUME NEW v \in Workers, MaySend(v)', next'[v] > 1, Writing(SessionOf(v))'
        PROVE  [event |-> job'[v][1].event, number |-> next'[v] - 1] \in Pipeline(SessionOf(v))'
    <2>1. MaySend(v) /\ next'[v] = next[v] /\ job'[v] = job[v]
      <3>1. CASE v = w
        BY <1>3, <3>1
      <3>2. CASE v # w
        BY <1>1, <1>3, <3>2 DEF MaySend, Done, SessionOf
      <3>. QED
        BY <3>1, <3>2
    <2>2. PICK s \in Sessions : SessionOf(v) = s /\ SessionOf(v)' = s
      <3>1. SessionOf(v)' = SessionOf(v) /\ stage[v] # "idle"
        BY <2>1 DEF SessionOf, MaySend
      <3>. QED
        BY <3>1, JobOf
    <2>3. Writing(s)
      BY <1>1, <1>3, <2>2 DEF Writing
    <2>4. [event |-> job[v][1].event, number |-> next[v] - 1] \in Pipeline(s)
      BY <1>3, <2>1, <2>2, <2>3 DEF InOrder
    <2>5. Pipeline(s)' = Pipeline(s)
      BY <1>1 DEF Pipeline, Elements
    <2>. QED
      BY <2>1, <2>2, <2>4, <2>5 DEF Pipeline
  <1>. QED
    BY <1>2, <1>3 DEF InOrder

LEMMA SendKeepsOrder ==
    ASSUME Base, InOrder, NEW w \in Workers, SendAction(w)
    PROVE  InOrder'
  <1> DEFINE a == [event |-> job[w][1].event, number |-> next[w]]
  <1>1. PICK s \in Sessions, act \in Action :
            /\ s = SessionOf(w) /\ act = a /\ act.number = next[w] /\ act.event = job[w][1].event
            /\ stage[w] = "sending" /\ next[w] \in Nat \ {0}
            /\ queue' = [queue EXCEPT ![s] = Append(queue[s], act)]
            /\ conn' = conn /\ writer' = writer /\ inHand' = inHand
            /\ TurnTo(w, next[w] + 1, Total(w)) /\ reader' = reader /\ written' = written
    <2>1. /\ stage[w] = "sending" /\ Put(SessionOf(w), a) /\ Advance(w)
      BY DEF SendAction
    <2>2. SessionOf(w) \in Sessions /\ a \in Action /\ next[w] \in Nat \ {0}
      BY <2>1, JobOf
    <2>. QED
      BY <2>1, <2>2 DEF Put, Advance
  <1>. HIDE DEF a
  <1>2. /\ queue[s] \in Seq(Action) /\ DOMAIN queue = Sessions /\ job \in [Workers -> Seq(Job)]
        /\ DOMAIN stage = Workers /\ DOMAIN next = Workers
    BY DEF Base, TypeOK, SessionTypeOK
  <1>3. /\ queue'[s] = Append(queue[s], act)
        /\ \A t \in Sessions \ {s} : queue'[t] = queue[t]
        /\ Elements(queue'[s]) = Elements(queue[s]) \cup {act}
    BY <1>1, <1>2, ElementsOfAppend
  <1>4. /\ \A v \in Workers \ {w} : job'[v] = job[v] /\ stage'[v] = stage[v] /\ next'[v] = next[v]
        /\ stage'[w] # "idle" => /\ job'[w] = job[w] /\ next'[w] = next[w] + 1
    <2>1. CASE next[w] + 1 <= Total(w)
      BY <1>1, <1>2, <2>1 DEF TurnTo
    <2>2. CASE ~(next[w] + 1 <= Total(w))
      BY <1>1, <1>2, <2>2 DEF TurnTo
    <2>. QED
      BY <2>1, <2>2
  <1>5. \A t \in Sessions : Pipeline(t) \subseteq Pipeline(t)'
    <2>1. ASSUME NEW t \in Sessions
          PROVE  Elements(queue[t]) \subseteq Elements(queue'[t])
      <3>1. CASE t = s
        BY <1>3, <3>1
      <3>2. CASE t # s
        BY <1>3, <3>2
      <3>. QED
        BY <3>1, <3>2
    <2>. QED
      BY <1>1, <2>1 DEF Pipeline
  <1>6. ASSUME NEW t \in Sessions
        PROVE  /\ WrittenInOrder(t)'
               /\ Writing(t)' => QueuedInOrder(t)' /\ reader'[t] # "absent"
    <2>1. WrittenInOrder(t)'
      BY <1>1 DEF InOrder, WrittenInOrder
    <2>2. ASSUME Writing(t)'
          PROVE  reader'[t] # "absent" /\ QueuedInOrder(t)
      BY <1>1, <2>2 DEF InOrder, Writing
    <2>3. ASSUME Writing(t)', t # s
          PROVE  QueuedInOrder(t)'
      <3>1. QueuedInOrder(t) /\ queue'[t] = queue[t] /\ written'[t] = written[t] /\ inHand'[t] = inHand[t]
        BY <1>1, <1>3, <2>2, <2>3
      <3>. QED
        BY <3>1 DEF QueuedInOrder, Ahead, Elements
    <2>4. ASSUME Writing(t)', t = s
          PROVE  QueuedInOrder(t)'
      <3>1. /\ Len(queue[s]) \in Nat /\ DOMAIN queue[s] = 1..Len(queue[s])
            /\ DOMAIN queue'[s] = 1..Len(queue[s]) + 1
            /\ \A k \in 1..Len(queue[s]) : queue'[s][k] = queue[s][k]
            /\ queue'[s][Len(queue[s]) + 1] = act
        BY <1>2, <1>3
      <3>2. \A b \in Elements(inHand'[s]) : b.number > 1 => Previous(b) \in Elements(written'[s])
        BY <1>1, <2>2, <2>4 DEF QueuedInOrder
      <3>3. ASSUME NEW k \in DOMAIN queue'[s], queue'[s][k].number > 1
            PROVE  Previous(queue'[s][k]) \in
                        Elements(written'[s]) \cup Elements(inHand'[s]) \cup {queue'[s][l] : l \in 1..k - 1}
        <4>1. CASE k \in 1..Len(queue[s])
          <5>1. Previous(queue[s][k]) \in Ahead(s, k)
            BY <2>2, <2>4, <3>1, <3>3, <4>1 DEF QueuedInOrder
          <5>2. \A l \in 1..k - 1 : queue'[s][l] = queue[s][l]
            BY <3>1, <4>1
          <5>. QED
            BY <1>1, <3>1, <4>1, <5>1, <5>2 DEF Ahead
        <4>2. CASE k = Len(queue[s]) + 1
          <5>1. next[w] > 1 /\ Previous(act) = [event |-> job[w][1].event, number |-> next[w] - 1]
            BY <1>1, <3>1, <3>3, <4>2 DEF Previous
          <5>2. MaySend(w) /\ Writing(s)
            BY <1>1, <2>4 DEF MaySend, Writing
          <5>3. Previous(act) \in Pipeline(s)
            BY <1>1, <5>1, <5>2 DEF InOrder
          <5>4. Elements(queue[s]) \subseteq {queue'[s][l] : l \in 1..k - 1}
            <6>1. k - 1 = Len(queue[s])
              BY <3>1, <4>2
            <6>. QED
              BY <3>1, <6>1 DEF Elements
          <5>. QED
            BY <1>1, <3>1, <4>2, <5>3, <5>4 DEF Pipeline
        <4>. QED
          BY <3>1, <4>1, <4>2
      <3>. QED
        BY <2>4, <3>2, <3>3 DEF QueuedInOrder, Ahead
    <2>. QED
      BY <2>1, <2>2, <2>3, <2>4
  <1>7. ASSUME NEW v \in Workers, MaySend(v)', next'[v] > 1, Writing(SessionOf(v))'
        PROVE  [event |-> job'[v][1].event, number |-> next'[v] - 1] \in Pipeline(SessionOf(v))'
    <2>1. CASE v = w
      <3>1. job'[w] = job[w] /\ next'[w] = next[w] + 1
        BY <1>4, <1>7, <2>1 DEF MaySend
      <3>2. act = [event |-> job'[v][1].event, number |-> next'[v] - 1] /\ SessionOf(v)' = s
        <4>1. (next[w] + 1) - 1 = next[w]
          BY <1>1
        <4>. QED
          BY <1>1, <2>1, <3>1, <4>1 DEF SessionOf, a
      <3>. QED
        BY <1>3, <3>2 DEF Pipeline
    <2>2. CASE v # w
      <3>1. job'[v] = job[v] /\ next'[v] = next[v] /\ MaySend(v)
        BY <1>1, <1>4, <1>7, <2>2 DEF MaySend, Done, SessionOf
      <3>2. PICK t \in Sessions : SessionOf(v) = t /\ SessionOf(v)' = t
        <4>1. SessionOf(v)' = SessionOf(v) /\ stage[v] # "idle"
          BY <3>1 DEF SessionOf, MaySend
        <4>. QED
          BY <4>1, JobOf
      <3>3. Writing(t)
        BY <1>1, <1>7, <3>2 DEF Writing
      <3>4. [event |-> job[v][1].event, number |-> next[v] - 1] \in Pipeline(t)
        BY <1>7, <3>1, <3>2, <3>3 DEF InOrder
      <3>5. [event |-> job[v][1].event, number |-> next[v] - 1] \in Pipeline(t)'
        BY <1>5, <3>4
      <3>. QED
        BY <3>1, <3>2, <3>5 DEF Pipeline
    <2>. QED
      BY <2>1, <2>2
  <1>. QED
    BY <1>6, <1>7 DEF InOrder

LEMMA WorkerKeepsOrder ==
    ASSUME Base, InOrder, NEW w \in Workers, WorkerStep(w)
    PROVE  InOrder'
  <1>1. job \in [Workers -> Seq(Job)] /\ DOMAIN stage = Workers /\ next \in [Workers -> 1..MaxActions + 1]
    BY DEF Base, TypeOK
  <1>2. CASE TakeJob(w)
    <2>1. /\ UNCHANGED <<written, inHand, queue, writer, conn, reader>>
          /\ \A v \in Workers \ {w} : job'[v] = job[v] /\ stage'[v] = stage[v] /\ next'[v] = next[v]
          /\ stage'[w] = "dispatching"
      BY <1>1, <1>2 DEF TakeJob, sessionVars
    <2>2. ~MaySend(w)'
      BY <2>1 DEF MaySend
    <2>. QED
      BY <2>1, <2>2, WorkerOnlyKeepsOrder
  <1>3. CASE DispatchReturns(w)
    <2>1. PICK n \in 0..MaxActions : TurnTo(w, 1, n)
      BY <1>3 DEF DispatchReturns
    <2>2. /\ \A v \in Workers \ {w} : job'[v] = job[v] /\ stage'[v] = stage[v] /\ next'[v] = next[v]
          /\ next'[w] = 1
      <3>1. CASE 1 <= n
        BY <1>1, <2>1, <3>1 DEF TurnTo
      <3>2. CASE ~(1 <= n)
        BY <1>1, <2>1, <3>2 DEF TurnTo
      <3>. QED
        BY <3>1, <3>2
    <2>3. UNCHANGED <<written, inHand, queue, writer, conn, reader>>
      BY <1>3 DEF DispatchReturns, sessionVars
    <2>4. ~(next'[w] > 1)
      BY <2>2
    <2>. QED
      BY <2>2, <2>3, <2>4, WorkerOnlyKeepsOrder
  <1>4. ASSUME Advance(w), UNCHANGED sessionVars, Done(SessionOf(w)), stage[w] # "idle"
        PROVE  InOrder'
    <2>1. /\ \A v \in Workers \ {w} : job'[v] = job[v] /\ stage'[v] = stage[v] /\ next'[v] = next[v]
          /\ \/ stage'[w] = "checking" /\ job'[w] = job[w]
             \/ stage'[w] = "idle"
      <3>1. CASE next[w] + 1 <= Total(w)
        BY <1>1, <1>4, <3>1 DEF Advance, TurnTo
      <3>2. CASE ~(next[w] + 1 <= Total(w))
        BY <1>1, <1>4, <3>2 DEF Advance, TurnTo
      <3>. QED
        BY <3>1, <3>2
    <2>2. UNCHANGED <<written, inHand, queue, writer, conn, reader>>
      BY <1>4 DEF Advance, sessionVars
    <2>3. ~MaySend(w)'
      BY <1>4, <2>1, <2>2 DEF MaySend, Done, SessionOf
    <2>. QED
      BY <2>1, <2>2, <2>3, WorkerOnlyKeepsOrder
  <1>5. CASE CheckDone(w)
    <2>1. CASE Done(SessionOf(w))
      BY <1>4, <1>5, <2>1 DEF CheckDone
    <2>2. CASE ~Done(SessionOf(w))
      <3>1. /\ UNCHANGED <<written, inHand, queue, writer, conn, reader>>
            /\ \A v \in Workers \ {w} : job'[v] = job[v] /\ stage'[v] = stage[v] /\ next'[v] = next[v]
            /\ next' = next /\ job' = job /\ stage[w] = "checking"
        BY <1>1, <1>5, <2>2 DEF CheckDone, sessionVars
      <3>2. MaySend(w)
        BY <2>2, <3>1 DEF MaySend
      <3>. QED
        BY <3>1, <3>2, WorkerOnlyKeepsOrder
    <2>. QED
      BY <2>1, <2>2
  <1>6. CASE SendAction(w)
    BY <1>6, SendKeepsOrder
  <1>7. CASE DropAction(w)
    BY <1>4, <1>7 DEF DropAction
  <1>. QED
    BY <1>2, <1>3, <1>5, <1>6, <1>7 DEF WorkerStep

\* AnswersArriveAsPrefix: the two selects of a worker and the order of the queue
\* see to it that no action is written without the one before it, also when the
\* session ends between the two, and whatever other workers do.
THEOREM PrefixesArrive == Spec => []AnswersArriveAsPrefix
  <1>1. Base /\ InOrder /\ [Next]_vars => InOrder'
    <2> SUFFICES ASSUME Base, InOrder, [Next]_vars PROVE InOrder'
      OBVIOUS
    <2>1. ASSUME NEW s \in Sessions,
                 Connect(s) \/ ReadMessage(s) \/ OfferJob(s) \/ ReaderLeaves(s) \/ SocketCloses(s) \/ WriterStep(s)
          PROVE  InOrder'
      BY <2>1, SessionSideKeepsOrder
    <2>2. ASSUME NEW w \in Workers, WorkerStep(w)
          PROVE  InOrder'
      BY <2>2, WorkerKeepsOrder
    <2>3. CASE UNCHANGED vars
      <3>1. /\ UNCHANGED <<written, inHand, queue, stage, job, next>>
            /\ writer' = writer /\ conn' = conn /\ reader' = reader
        BY <2>3 DEF vars, sessionVars, jobVars
      <3>. QED
        BY <3>1, QuietKeepsOrder
    <2>. QED
      BY <2>1, <2>2, <2>3 DEF Next
  <1>2. Base /\ InOrder => AnswersArriveAsPrefix
    <2> SUFFICES ASSUME Base, InOrder, NEW s \in Sessions, NEW k \in DOMAIN written[s],
                        written[s][k].number > 1
                 PROVE  \E l \in 1..k - 1 : /\ written[s][l].event = written[s][k].event
                                            /\ written[s][l].number = written[s][k].number - 1
      BY DEF AnswersArriveAsPrefix
    <2>1. PICK l \in 1..k - 1 : written[s][l] = Previous(written[s][k])
      BY DEF InOrder, WrittenInOrder
    <2>. QED
      BY <2>1 DEF Previous
  <1>3. Spec => []Base
    BY TypesInvariant
  <1>. QED
    BY <1>1, <1>2, <1>3, InitialInOrder, PTL DEF Spec

-----------------------------------------------------------------------------
Once(entries, a) ==
    \E k \in DOMAIN entries : entries[k] = a /\ \A l \in DOMAIN entries : entries[l] = a => l = k

\* The workers that have yet to send an action.
Holders(s, a) ==
    {w \in Workers :
        /\ stage[w] \in {"checking", "sending"}
        /\ SessionOf(w) = s /\ job[w][1].event = a.event
        /\ a.number \in next[w]..Total(w)}

OnWay(s, a) ==
    \/ Once(written[s], a) /\ a \notin Elements(inHand[s]) /\ a \notin Elements(queue[s])
    \/ Once(inHand[s], a) /\ a \notin Elements(written[s]) /\ a \notin Elements(queue[s])
    \/ Once(queue[s], a) /\ a \notin Elements(written[s]) /\ a \notin Elements(inHand[s])

InOnePlace(s, a) ==
    \/ (\E w : Holders(s, a) = {w}) /\ a \notin Pipeline(s)
    \/ Holders(s, a) = {} /\ OnWay(s, a)

Up(s) == conn[s] = "up" /\ writer[s] # "returning"

\* What the session has to write was returned by a dispatch, and as long as the
\* session is up, every action that was returned is in one place.
Placed ==
    \A s \in Sessions : \A a \in Action :
        /\ a \in Pipeline(s) => a.number <= answers[s][a.event]
        /\ Up(s) /\ a.number <= answers[s][a.event] => InOnePlace(s, a)

LEMMA InitialPlaced == Init => Placed
  <1> SUFFICES ASSUME Init, NEW s \in Sessions, NEW a \in Action
               PROVE  /\ a \notin Pipeline(s)
                      /\ ~Up(s)
    BY DEF Placed
  <1>1. written[s] = <<>> /\ inHand[s] = <<>> /\ queue[s] = <<>> /\ conn[s] = "closed"
    BY DEF Init, SessionInit
  <1>. QED
    BY <1>1, ElementsOf DEF Pipeline, Up

LEMMA OnceAppended ==
    ASSUME NEW S, NEW entries \in Seq(S), NEW x \in S, NEW a
    PROVE  /\ a \notin Elements(entries) /\ x = a => Once(Append(entries, x), a)
           /\ Once(entries, a) /\ x # a => Once(Append(entries, x), a)
  <1> DEFINE longer == Append(entries, x)
  <1>1. /\ DOMAIN longer = 1..Len(entries) + 1 /\ DOMAIN entries = 1..Len(entries) /\ Len(entries) \in Nat
        /\ \A k \in 1..Len(entries) : longer[k] = entries[k]
        /\ longer[Len(entries) + 1] = x
    OBVIOUS
  <1>. HIDE DEF longer
  <1>2. \A k \in DOMAIN longer : k \in DOMAIN entries \/ k = Len(entries) + 1
    BY <1>1
  <1>3. ASSUME a \notin Elements(entries), x = a
        PROVE  Once(longer, a)
    <2>1. Len(entries) + 1 \in DOMAIN longer /\ longer[Len(entries) + 1] = a
      BY <1>1, <1>3
    <2>2. ASSUME NEW l \in DOMAIN longer, longer[l] = a
          PROVE  l = Len(entries) + 1
      BY <1>1, <1>2, <1>3, <2>2 DEF Elements
    <2>. QED
      BY <2>1, <2>2 DEF Once
  <1>4. ASSUME Once(entries, a), x # a
        PROVE  Once(longer, a)
    <2>1. PICK k \in DOMAIN entries : entries[k] = a /\ \A l \in DOMAIN entries : entries[l] = a => l = k
      BY <1>4 DEF Once
    <2>2. k \in DOMAIN longer /\ longer[k] = a
      BY <1>1, <2>1
    <2>3. ASSUME NEW l \in DOMAIN longer, longer[l] = a
          PROVE  l = k
      BY <1>1, <1>2, <1>4, <2>1, <2>3
    <2>. QED
      BY <2>2, <2>3 DEF Once
  <1>. QED
    BY <1>3, <1>4 DEF longer

LEMMA OnceTaken ==
    ASSUME NEW S, NEW entries \in Seq(S), entries # <<>>, NEW a, Once(entries, a)
    PROVE  IF Head(entries) = a THEN a \notin Elements(Tail(entries)) ELSE Once(Tail(entries), a)
  <1> DEFINE rest == Tail(entries)
  <1>1. /\ DOMAIN entries = 1..Len(entries) /\ Len(entries) \in Nat \ {0}
        /\ DOMAIN rest = 1..Len(entries) - 1 /\ Head(entries) = entries[1]
        /\ \A k \in 1..Len(entries) - 1 : rest[k] = entries[k + 1]
    OBVIOUS
  <1>. HIDE DEF rest
  <1>2. \A k \in DOMAIN rest : k + 1 \in DOMAIN entries /\ k + 1 # 1 /\ k \in Nat
    BY <1>1
  <1>3. PICK k \in DOMAIN entries : entries[k] = a /\ \A l \in DOMAIN entries : entries[l] = a => l = k
    BY DEF Once
  <1>4. CASE k = 1
    <2>1. Head(entries) = a
      BY <1>1, <1>3, <1>4
    <2>2. a \notin Elements(rest)
      BY <1>1, <1>2, <1>3, <1>4 DEF Elements
    <2>. QED
      BY <2>1, <2>2 DEF rest
  <1>5. CASE k # 1
    <2>1. Head(entries) # a
      <3>1. 1 \in DOMAIN entries
        BY <1>1
      <3>. QED
        BY <1>1, <1>3, <1>5, <3>1
    <2>2. k - 1 \in DOMAIN rest /\ (k - 1) + 1 = k
      BY <1>1, <1>5
    <2>3. rest[k - 1] = a
      BY <1>1, <1>3, <2>2
    <2>4. ASSUME NEW l \in DOMAIN rest, rest[l] = a
          PROVE  l = k - 1
      <3>1. l + 1 = k /\ l \in Nat
        BY <1>1, <1>2, <1>3, <2>4
      <3>. QED
        BY <3>1
    <2>5. Once(rest, a)
      BY <2>2, <2>3, <2>4 DEF Once
    <2>. QED
      BY <2>1, <2>5 DEF rest
  <1>. QED
    BY <1>4, <1>5

LEMMA OnceAlone ==
    \A x : Once(<<x>>, x)
  BY DEF Once

\* Steps that move what one session has to write, and no worker.
LEMMA MoveKeepsPlaces ==
    ASSUME Base, Placed, NEW s \in Sessions, UNCHANGED <<stage, job, next, answers>>,
           \A t \in Sessions \ {s} :
                /\ written'[t] = written[t] /\ inHand'[t] = inHand[t] /\ queue'[t] = queue[t]
                /\ writer'[t] = writer[t] /\ conn'[t] = conn[t],
           Pipeline(s)' \subseteq Pipeline(s),
           Up(s)' => \A a \in Action : /\ OnWay(s, a) => OnWay(s, a)'
                                       /\ a.number <= answers[s][a.event] => Up(s)
    PROVE  Placed'
  <1>1. stage' = stage /\ job' = job /\ next' = next /\ answers' = answers
    OBVIOUS
  <1>2. ASSUME NEW t \in Sessions, NEW a \in Action
        PROVE  /\ Pipeline(t)' \subseteq Pipeline(t)
               /\ Up(t)' => (OnWay(t, a) => OnWay(t, a)') /\ (a.number <= answers[t][a.event] => Up(t))
    <2>1. CASE t = s
      BY <2>1
    <2>2. CASE t # s
      <3>1. /\ written'[t] = written[t] /\ inHand'[t] = inHand[t] /\ queue'[t] = queue[t]
            /\ writer'[t] = writer[t] /\ conn'[t] = conn[t]
        BY <2>2
      <3>. QED
        BY <3>1 DEF Pipeline, Elements, Up, OnWay, Once
    <2>. QED
      BY <2>1, <2>2
  <1>3. ASSUME NEW t \in Sessions, NEW a \in Action
        PROVE  /\ a \in Pipeline(t)' => a.number <= answers[t][a.event]
               /\ Up(t)' /\ a.number <= answers[t][a.event] => InOnePlace(t, a)'
    <2>1. a \in Pipeline(t)' => a.number <= answers[t][a.event]
      BY <1>2 DEF Placed
    <2>2. ASSUME Up(t)', a.number <= answers[t][a.event]
          PROVE  InOnePlace(t, a)'
      <3>1. InOnePlace(t, a) /\ (OnWay(t, a) => OnWay(t, a)')
        BY <1>2, <2>2 DEF Placed
      <3>2. Holders(t, a)' = Holders(t, a)
        BY <1>1 DEF Holders, SessionOf, Total
      <3>3. a \notin Pipeline(t) => a \notin Pipeline(t)'
        BY <1>2
      <3>. QED
        BY <3>1, <3>2, <3>3 DEF InOnePlace
    <2>. QED
      BY <2>1, <2>2
  <1>. QED
    BY <1>1, <1>3 DEF Placed

LEMMA SessionSideKeepsPlaces ==
    ASSUME Base, Placed, NEW s \in Sessions,
           Connect(s) \/ ReadMessage(s) \/ OfferJob(s) \/ ReaderLeaves(s) \/ SocketCloses(s) \/ WriterStep(s)
    PROVE  Placed'
  <1>1. /\ written \in [Sessions -> Seq(Action)] /\ queue \in [Sessions -> Seq(Action)]
        /\ inHand \in [Sessions -> Seq(Action)] /\ Len(inHand[s]) <= 1
        /\ inHand[s] # <<>> <=> writer[s] = "writing"
        /\ conn \in [Sessions -> {"up", "done", "closed"}] /\ DOMAIN writer = Sessions
    BY DEF Base, TypeOK, SessionTypeOK, Coherent
  <1>2. CASE Connect(s)
    <2>1. /\ reader[s] = "absent" /\ writer[s] = "stopped"
          /\ queue' = [queue EXCEPT ![s] = <<>>] /\ conn' = [conn EXCEPT ![s] = "up"]
          /\ writer' = [writer EXCEPT ![s] = "selecting"]
          /\ inHand' = inHand /\ written' = written /\ UNCHANGED <<stage, job, next, answers>>
      BY <1>2 DEF Connect, Open, jobVars
    <2>2. ASSUME NEW e \in 1..MaxEvents
          PROVE  answers[s][e] = 0
      <3> DEFINE j == [session |-> s, event |-> e]
      <3>1. j \in Job /\ j.session = s /\ j.event = e /\ e \in Nat \ {0}
        BY DEF Job
      <3>2. received[s] = 0
        BY <2>1 DEF Base, Coherent
      <3>. HIDE DEF j
      <3>3. j \notin Offered
        BY <3>1, <3>2 DEF Offered
      <3>4. j \in Unanswered
        BY <3>1, <3>3 DEF Base, EventsOnce
      <3>. QED
        BY <3>1, <3>4 DEF Unanswered
    <2>3. ASSUME NEW a \in Action
          PROVE  ~(a.number <= answers[s][a.event])
      <3>1. a.event \in 1..MaxEvents /\ a.number \in Nat \ {0}
        BY DEF Action
      <3>2. answers[s][a.event] = 0
        BY <2>2, <3>1
      <3>. QED
        BY <3>1, <3>2
    <2>4. \A a \in Action : a \notin Pipeline(s)
      BY <2>3 DEF Placed
    <2>5. queue'[s] = <<>> /\ Pipeline(s)' \subseteq Pipeline(s)
      BY <1>1, <2>1, ElementsOf DEF Pipeline
    <2>6. \A a \in Action : OnWay(s, a) => OnWay(s, a)'
      <3>1. ASSUME NEW a \in Action, OnWay(s, a)
            PROVE  a \in Pipeline(s)
        BY <3>1 DEF OnWay, Once, Pipeline, Elements
      <3>. QED
        BY <2>4, <3>1
    <2>7. \A t \in Sessions \ {s} :
            /\ written'[t] = written[t] /\ inHand'[t] = inHand[t] /\ queue'[t] = queue[t]
            /\ writer'[t] = writer[t] /\ conn'[t] = conn[t]
      BY <1>1, <2>1
    <2>. QED
      BY <2>1, <2>3, <2>5, <2>6, <2>7, MoveKeepsPlaces
  <1>3. CASE ReadMessage(s) \/ OfferJob(s) \/ ReaderLeaves(s) \/ SocketCloses(s)
             \/ WriterSeesDone(s) \/ WriterReturns(s)
    <2>1. /\ UNCHANGED <<stage, job, next, answers>>
          /\ written' = written /\ inHand' = inHand /\ queue' = queue
      BY <1>3 DEF ReadMessage, OfferJob, ReaderLeaves, SocketCloses, CloseSocket, WriterSeesDone, SeeDone,
             WriterReturns, Return, others, sessionVars, jobVars
    <2>2. \A t \in Sessions \ {s} : writer'[t] = writer[t] /\ conn'[t] = conn[t]
      BY <1>1, <1>3 DEF ReadMessage, OfferJob, ReaderLeaves, CloseDone, SocketCloses, CloseSocket,
             WriterSeesDone, SeeDone, WriterReturns, Return, others, sessionVars, jobVars
    <2>3. Up(s)' => Up(s)
      BY <1>1, <1>3 DEF Up, ReadMessage, OfferJob, ReaderLeaves, CloseDone, SocketCloses, CloseSocket,
             WriterSeesDone, SeeDone, Done, WriterReturns, Return, others, sessionVars, jobVars
    <2>4. Pipeline(s)' = Pipeline(s) /\ \A a \in Action : OnWay(s, a)' <=> OnWay(s, a)
      BY <2>1 DEF Pipeline, OnWay
    <2>. QED
      BY <2>1, <2>2, <2>3, <2>4, MoveKeepsPlaces
  <1>4. CASE WriterTakes(s)
    <2> DEFINE first == Head(queue[s])
    <2>1. /\ writer[s] = "selecting" /\ queue[s] # <<>>
          /\ inHand' = [inHand EXCEPT ![s] = <<first>>] /\ queue' = [queue EXCEPT ![s] = Tail(queue[s])]
          /\ writer' = [writer EXCEPT ![s] = "writing"] /\ conn' = conn
          /\ written' = written /\ UNCHANGED <<stage, job, next, answers>>
      BY <1>4 DEF WriterTakes, Take, others, jobVars
    <2>2. /\ inHand[s] = <<>> /\ inHand'[s] = <<first>> /\ queue'[s] = Tail(queue[s])
          /\ queue[s] \in Seq(Action) /\ queue[s] # <<>> /\ writer'[s] = "writing"
      BY <1>1, <2>1
    <2>3. /\ Elements(inHand[s]) = {} /\ Elements(inHand'[s]) = {first}
          /\ Elements(queue[s]) = {first} \cup Elements(queue'[s])
      <3>1. Elements(queue[s]) = {first} \cup Elements(Tail(queue[s]))
        BY <2>2, ElementsOfTail
      <3>. QED
        BY <2>2, <3>1, ElementsOf
    <2>4. ASSUME NEW a, Once(queue[s], a)
          PROVE  IF first = a THEN a \notin Elements(queue'[s]) ELSE Once(queue'[s], a)
      <3>1. IF first = a THEN a \notin Elements(Tail(queue[s])) ELSE Once(Tail(queue[s]), a)
        BY <2>2, <2>4, OnceTaken
      <3>. QED
        BY <2>2, <3>1
    <2>5. Once(inHand'[s], first)
      BY <2>2, OnceAlone
    <2>. HIDE DEF first
    <2>6. Pipeline(s)' \subseteq Pipeline(s)
      BY <2>1, <2>3 DEF Pipeline
    <2>7. ASSUME NEW a \in Action, OnWay(s, a)
          PROVE  OnWay(s, a)'
      <3>1. ~Once(inHand[s], a)
        BY <2>2 DEF Once
      <3>2. CASE Once(written[s], a) /\ a \notin Elements(queue[s])
        BY <2>1, <2>3, <3>2 DEF OnWay
      <3>3. CASE Once(queue[s], a) /\ a \notin Elements(written[s])
        <4>1. CASE first = a
          BY <2>1, <2>4, <2>5, <3>3, <4>1 DEF OnWay
        <4>2. CASE first # a
          BY <2>1, <2>3, <2>4, <3>3, <4>2 DEF OnWay
        <4>. QED
          BY <4>1, <4>2
      <3>. QED
        BY <2>7, <3>1, <3>2, <3>3 DEF OnWay
    <2>8. Up(s)' => Up(s)
      BY <2>1 DEF Up
    <2>9. \A t \in Sessions \ {s} :
            /\ written'[t] = written[t] /\ inHand'[t] = inHand[t] /\ queue'[t] = queue[t]
            /\ writer'[t] = writer[t] /\ conn'[t] = conn[t]
      BY <1>1, <2>1
    <2>. QED
      BY <2>1, <2>6, <2>7, <2>8, <2>9, MoveKeepsPlaces
  <1>5. CASE WriteSucceeds(s)
    <2>1. /\ writer[s] = "writing" /\ writer' = [writer EXCEPT ![s] = "selecting"]
          /\ inHand' = [inHand EXCEPT ![s] = <<>>] /\ conn' = conn /\ queue' = queue
          /\ written' = [written EXCEPT ![s] = written[s] \o inHand[s]]
          /\ UNCHANGED <<stage, job, next, answers>>
      BY <1>5 DEF WriteSucceeds, Write, others, jobVars
    <2>2. inHand[s] \in Seq(Action) /\ inHand[s] # <<>> /\ written[s] \in Seq(Action)
      BY <1>1, <2>1
    <2>3. PICK b \in Action : inHand[s] = <<b>> /\ written[s] \o inHand[s] = Append(written[s], b)
      <3>1. Len(inHand[s]) = 1
        BY <1>1, <2>2, OneEntry
      <3>2. inHand[s] = <<inHand[s][1]>> /\ inHand[s][1] \in Action
        BY <2>2, <3>1
      <3>3. ASSUME NEW b \in Action
            PROVE  written[s] \o <<b>> = Append(written[s], b)
        BY <2>2
      <3>. QED
        BY <3>2, <3>3
    <2>4. inHand'[s] = <<>> /\ written'[s] = Append(written[s], b)
      BY <1>1, <2>1, <2>3
    <2>5. /\ Elements(inHand[s]) = {b} /\ Elements(inHand'[s]) = {}
          /\ Elements(written'[s]) = Elements(written[s]) \cup {b}
      BY <2>2, <2>3, <2>4, ElementsOf, ElementsOfAppend
    <2>6. Pipeline(s)' \subseteq Pipeline(s)
      BY <2>1, <2>5 DEF Pipeline
    <2>7. ASSUME NEW a \in Action
          PROVE  /\ a \notin Elements(written[s]) /\ b = a => Once(written'[s], a)
                 /\ Once(written[s], a) /\ b # a => Once(written'[s], a)
      <3>1. /\ a \notin Elements(written[s]) /\ b = a => Once(Append(written[s], b), a)
            /\ Once(written[s], a) /\ b # a => Once(Append(written[s], b), a)
        BY <2>2, OnceAppended
      <3>. QED
        BY <2>4, <3>1
    <2>8. ASSUME NEW a \in Action, OnWay(s, a)
          PROVE  OnWay(s, a)'
      <3>1. CASE Once(written[s], a) /\ a \notin Elements(inHand[s]) /\ a \notin Elements(queue[s])
        BY <2>1, <2>5, <2>7, <3>1 DEF OnWay
      <3>2. CASE Once(inHand[s], a) /\ a \notin Elements(written[s]) /\ a \notin Elements(queue[s])
        <4>1. a = b
          BY <2>3, <3>2 DEF Once
        <4>. QED
          BY <2>1, <2>5, <2>7, <3>2, <4>1 DEF OnWay
      <3>3. CASE Once(queue[s], a) /\ a \notin Elements(written[s]) /\ a \notin Elements(inHand[s])
        BY <2>1, <2>5, <3>3 DEF OnWay
      <3>. QED
        BY <2>8, <3>1, <3>2, <3>3 DEF OnWay
    <2>9. Up(s)' => Up(s)
      BY <2>1 DEF Up
    <2>10. \A t \in Sessions \ {s} :
            /\ written'[t] = written[t] /\ inHand'[t] = inHand[t] /\ queue'[t] = queue[t]
            /\ writer'[t] = writer[t] /\ conn'[t] = conn[t]
      BY <1>1, <2>1
    <2>. QED
      BY <2>1, <2>6, <2>8, <2>9, <2>10, MoveKeepsPlaces
  <1>6. CASE WriteFails(s)
    <2>1. /\ writer' = [writer EXCEPT ![s] = "returning"]
          /\ inHand' = [inHand EXCEPT ![s] = <<>>] /\ conn' = conn /\ queue' = queue
          /\ written' = written /\ UNCHANGED <<stage, job, next, answers>>
      BY <1>6 DEF WriteFails, FailWrite, others, jobVars
    <2>2. inHand'[s] = <<>> /\ ~Up(s)'
      BY <1>1, <2>1 DEF Up
    <2>3. Pipeline(s)' \subseteq Pipeline(s)
      BY <2>1, <2>2, ElementsOf DEF Pipeline
    <2>4. \A t \in Sessions \ {s} :
            /\ written'[t] = written[t] /\ inHand'[t] = inHand[t] /\ queue'[t] = queue[t]
            /\ writer'[t] = writer[t] /\ conn'[t] = conn[t]
      BY <1>1, <2>1
    <2>. QED
      BY <2>1, <2>2, <2>3, <2>4, MoveKeepsPlaces
  <1>. QED
    BY <1>2, <1>3, <1>4, <1>5, <1>6 DEF WriterStep

\* A worker's own step leaves what the other workers hold.
LEMMA OthersHold ==
    ASSUME NEW w \in Workers, NEW t \in Sessions, NEW a \in Action,
           \A v \in Workers \ {w} :
                /\ job'[v] = job[v] /\ stage'[v] = stage[v] /\ next'[v] = next[v]
                /\ stage[v] \in {"checking", "sending"} => Total(v)' = Total(v)
    PROVE  /\ \A v \in Workers \ {w} : v \in Holders(t, a)' <=> v \in Holders(t, a)
           /\ (w \in Holders(t, a)' <=> w \in Holders(t, a)) => Holders(t, a)' = Holders(t, a)
  <1>1. ASSUME NEW v \in Workers \ {w}
        PROVE  v \in Holders(t, a)' <=> v \in Holders(t, a)
    <2>1. job'[v] = job[v] /\ stage'[v] = stage[v] /\ next'[v] = next[v]
      OBVIOUS
    <2>2. stage[v] \in {"checking", "sending"} => Total(v)' = Total(v)
      OBVIOUS
    <2>. QED
      BY <2>1, <2>2 DEF Holders, SessionOf
  <1>2. Holders(t, a) \subseteq Workers /\ Holders(t, a)' \subseteq Workers
    BY DEF Holders
  <1>. QED
    BY <1>1, <1>2

\* Steps of a worker that send nothing and answer nothing.
LEMMA HoldersKeepPlaces ==
    ASSUME Base, Placed, UNCHANGED <<written, inHand, queue, writer, conn, answers>>,
           \A t \in Sessions : Up(t) => \A a \in Action : Holders(t, a)' = Holders(t, a)
    PROVE  Placed'
  <1>1. /\ written' = written /\ inHand' = inHand /\ queue' = queue
        /\ writer' = writer /\ conn' = conn /\ answers' = answers
    OBVIOUS
  <1>2. ASSUME NEW t \in Sessions, NEW a \in Action
        PROVE  /\ a \in Pipeline(t)' => a.number <= answers[t][a.event]
               /\ Up(t)' /\ a.number <= answers[t][a.event] => InOnePlace(t, a)'
    <2>1. Pipeline(t)' = Pipeline(t) /\ (OnWay(t, a)' <=> OnWay(t, a)) /\ (Up(t)' <=> Up(t))
      BY <1>1 DEF Pipeline, OnWay, Up
    <2>2. /\ a \in Pipeline(t) => a.number <= answers[t][a.event]
          /\ Up(t) /\ a.number <= answers[t][a.event] => InOnePlace(t, a)
      BY DEF Placed
    <2>3. Up(t) => Holders(t, a)' = Holders(t, a)
      OBVIOUS
    <2>. QED
      BY <2>1, <2>2, <2>3 DEF InOnePlace
  <1>. QED
    BY <1>1, <1>2 DEF Placed

LEMMA DispatchKeepsPlaces ==
    ASSUME Base, Placed, NEW w \in Workers, DispatchReturns(w)
    PROVE  Placed'
  <1>1. PICK j \in Job, n \in 0..MaxActions :
            /\ j = job[w][1] /\ TurnTo(w, 1, n) /\ answers' = [answers EXCEPT ![j.session][j.event] = n]
            /\ stage[w] = "dispatching" /\ SessionOf(w) = j.session /\ j \in Unanswered
    <2>1. stage[w] = "dispatching"
      BY DEF DispatchReturns
    <2>2. job[w][1] \in Job /\ SessionOf(w) = job[w][1].session /\ job[w][1] \in Unanswered
      BY <2>1, JobOf DEF SessionOf, Base, EventsOnce
    <2>. QED
      BY <2>1, <2>2 DEF DispatchReturns
  <1>2. /\ written' = written /\ inHand' = inHand /\ queue' = queue /\ writer' = writer /\ conn' = conn
    BY DEF DispatchReturns, sessionVars
  <1>3. /\ DOMAIN stage = Workers /\ DOMAIN next = Workers /\ job \in [Workers -> Seq(Job)]
    BY DEF Base, TypeOK
  <1>4. /\ answers'[j.session][j.event] = n
        /\ \A i \in Job : i # j => answers'[i.session][i.event] = answers[i.session][i.event]
    BY <1>1, OneAnswer
  <1>5. /\ \A v \in Workers \ {w} : job'[v] = job[v] /\ stage'[v] = stage[v] /\ next'[v] = next[v]
        /\ stage'[w] # "idle" => job'[w] = job[w]
        /\ n >= 1 => stage'[w] = "checking" /\ next'[w] = 1 /\ job'[w] = job[w]
    <2>1. CASE 1 <= n
      BY <1>1, <1>3, <2>1 DEF TurnTo
    <2>2. CASE ~(1 <= n)
      BY <1>1, <1>3, <2>2 DEF TurnTo
    <2>. QED
      BY <2>1, <2>2
  <1>6. ASSUME NEW v \in Workers \ {w}, stage[v] # "idle"
        PROVE  job[v][1] \in Job /\ job[v][1] # j
    BY <1>1, <1>6, JobOf DEF Base, EventsOnce
  <1>7. ASSUME NEW v \in Workers \ {w}, stage[v] \in {"checking", "sending"}
        PROVE  Total(v)' = Total(v)
    <2>1. job'[v] = job[v] /\ job[v][1] \in Job /\ job[v][1] # j
      BY <1>5, <1>6, <1>7
    <2>2. answers'[job[v][1].session][job[v][1].event] = answers[job[v][1].session][job[v][1].event]
      BY <1>4, <2>1
    <2>. QED
      BY <2>1, <2>2 DEF Total, SessionOf
  <1>8. ASSUME NEW t \in Sessions, NEW a \in Action
        PROVE  /\ a \in Pipeline(t)' => a.number <= answers'[t][a.event]
               /\ Up(t)' /\ a.number <= answers'[t][a.event] => InOnePlace(t, a)'
    <2> DEFINE i == [session |-> t, event |-> a.event]
    <2>1. i \in Job /\ i.session = t /\ i.event = a.event /\ a.number \in Nat \ {0}
      BY DEF Job, Action
    <2>. HIDE DEF i
    <2>2. Pipeline(t)' = Pipeline(t) /\ (OnWay(t, a)' <=> OnWay(t, a)) /\ (Up(t)' <=> Up(t))
      BY <1>2 DEF Pipeline, OnWay, Up
    <2>3. /\ a \in Pipeline(t) => a.number <= answers[t][a.event]
          /\ Up(t) /\ a.number <= answers[t][a.event] => InOnePlace(t, a)
      BY DEF Placed
    <2>4. /\ \A v \in Workers \ {w} : v \in Holders(t, a)' <=> v \in Holders(t, a)
          /\ (w \in Holders(t, a)' <=> w \in Holders(t, a)) => Holders(t, a)' = Holders(t, a)
      BY <1>5, <1>7, OthersHold
    <2>5. w \notin Holders(t, a)
      BY <1>1 DEF Holders
    <2>6. CASE i # j
      <3>1. answers'[t][a.event] = answers[t][a.event]
        BY <1>4, <2>1, <2>6
      <3>2. j.session # t \/ j.event # a.event
        BY <1>1, <2>1, <2>6 DEF Job
      <3>3. w \notin Holders(t, a)'
        BY <1>1, <1>5, <3>2 DEF Holders, SessionOf
      <3>4. Holders(t, a)' = Holders(t, a)
        BY <2>4, <2>5, <3>3
      <3>. QED
        BY <2>2, <2>3, <3>1, <3>4 DEF InOnePlace
    <2>7. CASE i = j
      <3>1. answers[t][a.event] = 0 /\ answers'[t][a.event] = n
        BY <1>1, <1>4, <2>1, <2>7 DEF Unanswered
      <3>2. a \notin Pipeline(t)
        BY <2>1, <2>3, <3>1
      <3>3. ASSUME a.number <= n
            PROVE  Holders(t, a)' = {w}
        <4>1. n >= 1
          BY <2>1, <3>3
        <4>2. stage'[w] = "checking" /\ next'[w] = 1 /\ job'[w] = job[w]
          BY <1>5, <4>1
        <4>3. SessionOf(w)' = t /\ job'[w][1].event = a.event /\ Total(w)' = n
          BY <1>1, <2>1, <2>7, <3>1, <4>2 DEF SessionOf, Total
        <4>4. w \in Holders(t, a)'
          BY <2>1, <3>3, <4>2, <4>3 DEF Holders
        <4>5. ASSUME NEW v \in Workers \ {w}
              PROVE  v \notin Holders(t, a)
          <5>1. SUFFICES ASSUME v \in Holders(t, a) PROVE FALSE
            OBVIOUS
          <5>2. stage[v] # "idle" /\ job[v][1].session = t /\ job[v][1].event = a.event
            BY <5>1 DEF Holders, SessionOf
          <5>3. job[v][1] \in Job /\ job[v][1] # j
            BY <1>6, <5>2
          <5>. QED
            BY <2>1, <2>7, <5>2, <5>3 DEF Job
        <4>6. Holders(t, a)' \subseteq Workers
          BY DEF Holders
        <4>. QED
          BY <2>4, <4>4, <4>5, <4>6
      <3>. QED
        BY <2>2, <3>1, <3>2, <3>3 DEF InOnePlace
    <2>. QED
      BY <2>6, <2>7
  <1>. QED
    BY <1>8 DEF Placed

LEMMA SendKeepsPlaces ==
    ASSUME Base, Placed, NEW w \in Workers, SendAction(w)
    PROVE  Placed'
  <1>1. PICK s \in Sessions, act \in Action :
            /\ SessionOf(w) = s /\ act = [event |-> job[w][1].event, number |-> next[w]]
            /\ act.number = next[w] /\ act.event = job[w][1].event
            /\ stage[w] = "sending" /\ next[w] \in Nat \ {0} /\ next[w] <= Total(w) /\ Total(w) \in Nat
            /\ queue' = [queue EXCEPT ![s] = Append(queue[s], act)]
            /\ conn' = conn /\ writer' = writer /\ inHand' = inHand
            /\ TurnTo(w, next[w] + 1, Total(w)) /\ written' = written /\ answers' = answers
    <2> DEFINE a == [event |-> job[w][1].event, number |-> next[w]]
    <2>1. stage[w] = "sending" /\ Put(SessionOf(w), a) /\ Advance(w)
      BY DEF SendAction
    <2>2. /\ SessionOf(w) \in Sessions /\ a \in Action /\ next[w] \in Nat \ {0}
          /\ next[w] <= Total(w) /\ Total(w) \in Nat
      BY <2>1, JobOf
    <2>. QED
      BY <2>1, <2>2 DEF Put, Advance
  <1>2. /\ queue[s] \in Seq(Action) /\ DOMAIN queue = Sessions /\ job \in [Workers -> Seq(Job)]
        /\ DOMAIN stage = Workers /\ DOMAIN next = Workers
    BY DEF Base, TypeOK, SessionTypeOK
  <1>3. /\ queue'[s] = Append(queue[s], act)
        /\ \A t \in Sessions \ {s} : queue'[t] = queue[t]
        /\ Elements(queue'[s]) = Elements(queue[s]) \cup {act}
    BY <1>1, <1>2, ElementsOfAppend
  <1>4. /\ \A v \in Workers \ {w} : job'[v] = job[v] /\ stage'[v] = stage[v] /\ next'[v] = next[v]
        /\ \/ stage'[w] = "idle" /\ next[w] = Total(w)
           \/ stage'[w] = "checking" /\ job'[w] = job[w] /\ next'[w] = next[w] + 1
    <2>1. CASE next[w] + 1 <= Total(w)
      BY <1>1, <1>2, <2>1 DEF TurnTo
    <2>2. CASE ~(next[w] + 1 <= Total(w))
      BY <1>1, <1>2, <2>2 DEF TurnTo
    <2>. QED
      BY <2>1, <2>2
  <1>5. \A v \in Workers : job'[v] = job[v] => Total(v)' = Total(v) /\ SessionOf(v)' = SessionOf(v)
    BY <1>1 DEF Total, SessionOf
  <1>6. Total(w) = answers[s][act.event]
    BY <1>1 DEF Total
  <1>7. ASSUME NEW t \in Sessions, NEW a \in Action
        PROVE  /\ a \in Pipeline(t)' => a.number <= answers[t][a.event]
               /\ Up(t)' /\ a.number <= answers[t][a.event] => InOnePlace(t, a)'
    <2>1. a.number \in Nat \ {0} /\ (a.number = act.number /\ a.event = act.event => a = act)
      BY DEF Action
    <2>2. Up(t)' <=> Up(t)
      BY <1>1 DEF Up
    <2>3. /\ a \in Pipeline(t) => a.number <= answers[t][a.event]
          /\ Up(t) /\ a.number <= answers[t][a.event] => InOnePlace(t, a)
      BY DEF Placed
    <2>4. /\ \A v \in Workers \ {w} : v \in Holders(t, a)' <=> v \in Holders(t, a)
          /\ (w \in Holders(t, a)' <=> w \in Holders(t, a)) => Holders(t, a)' = Holders(t, a)
      BY <1>4, <1>5, OthersHold
    <2>5. CASE t # s \/ a # act
      <3>1. w \in Holders(t, a)' <=> w \in Holders(t, a)
        <4>1. CASE t # s \/ a.event # act.event
          BY <1>1, <1>4, <1>5, <4>1 DEF Holders
        <4>2. CASE t = s /\ a.event = act.event
          <5>1. a.number # next[w]
            BY <1>1, <2>1, <2>5, <4>2
          <5>2. a.number \in next[w]..Total(w) <=> a.number \in next[w] + 1..Total(w)
            BY <1>1, <2>1, <5>1
          <5>3. next[w] = Total(w) => a.number \notin next[w]..Total(w)
            BY <1>1, <2>1, <5>1
          <5>. QED
            BY <1>1, <1>4, <1>5, <5>2, <5>3 DEF Holders
        <4>. QED
          BY <4>1, <4>2
      <3>2. Holders(t, a)' = Holders(t, a)
        BY <2>4, <3>1
      <3>3. /\ a \in Elements(queue'[t]) <=> a \in Elements(queue[t])
            /\ Once(queue[t], a) => Once(queue'[t], a)
        <4>1. CASE t # s
          BY <1>3, <4>1
        <4>2. CASE t = s
          <5>1. Once(queue[s], a) => Once(Append(queue[s], act), a)
            BY <1>2, <2>5, <4>2, OnceAppended
          <5>. QED
            BY <1>3, <2>5, <4>2, <5>1
        <4>. QED
          BY <4>1, <4>2
      <3>4. (a \in Pipeline(t)' <=> a \in Pipeline(t)) /\ (OnWay(t, a) => OnWay(t, a)')
        BY <1>1, <3>3 DEF Pipeline, OnWay
      <3>. QED
        BY <2>2, <2>3, <3>2, <3>4 DEF InOnePlace
    <2>6. CASE t = s /\ a = act
      <3>1. a.number <= answers[t][a.event]
        BY <1>1, <1>6, <2>6
      <3>2. ASSUME Up(t)
            PROVE  InOnePlace(t, a)'
        <4>1. w \in Holders(t, a)
          BY <1>1, <2>6 DEF Holders
        <4>2. Holders(t, a) = {w} /\ a \notin Pipeline(t)
          BY <2>3, <3>1, <3>2, <4>1 DEF InOnePlace
        <4>3. w \notin Holders(t, a)'
          BY <1>1, <1>4, <2>6 DEF Holders
        <4>4. Holders(t, a)' \subseteq Workers
          BY DEF Holders
        <4>5. Holders(t, a)' = {}
          BY <2>4, <4>2, <4>3, <4>4
        <4>6. Once(queue'[t], a) /\ a \notin Elements(written'[t]) /\ a \notin Elements(inHand'[t])
          <5>1. act \notin Elements(queue[s]) /\ act \notin Elements(written[s]) /\ act \notin Elements(inHand[s])
            BY <2>6, <4>2 DEF Pipeline
          <5>2. Once(Append(queue[s], act), act)
            BY <1>2, <5>1, OnceAppended
          <5>. QED
            BY <1>1, <1>3, <2>6, <5>1, <5>2
        <4>. QED
          BY <4>5, <4>6 DEF InOnePlace, OnWay
      <3>. QED
        BY <2>2, <3>1, <3>2
    <2>. QED
      BY <2>5, <2>6
  <1>. QED
    BY <1>1, <1>7 DEF Placed

LEMMA WorkerKeepsPlaces ==
    ASSUME Base, Placed, NEW w \in Workers, WorkerStep(w)
    PROVE  Placed'
  <1>1. job \in [Workers -> Seq(Job)] /\ DOMAIN stage = Workers /\ next \in [Workers -> 1..MaxActions + 1]
    BY DEF Base, TypeOK
  <1>2. ASSUME UNCHANGED <<written, inHand, queue, writer, conn, answers>>,
               \A v \in Workers \ {w} : job'[v] = job[v] /\ stage'[v] = stage[v] /\ next'[v] = next[v],
               \A t \in Sessions : Up(t) =>
                    \A a \in Action : w \in Holders(t, a)' <=> w \in Holders(t, a)
        PROVE  Placed'
    <2>1. \A v \in Workers \ {w} : stage[v] \in {"checking", "sending"} => Total(v)' = Total(v)
      BY <1>2 DEF Total, SessionOf
    <2>2. ASSUME NEW t \in Sessions, Up(t), NEW a \in Action
          PROVE  Holders(t, a)' = Holders(t, a)
      BY <1>2, <2>1, <2>2, OthersHold
    <2>. QED
      BY <1>2, <2>2, HoldersKeepPlaces
  <1>3. CASE TakeJob(w)
    <2>1. /\ UNCHANGED <<written, inHand, queue, writer, conn, answers>>
          /\ \A v \in Workers \ {w} : job'[v] = job[v] /\ stage'[v] = stage[v] /\ next'[v] = next[v]
          /\ stage[w] = "idle" /\ stage'[w] = "dispatching"
      BY <1>1, <1>3 DEF TakeJob, sessionVars
    <2>2. \A t \in Sessions, a \in Action : w \notin Holders(t, a) /\ w \notin Holders(t, a)'
      BY <2>1 DEF Holders
    <2>. QED
      BY <1>2, <2>1, <2>2
  <1>4. ASSUME Advance(w), UNCHANGED sessionVars, Done(SessionOf(w)), stage[w] # "idle"
        PROVE  Placed'
    <2>1. /\ \A v \in Workers \ {w} : job'[v] = job[v] /\ stage'[v] = stage[v] /\ next'[v] = next[v]
          /\ stage'[w] = "idle" \/ job'[w] = job[w]
      <3>1. CASE next[w] + 1 <= Total(w)
        BY <1>1, <1>4, <3>1 DEF Advance, TurnTo
      <3>2. CASE ~(next[w] + 1 <= Total(w))
        BY <1>1, <1>4, <3>2 DEF Advance, TurnTo
      <3>. QED
        BY <3>1, <3>2
    <2>2. UNCHANGED <<written, inHand, queue, writer, conn, answers>>
      BY <1>4 DEF Advance, sessionVars
    <2>3. ASSUME NEW t \in Sessions, Up(t), NEW a \in Action
          PROVE  w \notin Holders(t, a) /\ w \notin Holders(t, a)'
      <3>1. SessionOf(w) # t
        BY <1>4, <2>3 DEF Done, Up
      <3>. QED
        BY <2>1, <3>1 DEF Holders, SessionOf
    <2>. QED
      BY <1>2, <2>1, <2>2, <2>3
  <1>5. CASE CheckDone(w)
    <2>1. CASE Done(SessionOf(w))
      BY <1>4, <1>5, <2>1 DEF CheckDone
    <2>2. CASE ~Done(SessionOf(w))
      <3>1. /\ UNCHANGED <<written, inHand, queue, writer, conn, answers>>
            /\ \A v \in Workers \ {w} : job'[v] = job[v] /\ stage'[v] = stage[v] /\ next'[v] = next[v]
            /\ next' = next /\ job' = job /\ stage[w] = "checking" /\ stage'[w] = "sending"
        BY <1>1, <1>5, <2>2 DEF CheckDone, sessionVars
      <3>2. Total(w)' = Total(w) /\ SessionOf(w)' = SessionOf(w)
        BY <3>1 DEF Total, SessionOf
      <3>3. \A t \in Sessions, a \in Action : w \in Holders(t, a)' <=> w \in Holders(t, a)
        BY <3>1, <3>2 DEF Holders
      <3>. QED
        BY <1>2, <3>1, <3>3
    <2>. QED
      BY <2>1, <2>2
  <1>6. CASE DropAction(w)
    BY <1>4, <1>6 DEF DropAction
  <1>. QED
    BY <1>3, <1>5, <1>6, DispatchKeepsPlaces, SendKeepsPlaces DEF WorkerStep

\* How many places of a sequence an action has.
LEMMA OnePlaceOrNone ==
    ASSUME NEW entries, NEW a
    PROVE  /\ Once(entries, a) => Cardinality({k \in DOMAIN entries : entries[k] = a}) = 1
           /\ a \notin Elements(entries) => Cardinality({k \in DOMAIN entries : entries[k] = a}) = 0
  <1>1. ASSUME Once(entries, a)
        PROVE  Cardinality({k \in DOMAIN entries : entries[k] = a}) = 1
    <2>1. PICK k \in DOMAIN entries : entries[k] = a /\ \A l \in DOMAIN entries : entries[l] = a => l = k
      BY <1>1 DEF Once
    <2>2. {l \in DOMAIN entries : entries[l] = a} = {k}
      BY <2>1
    <2>. QED
      BY <2>2, FS_Singleton
  <1>2. ASSUME a \notin Elements(entries)
        PROVE  Cardinality({k \in DOMAIN entries : entries[k] = a}) = 0
    <2>1. {k \in DOMAIN entries : entries[k] = a} = {}
      BY <1>2 DEF Elements
    <2>. QED
      BY <2>1, FS_EmptySet
  <1>. QED
    BY <1>1, <1>2

LEMMA PlacesOfPlaced ==
    ASSUME NEW s \in Sessions, NEW a \in Action, InOnePlace(s, a)
    PROVE  Places(s, a) = 1
  <1> DEFINE inWritten == Cardinality({k \in DOMAIN written[s] : written[s][k] = a})
             inQueue == Cardinality({k \in DOMAIN queue[s] : queue[s][k] = a})
             isInHand == Cardinality({k \in DOMAIN inHand[s] : inHand[s][k] = a})
  <1>1. Places(s, a) = inWritten + inQueue + isInHand + Cardinality(Holders(s, a))
    BY DEF Places, Holders
  <1>2. CASE (\E w : Holders(s, a) = {w}) /\ a \notin Pipeline(s)
    <2>1. Cardinality(Holders(s, a)) = 1
      BY <1>2, FS_Singleton
    <2>2. inWritten = 0 /\ inQueue = 0 /\ isInHand = 0
      BY <1>2, OnePlaceOrNone DEF Pipeline
    <2>. QED
      BY <1>1, <2>1, <2>2
  <1>3. CASE Holders(s, a) = {} /\ OnWay(s, a)
    <2>1. Cardinality(Holders(s, a)) = 0
      BY <1>3, FS_EmptySet
    <2>2. \/ inWritten = 1 /\ inQueue = 0 /\ isInHand = 0
          \/ inWritten = 0 /\ inQueue = 1 /\ isInHand = 0
          \/ inWritten = 0 /\ inQueue = 0 /\ isInHand = 1
      BY <1>3, OnePlaceOrNone DEF OnWay
    <2>. QED
      BY <1>1, <2>1, <2>2
  <1>. QED
    BY <1>2, <1>3 DEF InOnePlace

\* NothingLostWhileUp: no interleaving of the workers, the write loop and the
\* ends of sessions loses or repeats an action of a session that is still up.
THEOREM NothingIsLost == Spec => []NothingLostWhileUp
  <1>1. Base /\ Placed /\ [Next]_vars => Placed'
    <2> SUFFICES ASSUME Base, Placed, [Next]_vars PROVE Placed'
      OBVIOUS
    <2>1. ASSUME NEW s \in Sessions,
                 Connect(s) \/ ReadMessage(s) \/ OfferJob(s) \/ ReaderLeaves(s) \/ SocketCloses(s) \/ WriterStep(s)
          PROVE  Placed'
      BY <2>1, SessionSideKeepsPlaces
    <2>2. ASSUME NEW w \in Workers, WorkerStep(w)
          PROVE  Placed'
      BY <2>2, WorkerKeepsPlaces
    <2>3. CASE UNCHANGED vars
      <3>1. /\ UNCHANGED <<written, inHand, queue, writer, conn, answers>>
            /\ stage' = stage /\ job' = job /\ next' = next /\ answers' = answers
        BY <2>3 DEF vars, sessionVars, jobVars
      <3>2. \A t \in Sessions, a \in Action : Holders(t, a)' = Holders(t, a)
        BY <3>1 DEF Holders, SessionOf, Total
      <3>. QED
        BY <3>1, <3>2, HoldersKeepPlaces
    <2>. QED
      BY <2>1, <2>2, <2>3 DEF Next
  <1>2. Base /\ Placed => NothingLostWhileUp
    <2> SUFFICES ASSUME Base, Placed, NEW s \in Sessions, conn[s] = "up", writer[s] # "returning",
                        NEW e \in 1..MaxEvents, NEW n \in 1..answers[s][e]
                 PROVE  Places(s, [event |-> e, number |-> n]) = 1
      BY DEF NothingLostWhileUp
    <2> DEFINE a == [event |-> e, number |-> n]
    <2>1. answers[s][e] \in 0..MaxActions
      BY DEF Base, TypeOK
    <2>2. a \in Action /\ a.number <= answers[s][a.event]
      BY <2>1, GatewayAssumption DEF Action
    <2>. HIDE DEF a
    <2>3. InOnePlace(s, a)
      BY <2>2 DEF Placed, Up
    <2>4. Places(s, a) = 1
      BY <2>2, <2>3, PlacesOfPlaced
    <2>. QED
      BY <2>4 DEF a
  <1>3. Spec => []Base
    BY TypesInvariant
  <1>. QED
    BY <1>1, <1>2, <1>3, InitialPlaced, PTL DEF Spec

=============================================================================
