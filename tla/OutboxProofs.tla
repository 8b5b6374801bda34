---------------------------- MODULE OutboxProofs ----------------------------
(***************************************************************************)
(* Theorems about the message_outbox table, for any number of rows, any    *)
(* max_attempts, lease and pull limit, and any order of the statements,    *)
(* whoever issues them; then about asynchronous delivery, for any number   *)
(* of items, sessions and queue sizes: delivery uses the table only        *)
(* through its statements, an item is recorded as sent only after it was   *)
(* written, and delivery keeps what OutboxPromise promises.                *)
(***************************************************************************)
EXTENDS OutboxDelivery, SequenceTheorems, TLAPS

-----------------------------------------------------------------------------
(* The table, whoever issues the statements.                               *)

\* What a pull picks is pullable, whatever it skips and wherever its limit cuts.
LEMMA PickedIsPullable ==
    ASSUME NEW skipped, NEW i \in Picked(skipped)
    PROVE  i \in Items /\ Pullable(i)
  BY DEF Picked

\* A row's max_attempts is a number, before and after it is inserted.
LEMMA AllowanceIsNat ==
    ASSUME StoreTypeOK, NEW i \in Items
    PROVE  maxAttempts[i] \in Nat
  <1>1. maxAttempts[i] \in MaxAttempts \cup {0}
    BY DEF StoreTypeOK
  <1>2. MaxAttempts \subseteq Nat
    BY OutboxAssumption
  <1>3. CASE maxAttempts[i] \in MaxAttempts
    BY <1>2, <1>3
  <1>4. CASE maxAttempts[i] = 0
    BY <1>4
  <1>5. QED
    BY <1>1, <1>3, <1>4

\* Types are preserved by each statement and by the passing of time.
LEMMA TypeStep ==
    ASSUME StoreTypeOK, [StoreNext]_storeVars
    PROVE  StoreTypeOK'
  <1> USE OutboxAssumption DEF StoreTypeOK, Statuses, NoLock
  <1>1. ASSUME NEW i \in Items, NEW m \in MaxAttempts, Enqueue(i, m)
        PROVE  StoreTypeOK'
    BY <1>1 DEF Enqueue
  <1>2. ASSUME NEW skipped \in SUBSET Items, Pull(skipped)
        PROVE  StoreTypeOK'
    <2>1. status' \in [Items -> Statuses]
      BY <1>2 DEF Pull
    <2>2. lockLeft' \in [Items -> 0..Lease \cup {NoLock}]
      BY <1>2 DEF Pull
    <2>3. QED
      BY <1>2, <2>1, <2>2 DEF Pull
  <1>3. ASSUME NEW i \in Items, Ack(i)
        PROVE  StoreTypeOK'
    BY <1>3 DEF Ack
  <1>4. ASSUME NEW i \in Items, Fail(i)
        PROVE  StoreTypeOK'
    BY <1>4 DEF Fail, RetryDelay
  <1>5. CASE Tick
    <2>1. lockLeft' \in [Items -> 0..Lease \cup {NoLock}]
      BY <1>5 DEF Tick, Elapse
    <2>2. retryLeft' \in [Items -> Nat]
      BY <1>5 DEF Tick, Elapse
    <2>3. QED
      BY <1>5, <2>1, <2>2 DEF Tick
  <1>6. CASE UNCHANGED storeVars
    BY <1>6 DEF storeVars
  <1>7. QED
    BY <1>1, <1>2, <1>3, <1>4, <1>5, <1>6 DEF StoreNext

\* Every column of every row keeps its type.
THEOREM TypeCorrect == StoreSpec => []StoreTypeOK
  <1>1. StoreInit => StoreTypeOK
    BY OutboxAssumption DEF StoreInit, StoreTypeOK, Statuses
  <1>2. StoreTypeOK /\ [StoreNext]_storeVars => StoreTypeOK'
    BY TypeStep
  <1>3. QED
    BY <1>1, <1>2, PTL DEF StoreSpec

-----------------------------------------------------------------------------
\* The columns of each row stay consistent under each statement.
LEMMA CoherenceStep ==
    ASSUME StoreTypeOK, RowCoherent, [StoreNext]_storeVars
    PROVE  RowCoherent'
  <1> USE OutboxAssumption DEF RowCoherent, StoreTypeOK, Live, Statuses, NoLock
  <1>1. ASSUME NEW i \in Items, NEW m \in MaxAttempts, Enqueue(i, m)
        PROVE  RowCoherent'
    BY <1>1 DEF Enqueue
  <1>2. ASSUME NEW skipped \in SUBSET Items, Pull(skipped)
        PROVE  RowCoherent'
    <2> SUFFICES ASSUME NEW i \in Items
                 PROVE  /\ lockLeft'[i] # NoLock <=> status'[i] = "processing"
                        /\ status'[i] \in Live \cup {"sent"} =>
                                attempts'[i] < maxAttempts'[i]
                        /\ status'[i] = "failed" => attempts'[i] = maxAttempts'[i]
                        /\ status'[i] = "absent" => attempts'[i] = 0
      OBVIOUS
    <2>1. CASE i \in Picked(skipped)
      BY <1>2, <2>1, PickedIsPullable DEF Pull, Pullable
    <2>2. CASE i \notin Picked(skipped)
      BY <1>2, <2>2 DEF Pull
    <2>3. QED
      BY <2>1, <2>2
  <1>3. ASSUME NEW i \in Items, Ack(i)
        PROVE  RowCoherent'
    BY <1>3 DEF Ack, AckFinds
  <1>4. ASSUME NEW i \in Items, Fail(i)
        PROVE  RowCoherent'
    <2>1. attempts[i] \in Nat /\ maxAttempts[i] \in Nat /\ attempts[i] < maxAttempts[i]
      BY <1>4, AllowanceIsNat DEF Fail, FailFinds
    <2>2. /\ attempts' = [attempts EXCEPT ![i] = attempts[i] + 1]
          /\ maxAttempts' = maxAttempts
          /\ lockLeft' = [lockLeft EXCEPT ![i] = NoLock]
          /\ status' = [status EXCEPT ![i] =
                IF attempts[i] + 1 >= maxAttempts[i] THEN "failed" ELSE "pending"]
      BY <1>4 DEF Fail
    <2>3. attempts[i] + 1 >= maxAttempts[i] => attempts[i] + 1 = maxAttempts[i]
      BY <2>1
    <2>4. status[i] \in Live
      BY <1>4 DEF Fail, FailFinds
    <2>5. ASSUME NEW j \in Items, j # i
          PROVE  /\ status'[j] = status[j] /\ attempts'[j] = attempts[j]
                 /\ maxAttempts'[j] = maxAttempts[j] /\ lockLeft'[j] = lockLeft[j]
      BY <2>2, <2>5
    <2>6. /\ attempts'[i] = attempts[i] + 1 /\ maxAttempts'[i] = maxAttempts[i]
          /\ lockLeft'[i] = NoLock
          /\ status'[i] = IF attempts[i] + 1 >= maxAttempts[i] THEN "failed" ELSE "pending"
      BY <2>2
    <2>7. QED
      BY <2>1, <2>3, <2>5, <2>6
  <1>5. CASE Tick
    BY <1>5 DEF Tick, Elapse
  <1>6. CASE UNCHANGED storeVars
    BY <1>6 DEF storeVars
  <1>7. QED
    BY <1>1, <1>2, <1>3, <1>4, <1>5, <1>6 DEF StoreNext

\* The columns of every row agree in every reachable state: a lease exists while
\* the row is processing and only then, a row that can still be delivered has
\* attempts left, and a failed row has used them all.
THEOREM RowsCoherent == StoreSpec => []RowCoherent
  <1>1. StoreInit => RowCoherent
    BY DEF StoreInit, RowCoherent, Live
  <1>2. StoreTypeOK /\ RowCoherent /\ [StoreNext]_storeVars => RowCoherent'
    BY CoherenceStep
  <1>3. QED
    BY <1>1, <1>2, TypeCorrect, PTL DEF StoreSpec

-----------------------------------------------------------------------------
\* A row recorded as sent or failed keeps that outcome for ever: no late ack can
\* revive a failed row (ack does not find it), no late fail can take back a sent
\* one, and no pull hands either out again.
THEOREM OutcomesAreFinal == StoreSpec => OutcomeIsFinal
  <1> DEFINE Final == \A i \in Items : status[i] \in Settled => status'[i] = status[i]
  <1> USE DEF StoreTypeOK, Settled, Live
  <1>1. StoreTypeOK /\ RowCoherent /\ [StoreNext]_storeVars => [Final]_storeVars
    <2> SUFFICES ASSUME StoreTypeOK, RowCoherent, StoreNext
                 PROVE  Final
      OBVIOUS
    <2>1. ASSUME NEW i \in Items, NEW m \in MaxAttempts, Enqueue(i, m)
          PROVE  Final
      BY <2>1 DEF Enqueue
    <2>2. ASSUME NEW skipped \in SUBSET Items, Pull(skipped)
          PROVE  Final
      BY <2>2, PickedIsPullable DEF Pull, Pullable
    <2>3. ASSUME NEW i \in Items, Ack(i)
          PROVE  Final
      BY <2>3 DEF Ack, AckFinds
    <2>4. ASSUME NEW i \in Items, Fail(i)
          PROVE  Final
      BY <2>4 DEF Fail, FailFinds
    <2>5. CASE Tick
      BY <2>5 DEF Tick
    <2>6. QED
      BY <2>1, <2>2, <2>3, <2>4, <2>5 DEF StoreNext
  <1>2. QED
    BY <1>1, TypeCorrect, RowsCoherent, PTL DEF StoreSpec, OutcomeIsFinal

\* A lease that still has time left is not extended or handed out again by any
\* pull: from its grant it only runs down until it expires or is reported.
THEOREM LeasesAreExclusive == StoreSpec => LeaseIsExclusive
  <1> DEFINE Exclusive == \A i \in Items : lockLeft[i] > 0 => lockLeft'[i] <= lockLeft[i]
  <1> USE OutboxAssumption DEF StoreTypeOK, NoLock
  <1>1. StoreTypeOK /\ RowCoherent /\ [StoreNext]_storeVars => [Exclusive]_storeVars
    <2> SUFFICES ASSUME StoreTypeOK, RowCoherent, StoreNext
                 PROVE  Exclusive
      OBVIOUS
    <2> USE DEF RowCoherent
    <2>1. ASSUME NEW i \in Items, NEW m \in MaxAttempts, Enqueue(i, m)
          PROVE  Exclusive
      BY <2>1 DEF Enqueue
    <2>2. ASSUME NEW skipped \in SUBSET Items, Pull(skipped)
          PROVE  Exclusive
      <3> SUFFICES ASSUME NEW i \in Items, lockLeft[i] > 0
                   PROVE  lockLeft'[i] <= lockLeft[i]
        OBVIOUS
      <3>1. i \notin Picked(skipped)
        BY PickedIsPullable DEF Pullable
      <3>2. QED
        BY <2>2, <3>1 DEF Pull
    <2>3. ASSUME NEW i \in Items, Ack(i)
          PROVE  Exclusive
      BY <2>3 DEF Ack
    <2>4. ASSUME NEW i \in Items, Fail(i)
          PROVE  Exclusive
      BY <2>4 DEF Fail
    <2>5. CASE Tick
      BY <2>5 DEF Tick, Elapse
    <2>6. QED
      BY <2>1, <2>2, <2>3, <2>4, <2>5 DEF StoreNext
  <1>2. QED
    BY <1>1, TypeCorrect, RowsCoherent, PTL DEF StoreSpec, LeaseIsExclusive

\* No statement but a counted failure report touches the attempts of a row, and
\* it adds one: however often a row is delivered again, that alone never ends it.
THEOREM FailuresAreCounted == StoreSpec => OnlyFailuresCount
  <1> DEFINE Counted == \A i \in Items :
            attempts'[i] # attempts[i] =>
                /\ attempts'[i] = attempts[i] + 1
                /\ status[i] \in Live
                /\ status'[i] \in {"pending", "failed"}
  <1>1. StoreTypeOK /\ [StoreNext]_storeVars => [Counted]_storeVars
    <2> SUFFICES ASSUME StoreTypeOK, StoreNext
                 PROVE  Counted
      OBVIOUS
    <2>1. ASSUME NEW i \in Items, Fail(i)
          PROVE  Counted
      BY <2>1 DEF Fail, FailFinds, StoreTypeOK
    <2>2. CASE UNCHANGED attempts
      BY <2>2
    <2>3. (\E i \in Items : Fail(i)) \/ UNCHANGED attempts
      BY DEF StoreNext, Enqueue, Pull, Ack, Tick
    <2>4. QED
      BY <2>1, <2>2, <2>3
  <1>2. QED
    BY <1>1, TypeCorrect, PTL DEF StoreSpec, OnlyFailuresCount

-----------------------------------------------------------------------------
(* Delivery.                                                               *)

(* Entries of a queue. *)

LEMMA TakeHead ==
    ASSUME NEW q \in Seq(Entry), q # <<>>
    PROVE  /\ Head(q) \in Entry /\ Head(q) \in Range(q)
           /\ Tail(q) \in Seq(Entry) /\ Range(Tail(q)) \subseteq Range(q)
           /\ OneAwaited(q) =>
                OneAwaited(Tail(q)) /\ (Head(q).awaited => NoneAwaited(Tail(q)))
  <1>1. Head(q) \in Entry /\ Tail(q) \in Seq(Entry)
    BY HeadTailProperties
  <1>2. Len(q) \in Nat \ {0} /\ DOMAIN q = 1..Len(q)
    BY EmptySeq, LenProperties
  <1>3. Head(q) = q[1]
    BY <1>2
  <1>4. Head(q) \in Range(q)
    BY <1>2, <1>3 DEF Range
  <1>5. ASSUME NEW k \in DOMAIN Tail(q)
        PROVE  k \in Nat /\ k + 1 \in DOMAIN q /\ Tail(q)[k] = q[k + 1]
    <2>1. k \in 1..Len(Tail(q)) /\ Len(Tail(q)) = Len(q) - 1
      BY <1>1, <1>5, HeadTailProperties, LenProperties
    <2>2. Tail(q)[k] = q[k + 1] /\ k + 1 \in 1..Len(q)
      BY <1>2, <2>1, HeadTailProperties
    <2>3. QED
      BY <1>2, <2>1, <2>2
  <1>6. Range(Tail(q)) \subseteq Range(q)
    BY <1>5 DEF Range
  <1>7. OneAwaited(q) => OneAwaited(Tail(q))
    BY <1>5 DEF OneAwaited
  <1>8. ASSUME OneAwaited(q), Head(q).awaited, NEW k \in DOMAIN Tail(q)
        PROVE  ~Tail(q)[k].awaited
    <2>1. k + 1 # 1 /\ 1 \in DOMAIN q
      BY <1>2, <1>5
    <2>2. QED
      BY <1>3, <1>5, <1>8, <2>1 DEF OneAwaited
  <1>9. QED
    BY <1>1, <1>4, <1>6, <1>7, <1>8 DEF NoneAwaited, Range

LEMMA PutLast ==
    ASSUME NEW q \in Seq(Entry), NEW e \in Entry
    PROVE  /\ Append(q, e) \in Seq(Entry)
           /\ Range(Append(q, e)) = Range(q) \cup {e}
           /\ NoneAwaited(q) \/ (~e.awaited /\ OneAwaited(q)) => OneAwaited(Append(q, e))
  <1>1. /\ Append(q, e) \in Seq(Entry) /\ Len(Append(q, e)) = Len(q) + 1
        /\ \A k \in 1..Len(q) : Append(q, e)[k] = q[k]
        /\ Append(q, e)[Len(q) + 1] = e
    OBVIOUS
  <1>2. /\ Len(q) \in Nat /\ DOMAIN q = 1..Len(q)
        /\ DOMAIN Append(q, e) = 1..Len(q) + 1
    BY <1>1, LenProperties
  <1>3. Range(Append(q, e)) \subseteq Range(q) \cup {e}
    BY <1>1, <1>2 DEF Range
  <1>4. Range(q) \subseteq Range(Append(q, e)) /\ e \in Range(Append(q, e))
    BY <1>1, <1>2 DEF Range
  <1>5. NoneAwaited(q) => \A k \in 1..Len(q) : ~q[k].awaited
    BY <1>2 DEF NoneAwaited, Range
  <1>6. NoneAwaited(q) \/ (~e.awaited /\ OneAwaited(q)) => OneAwaited(Append(q, e))
    BY <1>1, <1>2, <1>5 DEF OneAwaited
  <1>7. QED
    BY <1>1, <1>3, <1>4, <1>6

LEMMA ForsakenEntries ==
    ASSUME NEW q \in Seq(Entry)
    PROVE  /\ Forsaken(q) \in Seq(Entry)
           /\ NoneAwaited(Forsaken(q)) /\ OneAwaited(Forsaken(q))
           /\ Forsaken(q) = <<>> <=> q = <<>>
  <1>1. Len(q) \in Nat /\ DOMAIN q = 1..Len(q) /\ q \in [1..Len(q) -> Entry]
    BY LenProperties
  <1>2. ASSUME NEW k \in 1..Len(q)
        PROVE  [q[k] EXCEPT !.awaited = FALSE] \in Entry
    BY <1>1 DEF Entry
  <1>3. Forsaken(q) \in [1..Len(q) -> Entry]
    BY <1>1, <1>2 DEF Forsaken
  <1>4. Forsaken(q) \in Seq(Entry) /\ Len(Forsaken(q)) = Len(q)
    BY <1>1, <1>3
  <1>5. ASSUME NEW k \in DOMAIN Forsaken(q)
        PROVE  ~Forsaken(q)[k].awaited
    <2>1. k \in 1..Len(q) /\ q[k] \in Entry
      BY <1>1, <1>3, <1>5
    <2>2. Forsaken(q)[k] = [q[k] EXCEPT !.awaited = FALSE]
      BY <1>1, <2>1 DEF Forsaken
    <2>3. QED
      BY <2>1, <2>2 DEF Entry
  <1>6. Forsaken(q) = <<>> <=> q = <<>>
    BY <1>4, EmptySeq
  <1>7. QED
    BY <1>4, <1>5, <1>6 DEF NoneAwaited, OneAwaited, Range

\* Nothing is awaited on a queue that holds nothing.
LEMMA EmptyQueue ==
    <<>> \in Seq(Entry) /\ Range(<<>>) = {} /\ NoneAwaited(<<>>) /\ OneAwaited(<<>>)
  BY DEF Range, NoneAwaited, OneAwaited

-----------------------------------------------------------------------------
(* Delivery uses the table only through its statements. *)

LEMMA ExecuteIsStatement ==
    ASSUME NEW op, NEW i \in Items, Execute(op, i)
    PROVE  [StoreNext]_storeVars
  BY DEF Execute, StoreNext

LEMMA PullIsStatement ==
    ASSUME NEW skipped \in SUBSET Contended, Pull(skipped)
    PROVE  StoreNext
  BY DEF StoreNext, Contended

LEMMA StoreStep ==
    ASSUME TypeOK, PollersHoldItems, [Next]_vars
    PROVE  [StoreNext]_storeVars
  <1> USE DEF others
  <1>1. CASE UNCHANGED vars
    BY <1>1 DEF vars
  <1>2. CASE Produce
    BY <1>2 DEF Produce, StoreNext
  <1>3. CASE TimePasses
    BY <1>3 DEF TimePasses, StoreNext
  <1>4. CASE GatewayRestarts
    BY <1>4 DEF GatewayRestarts
  <1>5. CASE StrayStep
    <2>1. ASSUME NEW c \in strays, StrayExecuted(c)
          PROVE  [StoreNext]_storeVars
      <3>1. CASE c.op = "pull"
        BY <2>1, <3>1, PullIsStatement DEF StrayExecuted
      <3>2. CASE c.op # "pull"
        <4>1. c.item \in Items
          BY <3>2 DEF TypeOK, Call, PullCall
        <4>2. QED
          BY <2>1, <3>2, <4>1, ExecuteIsStatement DEF StrayExecuted
      <3>3. QED
        BY <3>1, <3>2
    <2>2. ASSUME NEW c \in strays, StrayDropped(c)
          PROVE  [StoreNext]_storeVars
      BY <2>2 DEF StrayDropped
    <2>3. QED
      BY <1>5, <2>1, <2>2 DEF StrayStep
  <1>6. ASSUME NEW s \in Sessions, Connect(s) \/ PeerCloses(s) \/ SocketCloses(s)
        PROVE  UNCHANGED storeVars
    BY <1>6 DEF Connect, PeerCloses, SocketCloses
  <1>7. ASSUME NEW s \in Sessions,
               WorkerReplies(s) \/ WriterStep(s) \/ WriteFails(s)
        PROVE  UNCHANGED storeVars
    BY <1>7 DEF WorkerReplies, WriterStep, WriterTakes, WriteSucceeds, WriteFails,
                WriterSeesDone, WriterReturns
  <1>8. ASSUME NEW s \in Sessions,
               PollTick(s) \/ PollerStops(s) \/ PullFails(s) \/ PullDelayed(s)
        PROVE  UNCHANGED storeVars
    BY <1>8 DEF PollTick, PollerStops, PullFails, PullDelayed
  <1>9. ASSUME NEW s \in Sessions, PullAnswered(s)
        PROVE  StoreNext
    BY <1>9, PullIsStatement DEF PullAnswered
  <1>10. ASSUME NEW s \in Sessions,
                RejectItem(s) \/ OfferItem(s) \/ OfferTimesOut(s) \/ OfferSeesDone(s)
                    \/ TakeResult(s) \/ AwaitSeesDone(s)
         PROVE  UNCHANGED storeVars
    BY <1>10 DEF RejectItem, OfferItem, OfferTimesOut, OfferSeesDone, TakeResult,
                 AwaitSeesDone, StartReport
  <1>11. ASSUME NEW s \in Sessions, ReportExecuted(s)
         PROVE  [StoreNext]_storeVars
    <2>1. current[s] \in Items
      BY <1>11 DEF ReportExecuted, PollersHoldItems
    <2>2. QED
      BY <1>11, <2>1, ExecuteIsStatement DEF ReportExecuted
  <1>12. ASSUME NEW s \in Sessions, ReportLost(s) \/ ReportDelayed(s)
         PROVE  UNCHANGED storeVars
    BY <1>12 DEF ReportLost, ReportDelayed
  <1>13. QED
    BY <1>1, <1>2, <1>3, <1>4, <1>5, <1>6, <1>7, <1>8, <1>9, <1>10, <1>11, <1>12
       DEF Next, Work, Disturbance, SessionStep, PollerStep

-----------------------------------------------------------------------------
(* The inductive invariant. *)

Inv == TypeOK /\ PollersHoldItems /\ AwaitedIsCurrent /\ AcksAreBacked

\* What Inv says of one session...
SessionOK(s) ==
    /\ poller[s] \in {"offering", "awaiting", "reporting"} => current[s] \in Items
    /\ report[s] # "none" <=> poller[s] = "reporting"
    /\ inHand[s] # <<>> <=> writer[s] = "writing"
    /\ \A e \in Range(queue[s]) \cup Range(inHand[s]) :
        e.awaited => poller[s] = "awaiting" /\ e.item = current[s]
    /\ OneAwaited(queue[s]) /\ (NoneAwaited(inHand[s]) \/ NoneAwaited(queue[s]))
    /\ result[s] # "none" => NoneAwaited(inHand[s]) /\ NoneAwaited(queue[s])
    /\ result[s] = "ok" \/ report[s] = "ack" =>
            current[s] \in Items /\ writes[current[s]] > 0

\* ... and of the calls that are late.
StraysBacked == \A c \in strays : c.op = "ack" => writes[c.item] > 0

LEMMA InvParts == Inv <=> TypeOK /\ (\A s \in Sessions : SessionOK(s)) /\ StraysBacked
  BY DEF Inv, PollersHoldItems, AwaitedIsCurrent, AcksAreBacked, SessionOK, StraysBacked

LEMMA InvPartsNext ==
    Inv' <=> TypeOK' /\ (\A s \in Sessions : SessionOK(s)') /\ StraysBacked'
  BY DEF Inv, PollersHoldItems, AwaitedIsCurrent, AcksAreBacked, SessionOK, StraysBacked

WritesKept == \A i \in Items : writes[i] > 0 => writes'[i] > 0

\* The step touches no session but s.
Elsewhere(s) ==
    \A t \in Sessions \ {s} :
        /\ queue'[t] = queue[t] /\ inHand'[t] = inHand[t] /\ writer'[t] = writer[t]
        /\ poller'[t] = poller[t] /\ current'[t] = current[t]
        /\ report'[t] = report[t] /\ result'[t] = result[t]

\* A session that a step does not touch keeps what Inv says of it.
LEMMA Untouched ==
    ASSUME NEW t \in Sessions, SessionOK(t), WritesKept,
           queue'[t] = queue[t], inHand'[t] = inHand[t], writer'[t] = writer[t],
           poller'[t] = poller[t], current'[t] = current[t],
           report'[t] = report[t], result'[t] = result[t]
    PROVE  SessionOK(t)'
  BY DEF SessionOK, WritesKept

\* So a step of session s preserves Inv if it does so for s.
LEMMA LocalStep ==
    ASSUME Inv, NEW s \in Sessions, Elsewhere(s), WritesKept,
           TypeOK', SessionOK(s)', StraysBacked'
    PROVE  Inv'
  <1>1. ASSUME NEW t \in Sessions \ {s}
        PROVE  SessionOK(t)'
    BY InvParts, Untouched DEF Elsewhere
  <1>2. QED
    BY <1>1, InvPartsNext

\* What the write loop holds while it writes.
LEMMA InHandEntry ==
    ASSUME Inv, NEW s \in Sessions, writer[s] = "writing"
    PROVE  inHand[s][1] \in Entry /\ inHand[s][1] \in Range(inHand[s])
  <1>1. inHand[s] \in Seq(Entry) /\ inHand[s] # <<>>
    BY DEF Inv, TypeOK, SessionTypeOK, AwaitedIsCurrent
  <1>2. 1 \in 1..Len(inHand[s]) /\ DOMAIN inHand[s] = 1..Len(inHand[s])
    BY <1>1, EmptySeq, LenProperties
  <1>3. QED
    BY <1>1, <1>2, ElementOfSeq DEF Range

\* A write adds to the count of the item that was in hand and to no other.
LEMMA WriteCounts ==
    ASSUME writes \in [Items -> 0..WriteCap], NEW i, CountWrite(i)
    PROVE  /\ writes' \in [Items -> 0..WriteCap]
           /\ \A j \in Items : writes[j] > 0 => writes'[j] > 0
           /\ i \in Items => writes'[i] > 0
  BY DeliveryAssumption DEF CountWrite

NextOfTypes(s) ==
    /\ report'[s] = "none" /\ result'[s] = "none"
    /\ poller'[s] = "waiting" \/ (poller'[s] = "offering" /\ current'[s] \in Items)

\* After NextOf the poller waits or works on one of the items it was given.
LEMMA NextOfStep ==
    ASSUME TypeOK, NEW s \in Sessions, NEW items \in SUBSET Items, NextOf(s, items)
    PROVE  /\ poller' \in [Sessions -> {"waiting", "pulling", "offering", "awaiting",
                                        "reporting", "stopped"}]
           /\ batch' \in [Sessions -> SUBSET Items]
           /\ current' \in [Sessions -> Items \cup {NoItem}]
           /\ report' \in [Sessions -> {"none", "ack", "fail"}]
           /\ result' \in [Sessions -> {"none", "ok", "err"}]
           /\ NextOfTypes(s)
           /\ \A t \in Sessions \ {s} :
                /\ poller'[t] = poller[t] /\ current'[t] = current[t]
                /\ report'[t] = report[t] /\ result'[t] = result[t]
  <1> USE DEF TypeOK, NextOfTypes
  <1>1. CASE items = {} /\ poller' = [poller EXCEPT ![s] = "waiting"]
             /\ current' = [current EXCEPT ![s] = NoItem]
             /\ batch' = [batch EXCEPT ![s] = {}]
    BY <1>1 DEF NextOf
  <1>2. ASSUME NEW i \in items,
               poller' = [poller EXCEPT ![s] = "offering"],
               current' = [current EXCEPT ![s] = i],
               batch' = [batch EXCEPT ![s] = items \ {i}]
        PROVE  /\ poller' \in [Sessions -> {"waiting", "pulling", "offering",
                                            "awaiting", "reporting", "stopped"}]
               /\ batch' \in [Sessions -> SUBSET Items]
               /\ current' \in [Sessions -> Items \cup {NoItem}]
               /\ NextOfTypes(s)
               /\ \A t \in Sessions \ {s} :
                    poller'[t] = poller[t] /\ current'[t] = current[t]
    BY <1>2 DEF NextOf
  <1>3. /\ report' \in [Sessions -> {"none", "ack", "fail"}]
        /\ result' \in [Sessions -> {"none", "ok", "err"}]
        /\ \A t \in Sessions \ {s} : report'[t] = report[t] /\ result'[t] = result[t]
    BY DEF NextOf
  <1>4. QED
    BY <1>1, <1>2, <1>3 DEF NextOf

-----------------------------------------------------------------------------
(* Each step preserves the invariant. *)

\* Steps of the table, of the clock and of late calls.
LEMMA SessionsRest ==
    ASSUME Inv, StoreTypeOK', strays' \subseteq strays, suspect' \in SUBSET Items,
           UNCHANGED <<conn, queue, writer, inHand>>,
           UNCHANGED <<poller, batch, current, report, result, writes>>
    PROVE  Inv'
  <1>1. WritesKept
    BY DEF WritesKept
  <1>2. ASSUME NEW t \in Sessions
        PROVE  SessionOK(t)'
    BY <1>1, InvParts, Untouched
  <1>3. TypeOK'
    BY InvParts DEF TypeOK, SessionTypeOK
  <1>4. StraysBacked'
    BY InvParts DEF StraysBacked
  <1>5. QED
    BY <1>2, <1>3, <1>4, InvPartsNext

\* After a restart no session is left, and late calls are backed as reports were.
LEMMA RestartStep ==
    ASSUME Inv, StoreTypeOK', GatewayRestarts
    PROVE  Inv'
  <1> USE DEF GatewayRestarts
  <1>1. TypeOK /\ (\A s \in Sessions : SessionOK(s)) /\ StraysBacked
    BY InvParts
  <1>2. ASSUME NEW c \in InFlight
        PROVE  c \in Call /\ (c.op = "ack" => writes[c.item] > 0)
    <2>1. CASE c = PullCall
      BY <2>1 DEF Call, PullCall
    <2>2. ASSUME NEW s \in Sessions, report[s] # "none",
                 c = [op |-> report[s], item |-> current[s]]
          PROVE  c \in Call /\ (c.op = "ack" => writes[c.item] > 0)
      <3>1. report[s] \in {"ack", "fail"} /\ current[s] \in Items
        BY <1>1, <2>2 DEF TypeOK, SessionOK
      <3>2. report[s] = "ack" => writes[current[s]] > 0
        BY <1>1 DEF SessionOK
      <3>3. QED
        BY <2>2, <3>1, <3>2 DEF Call
    <2>3. QED
      BY <2>1, <2>2 DEF InFlight
  <1>3. strays' \in SUBSET Call /\ StraysBacked'
    <2>1. PICK late \in SUBSET InFlight : strays' = strays \cup late
      OBVIOUS
    <2>2. QED
      BY <1>1, <1>2, <2>1 DEF TypeOK, StraysBacked
  <1>4. TypeOK'
    BY <1>1, <1>3, EmptyQueue DEF TypeOK, SessionTypeOK
  <1>5. ASSUME NEW s \in Sessions
        PROVE  SessionOK(s)'
    BY EmptyQueue DEF SessionOK
  <1>6. QED
    BY <1>3, <1>4, <1>5, InvPartsNext

\* A session begins, or its connection ends.
LEMMA ConnectionStep ==
    ASSUME Inv, StoreTypeOK', NEW s \in Sessions,
           Connect(s) \/ PeerCloses(s) \/ SocketCloses(s)
    PROVE  Inv'
  <1>1. TypeOK /\ SessionOK(s) /\ StraysBacked
    BY InvParts
  <1>2. CASE Connect(s)
    <2>1. /\ poller[s] = "stopped" /\ writer[s] = "stopped"
          /\ conn' = [conn EXCEPT ![s] = "up"] /\ queue' = [queue EXCEPT ![s] = <<>>]
          /\ writer' = [writer EXCEPT ![s] = "selecting"]
          /\ poller' = [poller EXCEPT ![s] = "pulling"]
          /\ UNCHANGED <<inHand, batch, current, report, result, strays, writes, suspect>>
      BY <1>2 DEF Connect, Open, deliveryVars
    <2>2. TypeOK'
      BY <1>1, <2>1, EmptyQueue DEF TypeOK, SessionTypeOK
    <2>3. Elsewhere(s) /\ WritesKept /\ StraysBacked'
      BY <1>1, <2>1 DEF TypeOK, SessionTypeOK, Elsewhere, WritesKept, StraysBacked
    <2>4. /\ queue'[s] = <<>> /\ inHand'[s] = inHand[s] /\ writer'[s] = "selecting"
          /\ poller'[s] = "pulling" /\ current'[s] = current[s]
          /\ report'[s] = report[s] /\ result'[s] = result[s]
      BY <1>1, <2>1 DEF TypeOK, SessionTypeOK
    <2>5. SessionOK(s)'
      <3>1. inHand[s] = <<>> /\ report[s] = "none"
        BY <1>1, <2>1 DEF SessionOK
      <3>2. QED
        BY <1>1, <2>1, <2>4, <3>1, EmptyQueue DEF SessionOK
    <2>6. QED
      BY <2>2, <2>3, <2>5, LocalStep
  <1>3. CASE PeerCloses(s) \/ SocketCloses(s)
    <2>1. /\ conn' \in [Sessions -> {"up", "done", "closed"}]
          /\ UNCHANGED <<queue, writer, inHand, poller, batch, current, report, result>>
          /\ UNCHANGED <<strays, writes, suspect>>
      BY <1>1, <1>3 DEF PeerCloses, SocketCloses, CloseDone, CloseSocket, others,
                        pollerVars, deliveryVars, TypeOK, SessionTypeOK
    <2>2. TypeOK'
      BY <1>1, <2>1 DEF TypeOK, SessionTypeOK
    <2>3. Elsewhere(s) /\ WritesKept /\ StraysBacked'
      BY <1>1, <2>1 DEF Elsewhere, WritesKept, StraysBacked
    <2>4. SessionOK(s)'
      BY <1>1, <2>1 DEF SessionOK
    <2>5. QED
      BY <2>2, <2>3, <2>4, LocalStep
  <1>4. QED
    BY <1>2, <1>3

\* Entries are put on the queue and taken from it.
LEMMA QueueStep ==
    ASSUME Inv, StoreTypeOK', NEW s \in Sessions,
           WorkerReplies(s) \/ OfferItem(s) \/ WriterTakes(s)
    PROVE  Inv'
  <1>1. TypeOK /\ SessionOK(s) /\ StraysBacked
    BY InvParts
  <1>2. queue[s] \in Seq(Entry) /\ inHand[s] \in Seq(Entry)
    BY <1>1 DEF TypeOK, SessionTypeOK
  <1>3. CASE WorkerReplies(s)
    <2>1. Reply \in Entry /\ ~Reply.awaited
      BY DEF Reply, Entry
    <2>2. /\ queue' = [queue EXCEPT ![s] = Append(queue[s], Reply)]
          /\ UNCHANGED <<conn, writer, inHand, poller, batch, current, report, result>>
          /\ UNCHANGED <<strays, writes, suspect>>
      BY <1>3 DEF WorkerReplies, Put, others, pollerVars, deliveryVars
    <2> DEFINE q == Append(queue[s], Reply)
    <2>3. /\ q \in Seq(Entry) /\ Range(q) = Range(queue[s]) \cup {Reply}
          /\ OneAwaited(queue[s]) => OneAwaited(q)
      BY <1>2, <2>1, PutLast
    <2> HIDE DEF q
    <2>4. TypeOK'
      BY <1>1, <2>2, <2>3 DEF TypeOK, SessionTypeOK, q
    <2>5. Elsewhere(s) /\ WritesKept /\ StraysBacked' /\ queue'[s] = q
      BY <1>1, <2>2 DEF TypeOK, SessionTypeOK, Elsewhere, WritesKept, StraysBacked, q
    <2>6. NoneAwaited(queue[s]) => NoneAwaited(q)
      BY <2>1, <2>3 DEF NoneAwaited
    <2>7. SessionOK(s)'
      BY <1>1, <2>1, <2>2, <2>3, <2>5, <2>6 DEF SessionOK
    <2>8. QED
      BY <2>4, <2>5, <2>7, LocalStep
  <1>4. CASE OfferItem(s)
    <2> DEFINE e == [item |-> current[s], awaited |-> TRUE]
    <2> DEFINE q == Append(queue[s], e)
    <2>1. poller[s] = "offering" /\ current[s] \in Items /\ e \in Entry /\ e.item = current[s]
      BY <1>1, <1>4 DEF OfferItem, Entry, SessionOK
    <2>2. /\ queue' = [queue EXCEPT ![s] = q] /\ result' = [result EXCEPT ![s] = "none"]
          /\ poller' = [poller EXCEPT ![s] = "awaiting"]
          /\ UNCHANGED <<conn, writer, inHand, batch, current, report, strays, writes, suspect>>
      BY <1>4 DEF OfferItem, Put, deliveryVars
    <2>3. NoneAwaited(queue[s]) /\ NoneAwaited(inHand[s]) /\ report[s] = "none"
      BY <1>1, <2>1 DEF SessionOK, NoneAwaited, TypeOK
    <2>4. q \in Seq(Entry) /\ Range(q) = Range(queue[s]) \cup {e} /\ OneAwaited(q)
      BY <1>2, <2>1, <2>3, PutLast
    <2> HIDE DEF q, e
    <2>5. TypeOK'
      BY <1>1, <2>2, <2>4 DEF TypeOK, SessionTypeOK
    <2>6. Elsewhere(s) /\ WritesKept /\ StraysBacked'
      BY <1>1, <2>2 DEF TypeOK, SessionTypeOK, Elsewhere, WritesKept, StraysBacked
    <2>7. queue'[s] = q /\ result'[s] = "none" /\ poller'[s] = "awaiting"
      BY <1>1, <2>2 DEF TypeOK, SessionTypeOK
    <2>8. \A d \in Range(q) \cup Range(inHand[s]) : d.awaited => d.item = current[s]
      BY <2>1, <2>3, <2>4 DEF NoneAwaited
    <2>9. SessionOK(s)'
      BY <1>1, <2>1, <2>2, <2>3, <2>4, <2>7, <2>8 DEF SessionOK
    <2>10. QED
      BY <2>5, <2>6, <2>9, LocalStep
  <1>5. CASE WriterTakes(s)
    <2> DEFINE q == Tail(queue[s])
    <2> DEFINE h == <<Head(queue[s])>>
    <2>1. /\ writer[s] = "selecting" /\ queue[s] # <<>>
          /\ queue' = [queue EXCEPT ![s] = q] /\ inHand' = [inHand EXCEPT ![s] = h]
          /\ writer' = [writer EXCEPT ![s] = "writing"]
          /\ UNCHANGED <<conn, poller, batch, current, report, result, strays, writes, suspect>>
      BY <1>5 DEF WriterTakes, Take, others, pollerVars, deliveryVars
    <2>2. /\ Head(queue[s]) \in Entry /\ Head(queue[s]) \in Range(queue[s])
          /\ q \in Seq(Entry) /\ Range(q) \subseteq Range(queue[s]) /\ OneAwaited(q)
          /\ Head(queue[s]).awaited => NoneAwaited(q)
      <3>1. OneAwaited(queue[s])
        BY <1>1 DEF SessionOK
      <3>2. QED
        BY <1>2, <2>1, <3>1, TakeHead
    <2>3. h \in Seq(Entry) /\ h # <<>> /\ Range(h) = {Head(queue[s])}
      BY <2>2 DEF Range
    <2>4. /\ NoneAwaited(h) <=> ~Head(queue[s]).awaited
          /\ NoneAwaited(queue[s]) => NoneAwaited(q) /\ NoneAwaited(h)
      BY <2>2, <2>3 DEF NoneAwaited
    <2> HIDE DEF q, h
    <2>5. TypeOK'
      BY <1>1, <2>1, <2>2, <2>3 DEF TypeOK, SessionTypeOK
    <2>6. Elsewhere(s) /\ WritesKept /\ StraysBacked'
      BY <1>1, <2>1 DEF TypeOK, SessionTypeOK, Elsewhere, WritesKept, StraysBacked
    <2>7. queue'[s] = q /\ inHand'[s] = h /\ writer'[s] = "writing"
      BY <1>1, <2>1 DEF TypeOK, SessionTypeOK
    <2>8. SessionOK(s)'
      BY <1>1, <2>1, <2>2, <2>3, <2>4, <2>7 DEF SessionOK
    <2>9. QED
      BY <2>5, <2>6, <2>8, LocalStep
  <1>6. QED
    BY <1>3, <1>4, <1>5

\* The write loop ends a write, or sees that the session is over.
LEMMA WriterLoopStep ==
    ASSUME Inv, StoreTypeOK', NEW s \in Sessions,
           WriteSucceeds(s) \/ WriteFails(s) \/ WriterSeesDone(s) \/ WriterReturns(s)
    PROVE  Inv'
  <1>1. TypeOK /\ SessionOK(s) /\ StraysBacked
    BY InvParts
  <1>2. CASE WriteSucceeds(s)
    <2> DEFINE e == inHand[s][1]
    <2>1. writer[s] = "writing" /\ e \in Entry /\ e \in Range(inHand[s])
      BY <1>2, InHandEntry DEF WriteSucceeds, Write
    <2>2. /\ writes' \in [Items -> 0..WriteCap] /\ WritesKept
          /\ e.item \in Items => writes'[e.item] > 0
      BY <1>1, <1>2, WriteCounts DEF WriteSucceeds, TypeOK, WritesKept
    <2>3. /\ result' = [result EXCEPT ![s] = IF e.awaited THEN "ok" ELSE result[s]]
          /\ inHand' = [inHand EXCEPT ![s] = <<>>]
          /\ writer' = [writer EXCEPT ![s] = "selecting"]
          /\ UNCHANGED <<conn, queue, poller, batch, current, report, strays, suspect>>
      BY <1>2 DEF WriteSucceeds, Write, NotifySent, pollerVars
    <2> HIDE DEF e
    <2>4. TypeOK'
      BY <1>1, <2>2, <2>3, EmptyQueue DEF TypeOK, SessionTypeOK
    <2>5. Elsewhere(s)
      BY <1>1, <2>3 DEF TypeOK, SessionTypeOK, Elsewhere
    <2>6. StraysBacked'
      <3>1. ASSUME NEW c \in strays, c.op = "ack"
            PROVE  writes'[c.item] > 0
        <4>1. c.item \in Items
          BY <1>1, <3>1 DEF TypeOK, Call, PullCall
        <4>2. QED
          BY <1>1, <2>2, <3>1, <4>1 DEF StraysBacked, WritesKept
      <3>2. QED
        BY <2>3, <3>1 DEF StraysBacked
    <2>7. /\ inHand'[s] = <<>> /\ writer'[s] = "selecting"
          /\ result'[s] = IF e.awaited THEN "ok" ELSE result[s]
      BY <1>1, <2>3 DEF TypeOK, SessionTypeOK
    <2>8. e.awaited => /\ poller[s] = "awaiting" /\ e.item = current[s]
                       /\ current[s] \in Items /\ NoneAwaited(queue[s])
      BY <1>1, <2>1 DEF SessionOK, NoneAwaited
    <2>9. SessionOK(s)'
      BY <1>1, <2>2, <2>3, <2>7, <2>8, EmptyQueue DEF SessionOK, WritesKept
    <2>10. QED
      BY <2>2, <2>4, <2>5, <2>6, <2>9, LocalStep
  <1>3. CASE WriteFails(s)
    <2> DEFINE e == inHand[s][1]
    <2>1. writer[s] = "writing" /\ e \in Range(inHand[s])
      BY <1>3, InHandEntry DEF WriteFails, FailWrite
    <2>2. /\ result' = [result EXCEPT ![s] = IF e.awaited THEN "err" ELSE result[s]]
          /\ inHand' = [inHand EXCEPT ![s] = <<>>]
          /\ writer' = [writer EXCEPT ![s] = "returning"]
          /\ UNCHANGED <<conn, queue, poller, batch, current, report, strays, writes, suspect>>
      BY <1>3 DEF WriteFails, FailWrite, NotifySent, others, pollerVars, deliveryVars
    <2> HIDE DEF e
    <2>3. TypeOK'
      BY <1>1, <2>2, EmptyQueue DEF TypeOK, SessionTypeOK
    <2>4. Elsewhere(s) /\ WritesKept /\ StraysBacked'
      BY <1>1, <2>2 DEF TypeOK, SessionTypeOK, Elsewhere, WritesKept, StraysBacked
    <2>5. /\ inHand'[s] = <<>> /\ writer'[s] = "returning"
          /\ result'[s] = IF e.awaited THEN "err" ELSE result[s]
      BY <1>1, <2>2 DEF TypeOK, SessionTypeOK
    <2>6. e.awaited => poller[s] = "awaiting" /\ NoneAwaited(queue[s])
      BY <1>1, <2>1 DEF SessionOK, NoneAwaited
    <2>7. e.awaited => report[s] # "ack"
      BY <1>1, <2>6 DEF SessionOK
    <2>8. SessionOK(s)'
      BY <1>1, <2>2, <2>5, <2>6, <2>7, EmptyQueue DEF SessionOK
    <2>9. QED
      BY <2>3, <2>4, <2>8, LocalStep
  <1>4. CASE WriterSeesDone(s) \/ WriterReturns(s)
    <2>1. /\ conn' \in [Sessions -> {"up", "done", "closed"}]
          /\ writer[s] # "writing"
          /\ \E at \in {"returning", "stopped"} : writer' = [writer EXCEPT ![s] = at]
          /\ UNCHANGED <<queue, inHand, poller, batch, current, report, result>>
          /\ UNCHANGED <<strays, writes, suspect>>
      BY <1>1, <1>4 DEF WriterSeesDone, WriterReturns, SeeDone, Return, CloseDone, others,
                        pollerVars, deliveryVars, TypeOK, SessionTypeOK
    <2>2. TypeOK' /\ Elsewhere(s) /\ writer'[s] # "writing"
      BY <1>1, <2>1 DEF TypeOK, SessionTypeOK, Elsewhere
    <2>3. WritesKept /\ StraysBacked'
      BY <1>1, <2>1 DEF WritesKept, StraysBacked
    <2>4. SessionOK(s)'
      BY <1>1, <2>1, <2>2 DEF SessionOK
    <2>5. QED
      BY <2>2, <2>3, <2>4, LocalStep
  <1>5. QED
    BY <1>2, <1>3, <1>4

\* The poller waits, or a pull brings it nothing.
LEMMA IdleStep ==
    ASSUME Inv, StoreTypeOK', NEW s \in Sessions,
           PollTick(s) \/ PollerStops(s) \/ PullFails(s) \/ PullDelayed(s)
    PROVE  Inv'
  <1>1. TypeOK /\ SessionOK(s) /\ StraysBacked
    BY InvParts
  <1>2. /\ poller[s] \in {"waiting", "pulling"}
        /\ \E at \in {"waiting", "pulling", "stopped"} : poller' = [poller EXCEPT ![s] = at]
        /\ UNCHANGED <<conn, queue, writer, inHand, batch, current, report, result>>
        /\ UNCHANGED <<writes, suspect>> /\ strays' \subseteq strays \cup {PullCall}
    BY DEF PollTick, PollerStops, PullFails, PullDelayed, sessionVars, deliveryVars
  <1>3. TypeOK' /\ Elsewhere(s) /\ poller'[s] \in {"waiting", "pulling", "stopped"}
    <2>1. PullCall \in Call
      BY DEF Call
    <2>2. strays' \in SUBSET Call
      BY <1>1, <1>2, <2>1 DEF TypeOK
    <2>3. QED
      BY <1>1, <1>2, <2>2 DEF TypeOK, SessionTypeOK, Elsewhere
  <1>4. WritesKept /\ StraysBacked'
    BY <1>1, <1>2 DEF WritesKept, StraysBacked, PullCall
  <1>5. NoneAwaited(queue[s]) /\ NoneAwaited(inHand[s]) /\ report[s] = "none"
    BY <1>1, <1>2 DEF SessionOK, NoneAwaited, TypeOK
  <1>6. SessionOK(s)'
    BY <1>1, <1>2, <1>3, <1>5 DEF SessionOK, NoneAwaited
  <1>7. QED
    BY <1>3, <1>4, <1>6, LocalStep

\* The poller turns to the next item of its batch.
LEMMA TurnStep ==
    ASSUME Inv, StoreTypeOK', NEW s \in Sessions, NEW items \in SUBSET Items,
           NextOf(s, items), poller[s] # "awaiting", UNCHANGED sessionVars,
           UNCHANGED <<writes, suspect>>, strays' \in SUBSET Call, StraysBacked'
    PROVE  Inv'
  <1>1. TypeOK /\ SessionOK(s)
    BY InvParts
  <1>2. UNCHANGED <<conn, queue, writer, inHand, writes, suspect>>
    BY DEF sessionVars
  <1>3. TypeOK'
    BY <1>1, <1>2, NextOfStep DEF TypeOK, SessionTypeOK
  <1>4. Elsewhere(s) /\ WritesKept
    BY <1>1, <1>2, NextOfStep DEF Elsewhere, WritesKept
  <1>5. /\ report'[s] = "none" /\ result'[s] = "none"
        /\ poller'[s] = "waiting" \/ (poller'[s] = "offering" /\ current'[s] \in Items)
    BY <1>1, NextOfStep DEF NextOfTypes
  <1>6. NoneAwaited(queue[s]) /\ NoneAwaited(inHand[s])
    BY <1>1 DEF SessionOK, NoneAwaited
  <1>7. SessionOK(s)'
    BY <1>1, <1>2, <1>5, <1>6 DEF SessionOK, NoneAwaited
  <1>8. QED
    BY <1>3, <1>4, <1>7, LocalStep

\* A pull is answered, or a report ends.
LEMMA CallStep ==
    ASSUME Inv, StoreTypeOK', NEW s \in Sessions,
           PullAnswered(s) \/ ReportExecuted(s) \/ ReportLost(s) \/ ReportDelayed(s)
    PROVE  Inv'
  <1>1. TypeOK /\ SessionOK(s) /\ StraysBacked
    BY InvParts
  <1>2. CASE PullAnswered(s)
    <2>1. PICK skipped : NextOf(s, Picked(skipped))
      BY <1>2 DEF PullAnswered
    <2>2. Picked(skipped) \subseteq Items
      BY PickedIsPullable
    <2>3. /\ poller[s] # "awaiting" /\ UNCHANGED sessionVars
          /\ UNCHANGED <<strays, writes, suspect>>
      BY <1>2 DEF PullAnswered, deliveryVars
    <2>4. strays' \in SUBSET Call /\ StraysBacked'
      BY <1>1, <2>3 DEF TypeOK, StraysBacked
    <2>5. QED
      BY <2>1, <2>2, <2>3, <2>4, TurnStep
  <1>3. CASE ReportExecuted(s) \/ ReportLost(s)
    <2>1. /\ poller[s] # "awaiting" /\ NextOf(s, batch[s]) /\ UNCHANGED sessionVars
          /\ UNCHANGED <<strays, writes, suspect>>
      BY <1>3 DEF ReportExecuted, ReportLost, deliveryVars
    <2>2. strays' \in SUBSET Call /\ StraysBacked' /\ batch[s] \in SUBSET Items
      BY <1>1, <2>1 DEF TypeOK, StraysBacked
    <2>3. QED
      BY <2>1, <2>2, TurnStep
  <1>4. CASE ReportDelayed(s)
    <2> DEFINE c == [op |-> report[s], item |-> current[s]]
    <2>1. /\ poller[s] = "reporting" /\ NextOf(s, batch[s]) /\ UNCHANGED sessionVars
          /\ UNCHANGED <<writes, suspect>> /\ strays' = strays \cup {c}
      BY <1>4 DEF ReportDelayed
    <2>2. report[s] \in {"ack", "fail"} /\ current[s] \in Items /\ batch[s] \in SUBSET Items
      BY <1>1, <2>1 DEF TypeOK, SessionOK
    <2>3. report[s] = "ack" => writes[current[s]] > 0
      BY <1>1 DEF SessionOK
    <2>4. c \in Call /\ (c.op = "ack" => writes[c.item] > 0)
      BY <2>2, <2>3 DEF Call
    <2> HIDE DEF c
    <2>5. strays' \in SUBSET Call /\ StraysBacked'
      BY <1>1, <2>1, <2>4 DEF TypeOK, StraysBacked
    <2>6. QED
      BY <2>1, <2>2, <2>5, TurnStep
  <1>5. QED
    BY <1>2, <1>3, <1>4

\* The poller decides what to report about its item.
LEMMA DecideStep ==
    ASSUME Inv, StoreTypeOK', NEW s \in Sessions,
           \/ RejectItem(s) \/ OfferTimesOut(s) \/ OfferSeesDone(s)
           \/ TakeResult(s) \/ AwaitSeesDone(s)
    PROVE  Inv'
  <1>1. TypeOK /\ SessionOK(s) /\ StraysBacked
    BY InvParts
  <1>2. current[s] \in Items
    BY <1>1 DEF SessionOK, RejectItem, OfferTimesOut, OfferSeesDone, TakeResult, AwaitSeesDone
  <1>3. PICK op \in {"ack", "fail"}, rest \in SUBSET Items :
            /\ StartReport(s, op, rest)
            /\ op = "ack" => result[s] = "ok"
    BY <1>1 DEF TypeOK, RejectItem, OfferTimesOut, OfferSeesDone, TakeResult, AwaitSeesDone
  <1>4. /\ poller' = [poller EXCEPT ![s] = "reporting"]
        /\ report' = [report EXCEPT ![s] = op] /\ batch' = [batch EXCEPT ![s] = rest]
        /\ UNCHANGED <<current, strays, writes>>
    BY <1>3 DEF StartReport
  <1>5. /\ UNCHANGED <<conn, writer, result>> /\ suspect' \in SUBSET Items
    BY <1>1, <1>2 DEF RejectItem, OfferTimesOut, OfferSeesDone, TakeResult, AwaitSeesDone,
                      sessionVars, TypeOK
  <1>6. /\ queue' \in [Sessions -> Seq(Entry)] /\ inHand' \in [Sessions -> Seq(Entry)]
        /\ \A t \in Sessions \ {s} : queue'[t] = queue[t] /\ inHand'[t] = inHand[t]
        /\ NoneAwaited(queue'[s]) /\ NoneAwaited(inHand'[s]) /\ OneAwaited(queue'[s])
        /\ inHand'[s] = <<>> <=> inHand[s] = <<>>
    <2>1. CASE AwaitSeesDone(s)
      <3>1. /\ queue' = [queue EXCEPT ![s] = Forsaken(queue[s])]
            /\ inHand' = [inHand EXCEPT ![s] = Forsaken(inHand[s])]
        BY <2>1 DEF AwaitSeesDone
      <3>2. queue[s] \in Seq(Entry) /\ inHand[s] \in Seq(Entry)
        BY <1>1 DEF TypeOK, SessionTypeOK
      <3> DEFINE q == Forsaken(queue[s])
      <3> DEFINE h == Forsaken(inHand[s])
      <3>3. /\ q \in Seq(Entry) /\ h \in Seq(Entry) /\ (h = <<>> <=> inHand[s] = <<>>)
            /\ NoneAwaited(q) /\ NoneAwaited(h) /\ OneAwaited(q)
        BY <3>2, ForsakenEntries
      <3> HIDE DEF q, h
      <3>4. queue'[s] = q /\ inHand'[s] = h
        BY <1>1, <3>1 DEF TypeOK, SessionTypeOK, q, h
      <3>5. /\ queue' = [queue EXCEPT ![s] = q] /\ inHand' = [inHand EXCEPT ![s] = h]
            /\ queue \in [Sessions -> Seq(Entry)] /\ inHand \in [Sessions -> Seq(Entry)]
        BY <1>1, <3>1 DEF TypeOK, SessionTypeOK, q, h
      <3>6. /\ queue' \in [Sessions -> Seq(Entry)] /\ inHand' \in [Sessions -> Seq(Entry)]
            /\ \A t \in Sessions \ {s} : queue'[t] = queue[t] /\ inHand'[t] = inHand[t]
        BY <3>3, <3>5
      <3>7. QED
        BY <3>3, <3>4, <3>6
    <2>2. CASE TakeResult(s)
      BY <1>1, <2>2 DEF TakeResult, sessionVars, TypeOK, SessionTypeOK, SessionOK
    <2>3. CASE RejectItem(s) \/ OfferTimesOut(s) \/ OfferSeesDone(s)
      <3>1. poller[s] = "offering" /\ UNCHANGED <<queue, inHand>>
        BY <2>3 DEF RejectItem, OfferTimesOut, OfferSeesDone, sessionVars
      <3>2. NoneAwaited(queue[s]) /\ NoneAwaited(inHand[s])
        BY <1>1, <3>1 DEF SessionOK, NoneAwaited
      <3>3. QED
        BY <1>1, <3>1, <3>2 DEF TypeOK, SessionTypeOK, SessionOK
    <2>4. QED
      BY <2>1, <2>2, <2>3
  <1>7. TypeOK'
    BY <1>1, <1>4, <1>5, <1>6 DEF TypeOK, SessionTypeOK
  <1>8. Elsewhere(s) /\ WritesKept /\ StraysBacked'
    BY <1>1, <1>4, <1>5, <1>6 DEF TypeOK, Elsewhere, WritesKept, StraysBacked
  <1>9. poller'[s] = "reporting" /\ report'[s] = op /\ op # "none"
    BY <1>1, <1>4 DEF TypeOK
  <1>10. result[s] = "ok" => writes[current[s]] > 0
    BY <1>1 DEF SessionOK
  <1>11. SessionOK(s)'
    BY <1>1, <1>2, <1>3, <1>4, <1>5, <1>6, <1>9, <1>10 DEF SessionOK, NoneAwaited
  <1>12. QED
    BY <1>7, <1>8, <1>11, LocalStep

\* Every step preserves the invariant.
LEMMA InvStep ==
    ASSUME Inv, [Next]_vars
    PROVE  Inv'
  <1>1. StoreTypeOK' /\ TypeOK
    BY StoreStep, TypeStep DEF Inv, TypeOK
  <1>2. CASE UNCHANGED vars
    BY <1>1, <1>2, SessionsRest DEF vars, sessionVars, pollerVars, deliveryVars, TypeOK
  <1>3. CASE Produce
    BY <1>1, <1>3, SessionsRest DEF Produce, sessionVars, pollerVars, deliveryVars, TypeOK
  <1>4. CASE TimePasses
    BY <1>1, <1>4, SessionsRest DEF TimePasses, sessionVars, pollerVars, TypeOK
  <1>5. CASE StrayStep
    BY <1>1, <1>5, SessionsRest DEF StrayStep, StrayExecuted, StrayDropped, sessionVars,
                                    pollerVars, TypeOK
  <1>6. CASE GatewayRestarts
    BY <1>1, <1>6, RestartStep
  <1>7. QED
    BY <1>1, <1>2, <1>3, <1>4, <1>5, <1>6, ConnectionStep, QueueStep, WriterLoopStep,
       IdleStep, CallStep, DecideStep
       DEF Next, Work, Disturbance, SessionStep, PollerStep, WriterStep

-----------------------------------------------------------------------------
\* At the start there is no session, no item and no late call.
LEMMA InvInit == Init => Inv
  <1> SUFFICES ASSUME Init
               PROVE  Inv
    OBVIOUS
  <1> USE DEF Init, SessionInit
  <1>1. StoreTypeOK
    BY OutboxAssumption DEF StoreInit, StoreTypeOK, Statuses
  <1>2. TypeOK
    BY <1>1, DeliveryAssumption, EmptyQueue DEF TypeOK, SessionTypeOK
  <1>3. ASSUME NEW s \in Sessions
        PROVE  SessionOK(s)
    BY EmptyQueue DEF SessionOK
  <1>4. StraysBacked
    BY DEF StraysBacked
  <1>5. QED
    BY <1>2, <1>3, <1>4, InvParts

\* Inv holds in every reachable state, for any number of sessions and items and
\* any queue size: queues, pollers, writers and late calls stay well formed and
\* agree about which item is whose.
THEOREM DeliveryInvariant == Spec => []Inv
  <1>1. Inv /\ [Next]_vars => Inv'
    BY InvStep
  <1>2. QED
    BY <1>1, InvInit, PTL DEF Spec

\* The type invariant of delivery.
THEOREM DeliveryTypeCorrect == Spec => []TypeOK
  <1>1. Inv => TypeOK
    BY DEF Inv
  <1>2. QED
    BY <1>1, DeliveryInvariant, PTL

\* A writeResult is only ever about the item its poller is working on, and there
\* is at most one of it.
THEOREM ResultsAreCurrent == Spec => []AwaitedIsCurrent
  <1>1. Inv => AwaitedIsCurrent
    BY DEF Inv
  <1>2. QED
    BY <1>1, DeliveryInvariant, PTL

\* Every ack that is or will be sent to Brain, also by a caller that has given up
\* on it, is for an item that was written.
THEOREM AcksBacked == Spec => []AcksAreBacked
  <1>1. Inv => AcksAreBacked
    BY DEF Inv
  <1>2. QED
    BY <1>1, DeliveryInvariant, PTL

\* Sessions, late calls and restarts change the table only through the statements
\* of the store, so delivery implements the specification of the store.
LEMMA DeliveryImplementsStore == Spec => StoreSpec
  <1>1. Init => StoreInit
    BY DEF Init
  <1>2. Inv /\ [Next]_vars => [StoreNext]_storeVars
    BY StoreStep DEF Inv
  <1>3. QED
    BY <1>1, <1>2, DeliveryInvariant, PTL DEF Spec, StoreSpec

\* So what is proved of the table on its own holds under delivery.
THEOREM DeliveryKeepsRows ==
    Spec => []RowCoherent /\ OutcomeIsFinal /\ LeaseIsExclusive /\ OnlyFailuresCount
  BY DeliveryImplementsStore, RowsCoherent, OutcomesAreFinal, LeasesAreExclusive,
     FailuresAreCounted, PTL

-----------------------------------------------------------------------------
(* An item recorded as sent was written. *)

\* Only a write that succeeds is counted.
LEMMA OnlyWritesCount ==
    ASSUME [Next]_vars
    PROVE  (\E s \in Sessions : WriteSucceeds(s)) \/ UNCHANGED writes
  <1>1. CASE UNCHANGED vars
    BY <1>1 DEF vars, deliveryVars
  <1>2. CASE Produce \/ TimePasses \/ StrayStep \/ GatewayRestarts
    BY <1>2 DEF Produce, TimePasses, StrayStep, StrayExecuted, StrayDropped,
                GatewayRestarts, deliveryVars
  <1>3. ASSUME NEW s \in Sessions,
               Connect(s) \/ PeerCloses(s) \/ SocketCloses(s) \/ WorkerReplies(s)
        PROVE  UNCHANGED writes
    BY <1>3 DEF Connect, PeerCloses, SocketCloses, WorkerReplies, others, deliveryVars
  <1>4. ASSUME NEW s \in Sessions,
               WriterTakes(s) \/ WriteFails(s) \/ WriterSeesDone(s) \/ WriterReturns(s)
        PROVE  UNCHANGED writes
    BY <1>4 DEF WriterTakes, WriteFails, WriterSeesDone, WriterReturns, others, deliveryVars
  <1>5. ASSUME NEW s \in Sessions,
               \/ PollTick(s) \/ PollerStops(s) \/ PullAnswered(s)
               \/ PullDelayed(s) \/ PullFails(s)
        PROVE  UNCHANGED writes
    BY <1>5 DEF PollTick, PollerStops, PullAnswered, PullDelayed, PullFails, deliveryVars
  <1>6. ASSUME NEW s \in Sessions,
               \/ RejectItem(s) \/ OfferItem(s) \/ OfferTimesOut(s) \/ OfferSeesDone(s)
               \/ TakeResult(s) \/ AwaitSeesDone(s)
        PROVE  UNCHANGED writes
    BY <1>6 DEF RejectItem, OfferItem, OfferTimesOut, OfferSeesDone, TakeResult,
                AwaitSeesDone, StartReport, deliveryVars
  <1>7. ASSUME NEW s \in Sessions, ReportExecuted(s) \/ ReportLost(s) \/ ReportDelayed(s)
        PROVE  UNCHANGED writes
    BY <1>7 DEF ReportExecuted, ReportLost, ReportDelayed, deliveryVars
  <1>8. QED
    BY <1>1, <1>2, <1>3, <1>4, <1>5, <1>6, <1>7
       DEF Next, Work, Disturbance, SessionStep, PollerStep, WriterStep

\* Writes are never forgotten.
LEMMA WritesStep ==
    ASSUME TypeOK, [Next]_vars
    PROVE  WritesKept
  <1>1. CASE \E s \in Sessions : WriteSucceeds(s)
    BY <1>1, WriteCounts DEF WriteSucceeds, TypeOK, WritesKept
  <1>2. CASE UNCHANGED writes
    BY <1>2 DEF WritesKept
  <1>3. QED
    BY <1>1, <1>2, OnlyWritesCount

\* The call that marks an item as sent is an ack of it.
LEMMA ExecutedAck ==
    ASSUME StoreTypeOK, NEW op, NEW i \in Items, Execute(op, i),
           NEW j \in Items, status'[j] = "sent", status[j] # "sent"
    PROVE  op = "ack" /\ i = j
  BY DEF Execute, Ack, Fail, storeVars, StoreTypeOK

\* An item becomes sent only when an ack of it reaches Brain.
LEMMA SentByAck ==
    ASSUME Inv, [Next]_vars, NEW j \in Items, status'[j] = "sent", status[j] # "sent"
    PROVE  writes[j] > 0
  <1> USE DEF Inv, TypeOK
  <1>1. CASE StrayStep
    <2>1. PICK c \in strays : StrayExecuted(c)
      BY <1>1 DEF StrayStep, StrayDropped, storeVars
    <2>2. c.op # "pull"
      BY <2>1 DEF StrayExecuted, Pull
    <2>3. c \in Call /\ Execute(c.op, c.item)
      BY <2>1, <2>2 DEF StrayExecuted
    <2>4. c.item \in Items
      BY <2>2, <2>3 DEF Call, PullCall
    <2>5. c.op = "ack" /\ c.item = j
      BY <2>3, <2>4, ExecutedAck
    <2>6. QED
      BY <2>1, <2>5 DEF AcksAreBacked
  <1>2. ASSUME NEW s \in Sessions, ReportExecuted(s)
        PROVE  writes[j] > 0
    <2>1. current[s] \in Items /\ Execute(report[s], current[s])
      BY <1>2 DEF ReportExecuted, PollersHoldItems
    <2>2. report[s] = "ack" /\ current[s] = j
      BY <2>1, ExecutedAck
    <2>3. QED
      BY <2>2 DEF AcksAreBacked
  <1>3. (\A s \in Sessions : ~ReportExecuted(s)) /\ ~StrayStep => status'[j] = status[j]
            \/ status'[j] # "sent"
    <2> USE DEF storeVars
    <2>1. CASE UNCHANGED vars
      BY <2>1 DEF vars
    <2>2. CASE Produce \/ TimePasses \/ GatewayRestarts
      BY <2>2 DEF Produce, Enqueue, TimePasses, Tick, GatewayRestarts, StoreTypeOK
    <2>3. ASSUME NEW s \in Sessions,
                 Connect(s) \/ PeerCloses(s) \/ SocketCloses(s) \/ WorkerReplies(s)
          PROVE  UNCHANGED status
      BY <2>3 DEF Connect, PeerCloses, SocketCloses, WorkerReplies, others
    <2>4. ASSUME NEW s \in Sessions, WriterStep(s) \/ WriteFails(s)
          PROVE  UNCHANGED status
      BY <2>4 DEF WriterStep, WriterTakes, WriteSucceeds, WriteFails, WriterSeesDone,
                  WriterReturns, others
    <2>5. ASSUME NEW s \in Sessions,
                 PollTick(s) \/ PollerStops(s) \/ PullFails(s) \/ PullDelayed(s)
          PROVE  UNCHANGED status
      BY <2>5 DEF PollTick, PollerStops, PullFails, PullDelayed
    <2>6. ASSUME NEW s \in Sessions, PullAnswered(s)
          PROVE  status'[j] = status[j] \/ status'[j] # "sent"
      BY <2>6 DEF PullAnswered, Pull
    <2>7. ASSUME NEW s \in Sessions,
                 \/ RejectItem(s) \/ OfferItem(s) \/ OfferTimesOut(s) \/ OfferSeesDone(s)
                 \/ TakeResult(s) \/ AwaitSeesDone(s)
          PROVE  UNCHANGED status
      BY <2>7 DEF RejectItem, OfferItem, OfferTimesOut, OfferSeesDone, TakeResult,
                  AwaitSeesDone, StartReport
    <2>8. ASSUME NEW s \in Sessions, ReportLost(s) \/ ReportDelayed(s)
          PROVE  UNCHANGED status
      BY <2>8 DEF ReportLost, ReportDelayed
    <2>9. QED
      BY <2>1, <2>2, <2>3, <2>4, <2>5, <2>6, <2>7, <2>8
         DEF Next, Work, Disturbance, SessionStep, PollerStep
  <1>4. QED
    BY <1>1, <1>2, <1>3

\* Brain records an item as sent only after its action was written to some
\* WebSocket, however calls are delayed, lost or repeated, and across restarts.
THEOREM SentItemsWereWritten == Spec => []SentWasWritten
  <1>1. Init => SentWasWritten
    BY DEF Init, StoreInit, SentWasWritten
  <1>2. Inv /\ SentWasWritten /\ [Next]_vars => SentWasWritten'
    <2> SUFFICES ASSUME Inv, SentWasWritten, [Next]_vars,
                        NEW j \in Items, status'[j] = "sent"
                 PROVE  writes'[j] > 0
      BY DEF SentWasWritten
    <2>1. writes[j] > 0
      BY SentByAck DEF SentWasWritten
    <2>2. QED
      BY <2>1, WritesStep DEF Inv, WritesKept
  <1>3. QED
    BY <1>1, <1>2, DeliveryInvariant, PTL DEF Spec

-----------------------------------------------------------------------------
(* What delivery promises, for any number of items, sessions, attempts and *)
(* any queue size: duplicates have a known cause, and every step of        *)
(* delivery is a step of OutboxPromise or none.                            *)

Working(s) == poller[s] \in {"offering", "awaiting", "reporting"}

\* The items a session is responsible for, and the entries it has still to write.
Held(s) == batch[s] \cup {i \in Items : Working(s) /\ current[s] = i}
Entries(s) == Range(queue[s]) \cup Range(inHand[s])
Late(i) == {c \in strays : c.item = i}

\* The poller is about to report that its item was written.
Settling(s) == (poller[s] = "awaiting" /\ result[s] = "ok") \/ report[s] = "ack"

\* What a session has of an item outside suspect: it was not written unless the
\* poller knows, and no entry of it is left without a poller.
HolderOK(s, i) ==
    /\ i \in batch[s] => writes[i] = 0 /\ ~(Working(s) /\ current[s] = i)
    /\ Working(s) /\ current[s] = i => writes[i] = 0 \/ Settling(s)
    /\ \A e \in Entries(s) : e.item = i => e.awaited

\* What all have of it: one session or one late call is responsible, nobody unless
\* the row is leased, and a row that can be pulled was never written.
OneDelivery(i) ==
    /\ status[i] = "processing" => lockLeft[i] > 0
    /\ status[i] # "processing" => Late(i) = {} /\ \A s \in Sessions : i \notin Held(s)
    /\ status[i] \in {"absent", "pending"} => writes[i] = 0
    /\ \A s, t \in Sessions : i \in Held(s) /\ i \in Held(t) => s = t
    /\ \A s \in Sessions : i \in Held(s) => Late(i) = {}
    /\ \A c, d \in Late(i) : c = d
    /\ \A c \in Late(i) : c.op = "ack" \/ writes[i] = 0
    /\ writes[i] <= 1

Undisturbed(i) == OneDelivery(i) /\ \A s \in Sessions : HolderOK(s, i)

Fresh == \A i \in Items \ suspect : Undisturbed(i)

-----------------------------------------------------------------------------
(* Steps of one session. *)

\* The step touches no session but s, not even its batch.
Apart(s) == Elsewhere(s) /\ \A t \in Sessions \ {s} : batch'[t] = batch[t]

LEMMA ApartKeeps ==
    ASSUME NEW s \in Sessions, Apart(s), NEW t \in Sessions \ {s}, NEW i \in Items,
           HolderOK(t, i), writes'[i] = writes[i] \/ i \notin Held(t)
    PROVE  Held(t)' = Held(t) /\ Entries(t)' = Entries(t) /\ HolderOK(t, i)'
  <1>1. /\ queue'[t] = queue[t] /\ inHand'[t] = inHand[t] /\ poller'[t] = poller[t]
        /\ current'[t] = current[t] /\ report'[t] = report[t] /\ result'[t] = result[t]
        /\ batch'[t] = batch[t]
    BY DEF Apart, Elsewhere
  <1>2. Held(t)' = Held(t) /\ Entries(t)' = Entries(t) /\ (Settling(t)' <=> Settling(t))
    BY <1>1 DEF Held, Entries, Working, Settling
  <1>3. QED
    BY <1>1, <1>2 DEF HolderOK, Working, Held

\* A session may let go of an item at any time, as long as it keeps its own books.
LEMMA LocalKeepsDelivery ==
    ASSUME NEW s \in Sessions, Apart(s), NEW i \in Items, Undisturbed(i),
           status'[i] = status[i], lockLeft'[i] = lockLeft[i], writes'[i] = writes[i],
           Late(i)' = Late(i), i \in Held(s)' => i \in Held(s), HolderOK(s, i)'
    PROVE  Undisturbed(i)'
  <1>1. ASSUME NEW t \in Sessions
        PROVE  HolderOK(t, i)' /\ (i \in Held(t)' => i \in Held(t))
    <2>1. CASE t = s
      BY <2>1
    <2>2. CASE t # s
      BY <2>2, ApartKeeps DEF Undisturbed
    <2>3. QED
      BY <2>1, <2>2
  <1>2. OneDelivery(i)'
    BY <1>1 DEF Undisturbed, OneDelivery
  <1>3. QED
    BY <1>1, <1>2 DEF Undisturbed

\* The connection, the write loop and the ticker of a session.
LEMMA QuietHolder ==
    ASSUME NEW s \in Sessions, NEW i \in Items, HolderOK(s, i), NoItem \notin Items,
           batch'[s] = batch[s], current'[s] = current[s], report'[s] = report[s],
           writes'[i] = writes[i],
           poller'[s] = poller[s] \/ (~Working(s) /\ ~Working(s)'),
           result'[s] = result[s] \/ (result[s] # "ok"),
           \A e \in Entries(s)' : e \in Entries(s) \/ e.item = NoItem
    PROVE  /\ HolderOK(s, i)'
           /\ Held(s)' = Held(s)
  <1>1. Held(s)' = Held(s) /\ (Working(s)' <=> Working(s))
    BY DEF Held, Working
  <1>2. Working(s) /\ Settling(s) => Settling(s)'
    BY DEF Settling, Working
  <1>3. \A e \in Entries(s)' : e.item = i => e.awaited
    BY DEF HolderOK
  <1>4. QED
    BY <1>1, <1>2, <1>3 DEF HolderOK

LEMMA NoItemIsNone == NoItem \notin Items
  BY OutboxAssumption DEF NoItem

LEMMA TypesOf ==
    ASSUME TypeOK
    PROVE  /\ conn \in [Sessions -> {"up", "done", "closed"}]
           /\ queue \in [Sessions -> Seq(Entry)] /\ inHand \in [Sessions -> Seq(Entry)]
           /\ DOMAIN writer = Sessions /\ DOMAIN result = Sessions /\ DOMAIN report = Sessions
           /\ DOMAIN poller = Sessions /\ batch \in [Sessions -> SUBSET Items] /\ DOMAIN current = Sessions
  BY DEF TypeOK, SessionTypeOK

LEMMA QuietStep ==
    ASSUME Inv, NEW s \in Sessions, NEW i \in Items, Undisturbed(i),
           \/ Connect(s) \/ PeerCloses(s) \/ SocketCloses(s) \/ WorkerReplies(s) \/ WriterTakes(s)
           \/ WriteFails(s) \/ WriterSeesDone(s) \/ WriterReturns(s)
           \/ PollTick(s) \/ PollerStops(s) \/ PullFails(s) \/ PullDelayed(s)
    PROVE  Undisturbed(i)'
  <1>1. TypeOK /\ SessionOK(s)
    BY InvParts
  <1>2. /\ UNCHANGED <<batch, current, report, writes, status, lockLeft>>
        /\ Late(i)' = Late(i)
    <2>1. UNCHANGED <<batch, current, report, writes, status, lockLeft>>
      BY DEF Connect, PeerCloses, SocketCloses, WorkerReplies, WriterTakes, WriteFails, WriterSeesDone,
             WriterReturns, PollTick, PollerStops, PullFails, PullDelayed, others, pollerVars,
             deliveryVars, storeVars
    <2>2. strays' = strays \/ strays' = strays \cup {PullCall}
      BY DEF Connect, PeerCloses, SocketCloses, WorkerReplies, WriterTakes, WriteFails, WriterSeesDone,
             WriterReturns, PollTick, PollerStops, PullFails, PullDelayed, others, pollerVars,
             deliveryVars, storeVars
    <2>3. PullCall.item # i
      BY NoItemIsNone DEF PullCall
    <2>4. QED
      BY <2>1, <2>2, <2>3 DEF Late
  <1>3. CASE Connect(s)
    <2>1. /\ poller[s] = "stopped" /\ poller' = [poller EXCEPT ![s] = "pulling"]
          /\ queue' = [queue EXCEPT ![s] = <<>>] /\ writer' = [writer EXCEPT ![s] = "selecting"]
          /\ inHand' = inHand /\ result' = result
      BY <1>3 DEF Connect, Open
    <2>2. /\ poller'[s] = "pulling" /\ queue'[s] = <<>> /\ Apart(s)
      BY <1>1, <1>2, <2>1, TypesOf DEF Apart, Elsewhere
    <2>3. Entries(s)' \subseteq Entries(s)
      BY <2>1, <2>2, EmptyQueue DEF Entries
    <2>4. ~Working(s) /\ ~Working(s)'
      BY <2>1, <2>2 DEF Working
    <2>5. HolderOK(s, i)' /\ Held(s)' = Held(s)
      BY <1>2, <2>1, <2>3, <2>4, NoItemIsNone, QuietHolder DEF Undisturbed
    <2>6. QED
      BY <1>2, <2>2, <2>5, LocalKeepsDelivery
  <1>4. CASE WriterTakes(s)
    <2>1. /\ queue[s] # <<>> /\ queue' = [queue EXCEPT ![s] = Tail(queue[s])]
          /\ inHand' = [inHand EXCEPT ![s] = <<Head(queue[s])>>]
          /\ writer' = [writer EXCEPT ![s] = "writing"]
          /\ poller' = poller /\ result' = result
      BY <1>4 DEF WriterTakes, Take, others, pollerVars
    <2>2. /\ queue'[s] = Tail(queue[s]) /\ inHand'[s] = <<Head(queue[s])>> /\ queue[s] \in Seq(Entry)
          /\ Apart(s)
      BY <1>1, <1>2, <2>1, TypesOf DEF Apart, Elsewhere
    <2>3. Head(queue[s]) \in Range(queue[s]) /\ Range(Tail(queue[s])) \subseteq Range(queue[s])
      BY <2>1, <2>2, TakeHead
    <2>4. Range(inHand'[s]) = {Head(queue[s])}
      BY <2>2 DEF Range
    <2>5. Entries(s)' \subseteq Entries(s)
      BY <2>2, <2>3, <2>4 DEF Entries
    <2>6. HolderOK(s, i)' /\ Held(s)' = Held(s)
      <3>1. poller'[s] = poller[s] /\ result'[s] = result[s]
        BY <2>1
      <3>2. QED
        BY <1>2, <2>5, <3>1, NoItemIsNone, QuietHolder DEF Undisturbed
    <2>7. QED
      BY <1>2, <2>2, <2>6, LocalKeepsDelivery
  <1>5. CASE WorkerReplies(s)
    <2>1. /\ queue' = [queue EXCEPT ![s] = Append(queue[s], Reply)]
          /\ inHand' = inHand /\ writer' = writer /\ poller' = poller /\ result' = result
      BY <1>5 DEF WorkerReplies, Put, others, pollerVars
    <2>2. queue'[s] = Append(queue[s], Reply) /\ queue[s] \in Seq(Entry) /\ Apart(s)
      BY <1>1, <1>2, <2>1, TypesOf DEF Apart, Elsewhere
    <2>3. Reply \in Entry /\ Reply.item = NoItem
      BY DEF Reply, Entry
    <2>4. Range(Append(queue[s], Reply)) = Range(queue[s]) \cup {Reply}
      BY <2>2, <2>3, PutLast
    <2>5. \A e \in Entries(s)' : e \in Entries(s) \/ e.item = NoItem
      BY <2>1, <2>2, <2>3, <2>4 DEF Entries
    <2>6. HolderOK(s, i)' /\ Held(s)' = Held(s)
      <3>1. poller'[s] = poller[s] /\ result'[s] = result[s]
        BY <2>1
      <3>2. QED
        BY <1>2, <2>5, <3>1, NoItemIsNone, QuietHolder DEF Undisturbed
    <2>7. QED
      BY <1>2, <2>2, <2>6, LocalKeepsDelivery
  <1>6. CASE WriteFails(s)
    <2>1. /\ writer[s] = "writing" /\ inHand' = [inHand EXCEPT ![s] = <<>>] /\ queue' = queue
          /\ writer' = [writer EXCEPT ![s] = "returning"] /\ poller' = poller
          /\ result' = [result EXCEPT ![s] = IF inHand[s][1].awaited THEN "err" ELSE result[s]]
      BY <1>6 DEF WriteFails, FailWrite, NotifySent, others, pollerVars
    <2>2. inHand'[s] = <<>> /\ Apart(s)
      BY <1>1, <1>2, <2>1, TypesOf DEF Apart, Elsewhere
    <2>3. result'[s] = result[s] \/ result[s] # "ok"
      <3>1. inHand[s][1] \in Range(inHand[s])
        BY <2>1, InHandEntry
      <3>2. inHand[s][1].awaited => result[s] = "none"
        BY <1>1, <3>1 DEF SessionOK, NoneAwaited
      <3>3. ~inHand[s][1].awaited => result'[s] = result[s]
        BY <1>1, <2>1, TypesOf
      <3>4. QED
        BY <3>2, <3>3
    <2>4. Entries(s)' \subseteq Entries(s)
      BY <2>1, <2>2, EmptyQueue DEF Entries
    <2>5. HolderOK(s, i)' /\ Held(s)' = Held(s)
      <3>1. poller'[s] = poller[s]
        BY <2>1
      <3>2. QED
        BY <1>2, <2>3, <2>4, <3>1, NoItemIsNone, QuietHolder DEF Undisturbed
    <2>6. QED
      BY <1>2, <2>2, <2>5, LocalKeepsDelivery
  <1>7. CASE \/ PeerCloses(s) \/ SocketCloses(s) \/ WriterSeesDone(s) \/ WriterReturns(s)
             \/ PollTick(s) \/ PollerStops(s) \/ PullFails(s) \/ PullDelayed(s)
    <2>1. /\ queue' = queue /\ inHand' = inHand /\ result' = result
          /\ \A t \in Sessions \ {s} : writer'[t] = writer[t] /\ poller'[t] = poller[t]
          /\ poller'[s] = poller[s] \/ (~Working(s) /\ ~Working(s)')
      <3>1. CASE PeerCloses(s) \/ SocketCloses(s) \/ WriterSeesDone(s) \/ WriterReturns(s)
        <4>1. /\ UNCHANGED <<queue, inHand, result, poller>>
              /\ writer' = writer \/ \E at \in {"returning", "stopped"} : writer' = [writer EXCEPT ![s] = at]
          BY <3>1 DEF PeerCloses, SocketCloses, CloseSocket, WriterSeesDone, SeeDone, WriterReturns, Return,
                      others, pollerVars
        <4>2. \A t \in Sessions \ {s} : writer'[t] = writer[t]
          BY <1>1, <4>1, TypesOf
        <4>3. QED
          BY <4>1, <4>2
      <3>2. CASE PollTick(s) \/ PollerStops(s) \/ PullFails(s) \/ PullDelayed(s)
        <4>1. /\ UNCHANGED <<queue, inHand, result, writer>> /\ poller[s] \in {"waiting", "pulling"}
              /\ \E at \in {"pulling", "stopped", "waiting"} : poller' = [poller EXCEPT ![s] = at]
          BY <3>2 DEF PollTick, PollerStops, PullFails, PullDelayed, sessionVars
        <4>2. ~Working(s) /\ ~Working(s)'
          BY <1>1, <4>1, TypesOf DEF Working
        <4>3. QED
          BY <1>1, <4>1, <4>2, TypesOf
      <3>3. QED
        BY <1>7, <3>1, <3>2
    <2>2. Apart(s) /\ Entries(s)' = Entries(s)
      BY <1>2, <2>1 DEF Apart, Elsewhere, Entries
    <2>3. HolderOK(s, i)' /\ Held(s)' = Held(s)
      BY <1>2, <2>1, <2>2, NoItemIsNone, QuietHolder DEF Undisturbed
    <2>4. QED
      BY <1>2, <2>2, <2>3, LocalKeepsDelivery
  <1>8. QED
    BY <1>3, <1>4, <1>5, <1>6, <1>7

\* The poller offers its item, gives up on it, or decides what to report about it.
LEMMA PollerDecides ==
    ASSUME Inv, NEW s \in Sessions, NEW i \in Items, i \notin suspect', Undisturbed(i),
           \/ OfferItem(s) \/ RejectItem(s) \/ OfferTimesOut(s) \/ OfferSeesDone(s)
           \/ TakeResult(s) \/ AwaitSeesDone(s)
    PROVE  Undisturbed(i)'
  <1>1. TypeOK /\ SessionOK(s) /\ HolderOK(s, i)
    BY InvParts DEF Undisturbed
  <1>2. CASE OfferItem(s)
    <2> DEFINE e == [item |-> current[s], awaited |-> TRUE]
    <2>1. /\ poller[s] = "offering" /\ queue' = [queue EXCEPT ![s] = Append(queue[s], e)]
          /\ result' = [result EXCEPT ![s] = "none"] /\ poller' = [poller EXCEPT ![s] = "awaiting"]
          /\ UNCHANGED <<writer, inHand, batch, current, report, writes, status, lockLeft, strays>>
      BY <1>2 DEF OfferItem, Put, storeVars, deliveryVars
    <2>2. e \in Entry /\ e.item = current[s] /\ e.awaited
      BY <1>1, <2>1 DEF SessionOK, Entry
    <2> HIDE DEF e
    <2>3. /\ queue'[s] = Append(queue[s], e) /\ queue[s] \in Seq(Entry) /\ poller'[s] = "awaiting"
          /\ Apart(s)
      BY <1>1, <2>1, TypesOf DEF Apart, Elsewhere
    <2>4. Range(Append(queue[s], e)) = Range(queue[s]) \cup {e}
      BY <2>2, <2>3, PutLast
    <2>5. Entries(s)' \subseteq Entries(s) \cup {e}
      BY <2>1, <2>3, <2>4 DEF Entries
    <2>6. ~Settling(s) /\ Working(s) /\ Working(s)'
      BY <1>1, <2>1, <2>3 DEF Settling, SessionOK, Working
    <2>7. HolderOK(s, i)'
      <3>1. \A d \in Entries(s)' : d.item = i => d.awaited
        BY <1>1, <2>2, <2>5 DEF HolderOK
      <3>2. QED
        BY <1>1, <2>1, <2>6, <3>1 DEF HolderOK
    <2>8. Held(s)' = Held(s) /\ Late(i)' = Late(i)
      BY <2>1, <2>6 DEF Held, Late
    <2>9. QED
      BY <2>1, <2>3, <2>7, <2>8, LocalKeepsDelivery
  <1>3. CASE RejectItem(s) \/ OfferTimesOut(s) \/ OfferSeesDone(s) \/ TakeResult(s) \/ AwaitSeesDone(s)
    <2>1. PICK op \in {"ack", "fail"}, rest \in SUBSET batch[s] :
            /\ StartReport(s, op, rest)
            /\ poller[s] = "awaiting" /\ result[s] = "ok" => op = "ack" \/ suspect' = suspect \cup {current[s]}
            /\ poller[s] \in {"offering", "awaiting"}
      BY <1>3 DEF RejectItem, OfferTimesOut, OfferSeesDone, TakeResult, AwaitSeesDone
    <2>2. /\ poller' = [poller EXCEPT ![s] = "reporting"]
          /\ report' = [report EXCEPT ![s] = op] /\ batch' = [batch EXCEPT ![s] = rest]
          /\ UNCHANGED <<current, strays, writes, status, lockLeft>>
      BY <2>1 DEF StartReport, storeVars
    <2>3. /\ poller'[s] = "reporting" /\ report'[s] = op /\ batch'[s] = rest
          /\ \A t \in Sessions \ {s} :
                poller'[t] = poller[t] /\ report'[t] = report[t] /\ batch'[t] = batch[t]
      BY <1>1, <2>2, TypesOf
    <2>4. /\ \A t \in Sessions \ {s} : queue'[t] = queue[t] /\ inHand'[t] = inHand[t]
          /\ UNCHANGED <<writer, result>>
          /\ \A e \in Entries(s)' : e.item = i => e \in Entries(s)
      <3>1. CASE AwaitSeesDone(s)
        <4>1. /\ queue' = [queue EXCEPT ![s] = Forsaken(queue[s])]
              /\ inHand' = [inHand EXCEPT ![s] = Forsaken(inHand[s])]
              /\ current[s] # i /\ UNCHANGED <<writer, result>>
          BY <3>1 DEF AwaitSeesDone
        <4>2. /\ queue'[s] = Forsaken(queue[s]) /\ inHand'[s] = Forsaken(inHand[s])
              /\ \A t \in Sessions \ {s} : queue'[t] = queue[t] /\ inHand'[t] = inHand[t]
          BY <1>1, <4>1, TypesOf
        <4>3. ASSUME NEW q \in Seq(Entry), Range(q) \subseteq Entries(s), NEW e \in Range(Forsaken(q))
              PROVE  e.item # i
          <5>1. PICK k \in DOMAIN q : e = [q[k] EXCEPT !.awaited = FALSE]
            BY <4>3 DEF Forsaken, Range
          <5>2. q[k] \in Range(q) /\ q[k] \in Entry
            BY ElementOfSeq, LenProperties DEF Range
          <5>3. e.item = q[k].item
            BY <5>1, <5>2 DEF Entry
          <5>4. q[k].awaited => q[k].item = current[s]
            BY <1>1, <4>3, <5>2 DEF SessionOK, Entries
          <5>5. q[k].item = i => q[k].awaited
            BY <1>1, <4>3, <5>2 DEF HolderOK
          <5>6. QED
            BY <4>1, <5>3, <5>4, <5>5
        <4>4. queue[s] \in Seq(Entry) /\ inHand[s] \in Seq(Entry)
          BY <1>1, TypesOf
        <4>5. /\ \A e \in Range(Forsaken(queue[s])) : e.item # i
              /\ \A e \in Range(Forsaken(inHand[s])) : e.item # i
          <5>1. Range(queue[s]) \subseteq Entries(s) /\ Range(inHand[s]) \subseteq Entries(s)
            BY DEF Entries
          <5>2. QED
            BY <4>3, <4>4, <5>1
        <4>6. \A e \in Entries(s)' : e.item # i
          BY <4>2, <4>5 DEF Entries
        <4>7. QED
          BY <4>1, <4>2, <4>6
      <3>2. CASE ~AwaitSeesDone(s)
        <4>1. UNCHANGED <<queue, inHand, writer, result>>
          BY <1>3, <3>2 DEF RejectItem, OfferTimesOut, OfferSeesDone, TakeResult, sessionVars
        <4>2. QED
          BY <4>1 DEF Entries
      <3>3. QED
        BY <3>1, <3>2
    <2>5. Apart(s)
      BY <2>2, <2>3, <2>4 DEF Apart, Elsewhere
    <2>6. Working(s) /\ Working(s)' /\ Held(s)' \subseteq Held(s) /\ Late(i)' = Late(i)
      BY <2>1, <2>2, <2>3 DEF Working, Held, Late
    <2>7. current[s] = i => writes[i] = 0 \/ op = "ack"
      <3>1. report[s] # "ack"
        BY <1>1, <2>1 DEF SessionOK
      <3>2. current[s] = i => writes[i] = 0 \/ (poller[s] = "awaiting" /\ result[s] = "ok")
        BY <1>1, <2>6, <3>1 DEF HolderOK, Settling
      <3>3. QED
        BY <2>1, <3>2
    <2>8. HolderOK(s, i)'
      <3>1. \A e \in Entries(s)' : e.item = i => e.awaited
        BY <1>1, <2>4 DEF HolderOK
      <3>2. op = "ack" => Settling(s)'
        BY <2>3 DEF Settling
      <3>3. i \in batch'[s] => writes[i] = 0 /\ current[s] # i
        BY <1>1, <2>3, <2>6 DEF HolderOK
      <3>4. QED
        BY <2>2, <2>7, <3>1, <3>2, <3>3 DEF HolderOK
    <2>9. QED
      BY <2>2, <2>5, <2>6, <2>8, LocalKeepsDelivery
  <1>4. QED
    BY <1>2, <1>3

\* The poller turns to the next item: it holds what it was given, and has reported.
LEMMA TurnHeld ==
    ASSUME TypeOK, NEW s \in Sessions, NEW items \in SUBSET Items, NextOf(s, items)
    PROVE  /\ Held(s)' = items /\ report'[s] = "none"
           /\ \A i \in batch'[s] : i \in items /\ ~(Working(s) /\ current[s] = i)'
           /\ \A t \in Sessions \ {s} :
                /\ poller'[t] = poller[t] /\ current'[t] = current[t] /\ batch'[t] = batch[t]
                /\ report'[t] = report[t] /\ result'[t] = result[t]
  <1>1. /\ report'[s] = "none"
        /\ \A t \in Sessions \ {s} : report'[t] = report[t] /\ result'[t] = result[t]
    BY TypesOf DEF NextOf
  <1>2. CASE items = {} /\ poller' = [poller EXCEPT ![s] = "waiting"]
             /\ current' = [current EXCEPT ![s] = NoItem] /\ batch' = [batch EXCEPT ![s] = {}]
    <2>1. poller'[s] = "waiting" /\ batch'[s] = {}
      BY <1>2, TypesOf
    <2>2. Held(s)' = items
      BY <1>2, <2>1 DEF Held, Working
    <2>3. \A t \in Sessions \ {s} :
            poller'[t] = poller[t] /\ current'[t] = current[t] /\ batch'[t] = batch[t]
      BY <1>2, TypesOf
    <2>4. QED
      BY <1>1, <2>1, <2>2, <2>3
  <1>3. ASSUME NEW i \in items, poller' = [poller EXCEPT ![s] = "offering"],
               current' = [current EXCEPT ![s] = i], batch' = [batch EXCEPT ![s] = items \ {i}]
        PROVE  /\ Held(s)' = items
               /\ \A j \in batch'[s] : j \in items /\ ~(Working(s) /\ current[s] = j)'
               /\ \A t \in Sessions \ {s} :
                    poller'[t] = poller[t] /\ current'[t] = current[t] /\ batch'[t] = batch[t]
    <2>1. poller'[s] = "offering" /\ current'[s] = i /\ batch'[s] = items \ {i}
      BY <1>3, TypesOf
    <2>2. Held(s)' = items
      BY <2>1 DEF Held, Working
    <2>3. \A t \in Sessions \ {s} :
            poller'[t] = poller[t] /\ current'[t] = current[t] /\ batch'[t] = batch[t]
      BY <1>3, TypesOf
    <2>4. QED
      BY <2>1, <2>2, <2>3
  <1>4. QED
    BY <1>1, <1>2, <1>3 DEF NextOf

LEMMA TurnApart ==
    ASSUME TypeOK, NEW s \in Sessions, NEW items \in SUBSET Items, NextOf(s, items),
           UNCHANGED sessionVars, NEW i \in Items, HolderOK(s, i), writes' = writes,
           i \in items => writes[i] = 0
    PROVE  Apart(s) /\ HolderOK(s, i)' /\ Held(s)' = items
  <1>1. queue' = queue /\ inHand' = inHand /\ writer' = writer
    BY DEF sessionVars
  <1>2. Apart(s) /\ Entries(s)' = Entries(s)
    BY <1>1, TurnHeld DEF Apart, Elsewhere, Entries
  <1>3. Held(s)' = items /\ (i \in batch'[s] => i \in items /\ ~(Working(s) /\ current[s] = i)')
    BY TurnHeld
  <1>4. (Working(s) /\ current[s] = i)' => i \in items
    BY <1>3 DEF Held
  <1>5. QED
    BY <1>2, <1>3, <1>4 DEF HolderOK

LEMMA ExecuteEffect ==
    ASSUME StoreTypeOK, NEW i \in Items, NEW j \in Items, NEW op, Execute(op, j)
    PROVE  \/ status'[i] = status[i] /\ lockLeft'[i] = lockLeft[i]
           \/ i = j /\ op = "ack" /\ status'[i] = "sent"
           \/ i = j /\ op = "fail" /\ status'[i] \in {"pending", "failed"}
  <1>1. DOMAIN status = Items /\ DOMAIN lockLeft = Items
    BY DEF StoreTypeOK
  <1>2. CASE op = "ack" /\ Ack(j)
    BY <1>1, <1>2 DEF Ack
  <1>3. CASE op = "fail" /\ Fail(j)
    BY <1>1, <1>3 DEF Fail
  <1>4. CASE UNCHANGED storeVars
    BY <1>4 DEF storeVars
  <1>5. QED
    BY <1>2, <1>3, <1>4 DEF Execute

\* Who is responsible for an item is the only one.
LEMMA HolderIsAlone ==
    ASSUME NEW s \in Sessions, NEW i \in Items, Undisturbed(i), i \in Held(s)
    PROVE  /\ status[i] = "processing" /\ lockLeft[i] > 0 /\ Late(i) = {}
           /\ \A t \in Sessions \ {s} : i \notin Held(t)
  BY DEF Undisturbed, OneDelivery

\* A call reports the poller's item: executed, late or lost, it is the only one.
LEMMA PollerReports ==
    ASSUME Inv, NEW s \in Sessions, NEW i \in Items, Undisturbed(i),
           ReportExecuted(s) \/ ReportLost(s) \/ ReportDelayed(s)
    PROVE  Undisturbed(i)'
  <1>1. TypeOK /\ SessionOK(s) /\ HolderOK(s, i)
    BY InvParts DEF Undisturbed
  <1>2. /\ poller[s] = "reporting" /\ NextOf(s, batch[s]) /\ UNCHANGED sessionVars /\ writes' = writes
        /\ batch[s] \in SUBSET Items
    BY <1>1, TypesOf DEF ReportExecuted, ReportLost, ReportDelayed, deliveryVars
  <1>3. /\ current[s] \in Items /\ Working(s) /\ report[s] \in {"ack", "fail"}
        /\ batch[s] \subseteq Held(s) /\ current[s] \in Held(s)
    BY <1>1, <1>2 DEF SessionOK, Working, Held, TypeOK
  <1>4. i \in batch[s] => writes[i] = 0 /\ current[s] # i
    BY <1>1, <1>3 DEF HolderOK
  <1>5. Apart(s) /\ HolderOK(s, i)' /\ Held(s)' = batch[s]
    BY <1>1, <1>2, <1>4, TurnApart
  <1>6. CASE status'[i] = status[i] /\ lockLeft'[i] = lockLeft[i] /\ Late(i)' = Late(i)
    BY <1>2, <1>3, <1>5, <1>6, LocalKeepsDelivery
  <1>7. ASSUME current[s] = i
        PROVE  /\ status[i] = "processing" /\ lockLeft[i] > 0 /\ Late(i) = {}
               /\ \A t \in Sessions : i \notin Held(t)'
               /\ \A t \in Sessions : HolderOK(t, i)'
               /\ report[s] = "fail" => writes[i] = 0
               /\ writes[i] <= 1
    <2>1. /\ status[i] = "processing" /\ lockLeft[i] > 0 /\ Late(i) = {}
          /\ \A t \in Sessions \ {s} : i \notin Held(t)
      BY <1>3, <1>7, HolderIsAlone
    <2>2. \A t \in Sessions \ {s} : Held(t)' = Held(t) /\ HolderOK(t, i)'
      BY <1>2, <1>5, ApartKeeps DEF Undisturbed
    <2>3. report[s] = "fail" => writes[i] = 0
      BY <1>1, <1>2, <1>3, <1>7 DEF HolderOK, Settling
    <2>4. writes[i] <= 1
      BY DEF Undisturbed, OneDelivery
    <2>5. QED
      BY <1>4, <1>5, <1>7, <2>1, <2>2, <2>3, <2>4
  <1>8. CASE ReportExecuted(s)
    <2>1. strays' = strays /\ Execute(report[s], current[s]) /\ StoreTypeOK
      BY <1>1, <1>8 DEF ReportExecuted, deliveryVars, TypeOK
    <2>2. Late(i)' = Late(i)
      BY <2>1 DEF Late
    <2>3. CASE i = current[s] /\ report[s] = "ack" /\ status'[i] = "sent"
      BY <1>2, <1>7, <2>2, <2>3 DEF Undisturbed, OneDelivery
    <2>4. CASE i = current[s] /\ report[s] = "fail" /\ status'[i] \in {"pending", "failed"}
      BY <1>2, <1>7, <2>2, <2>4 DEF Undisturbed, OneDelivery
    <2>5. QED
      BY <1>3, <1>6, <2>1, <2>2, <2>3, <2>4, ExecuteEffect
  <1>9. CASE ReportLost(s)
    <2>1. UNCHANGED <<status, lockLeft, strays>>
      BY <1>9 DEF ReportLost, storeVars, deliveryVars
    <2>2. QED
      BY <1>6, <2>1 DEF Late
  <1>10. CASE ReportDelayed(s)
    <2> DEFINE c == [op |-> report[s], item |-> current[s]]
    <2>1. UNCHANGED <<status, lockLeft>> /\ strays' = strays \cup {c}
      BY <1>10 DEF ReportDelayed, storeVars
    <2>2. CASE current[s] # i
      <3>1. Late(i)' = Late(i)
        BY <2>1, <2>2 DEF Late
      <3>2. QED
        BY <1>6, <2>1, <3>1
    <2>3. CASE current[s] = i
      <3>1. Late(i)' = {c} /\ c.op = report[s]
        BY <1>7, <2>1, <2>3 DEF Late
      <3> HIDE DEF c
      <3>2. c.op = "ack" \/ writes[i] = 0
        BY <1>3, <1>7, <2>3, <3>1
      <3>3. QED
        BY <1>2, <1>7, <2>1, <2>3, <3>1, <3>2 DEF Undisturbed, OneDelivery
    <2>4. QED
      BY <2>2, <2>3
  <1>11. QED
    BY <1>8, <1>9, <1>10

\* A pull hands out an item only when nobody is responsible for it.
LEMMA PulledIsFree ==
    ASSUME TypeOK, NEW i \in Items, Undisturbed(i), NEW skipped, Pull(skipped)
    PROVE  /\ i \in Picked(skipped) =>
                /\ status'[i] = "processing" /\ lockLeft'[i] > 0 /\ writes[i] = 0
                /\ Late(i) = {} /\ \A t \in Sessions : i \notin Held(t)
           /\ i \notin Picked(skipped) => status'[i] = status[i] /\ lockLeft'[i] = lockLeft[i]
  <1>1. CASE i \in Picked(skipped)
    <2>1. Pullable(i)
      BY <1>1, PickedIsPullable
    <2>2. lockLeft[i] \in 0..Lease \cup {NoLock} /\ Lease \in Nat \ {0}
      BY OutboxAssumption DEF TypeOK, StoreTypeOK
    <2>3. status[i] = "pending"
      <3>1. status[i] = "processing" => lockLeft[i] > 0
        BY DEF Undisturbed, OneDelivery
      <3>2. ~(lockLeft[i] <= 0 /\ lockLeft[i] > 0)
        BY <2>2 DEF NoLock
      <3>3. QED
        BY <2>1, <3>1, <3>2 DEF Pullable
    <2>4. status'[i] = "processing" /\ lockLeft'[i] > 0
      BY <1>1, <2>2 DEF Pull
    <2>5. writes[i] = 0 /\ Late(i) = {} /\ \A t \in Sessions : i \notin Held(t)
      BY <2>3 DEF Undisturbed, OneDelivery
    <2>6. QED
      BY <1>1, <2>4, <2>5
  <1>2. CASE i \notin Picked(skipped)
    BY <1>2 DEF Pull
  <1>3. QED
    BY <1>1, <1>2

LEMMA PollerPulls ==
    ASSUME Inv, NEW s \in Sessions, NEW i \in Items, Undisturbed(i), PullAnswered(s)
    PROVE  Undisturbed(i)'
  <1>1. TypeOK /\ HolderOK(s, i)
    BY InvParts DEF Undisturbed
  <1>2. PICK skipped \in SUBSET Contended : Pull(skipped) /\ NextOf(s, Picked(skipped))
    BY DEF PullAnswered
  <1> DEFINE granted == Picked(skipped)
  <1>3. UNCHANGED sessionVars /\ writes' = writes /\ Late(i)' = Late(i)
    BY DEF PullAnswered, deliveryVars, Late
  <1>4. granted \in SUBSET Items
    BY PickedIsPullable
  <1>5. /\ i \in granted =>
                /\ status'[i] = "processing" /\ lockLeft'[i] > 0 /\ writes[i] = 0
                /\ Late(i) = {} /\ \A t \in Sessions : i \notin Held(t)
        /\ i \notin granted => status'[i] = status[i] /\ lockLeft'[i] = lockLeft[i]
    BY <1>1, <1>2, PulledIsFree
  <1>6. Apart(s) /\ HolderOK(s, i)' /\ Held(s)' = granted
    BY <1>1, <1>2, <1>3, <1>4, <1>5, TurnApart
  <1> HIDE DEF granted
  <1>7. CASE i \in granted
    <2>1. \A t \in Sessions \ {s} : Held(t)' = Held(t) /\ HolderOK(t, i)'
      BY <1>3, <1>6, ApartKeeps DEF Undisturbed
    <2>2. \A t \in Sessions : i \in Held(t)' => t = s
      BY <1>5, <1>7, <2>1
    <2>3. \A t \in Sessions : HolderOK(t, i)'
      BY <1>6, <2>1
    <2>4. OneDelivery(i)'
      BY <1>3, <1>5, <1>7, <2>2 DEF OneDelivery
    <2>5. QED
      BY <2>3, <2>4 DEF Undisturbed
  <1>8. CASE i \notin granted
    BY <1>3, <1>5, <1>6, <1>8, LocalKeepsDelivery
  <1>9. QED
    BY <1>7, <1>8

\* A write of an item is the first, and its poller learns of it.
LEMMA WriterWrites ==
    ASSUME Inv, NEW s \in Sessions, NEW i \in Items, Undisturbed(i), WriteSucceeds(s)
    PROVE  Undisturbed(i)'
  <1> DEFINE e == inHand[s][1]
  <1>1. TypeOK /\ SessionOK(s) /\ HolderOK(s, i) /\ writes \in [Items -> 0..WriteCap]
    BY InvParts DEF Undisturbed, TypeOK
  <1>2. /\ writer[s] = "writing" /\ inHand' = [inHand EXCEPT ![s] = <<>>] /\ queue' = queue
        /\ writer' = [writer EXCEPT ![s] = "selecting"] /\ CountWrite(e.item)
        /\ result' = [result EXCEPT ![s] = IF e.awaited THEN "ok" ELSE result[s]]
        /\ UNCHANGED <<poller, batch, current, report, strays, status, lockLeft>>
    BY DEF WriteSucceeds, Write, NotifySent, pollerVars, storeVars
  <1>3. e \in Range(inHand[s])
    BY <1>2, InHandEntry
  <1>4. /\ inHand'[s] = <<>> /\ result'[s] = IF e.awaited THEN "ok" ELSE result[s]
        /\ Apart(s)
    BY <1>1, <1>2, TypesOf DEF Apart, Elsewhere
  <1> HIDE DEF e
  <1>5. Entries(s)' \subseteq Entries(s) /\ Held(s)' = Held(s) /\ Late(i)' = Late(i)
    BY <1>2, <1>4, EmptyQueue DEF Entries, Held, Working, Late
  <1>6. \A d \in Entries(s)' : d.item = i => d.awaited
    BY <1>1, <1>5 DEF HolderOK
  <1>7. Settling(s) => Settling(s)'
    BY <1>2, <1>4 DEF Settling
  <1>8. CASE e.item # i
    <2>1. writes'[i] = writes[i]
      BY <1>2, <1>8 DEF CountWrite
    <2>2. HolderOK(s, i)'
      BY <1>1, <1>2, <1>6, <1>7, <2>1 DEF HolderOK, Working
    <2>3. QED
      BY <1>2, <1>4, <1>5, <2>1, <2>2, LocalKeepsDelivery
  <1>9. CASE e.item = i
    <2>1. e.awaited
      BY <1>1, <1>3, <1>9 DEF HolderOK, Entries
    <2>2. poller[s] = "awaiting" /\ current[s] = i /\ result[s] = "none"
      BY <1>1, <1>3, <1>9, <2>1 DEF SessionOK, NoneAwaited, TypeOK
    <2>3. Working(s) /\ ~Settling(s) /\ i \in Held(s) /\ i \notin batch[s]
      BY <1>1, <2>2 DEF Working, Settling, SessionOK, Held, HolderOK
    <2>4. writes[i] = 0
      BY <1>1, <2>2, <2>3 DEF HolderOK
    <2>5. writes'[i] = 1
      <3>1. writes[i] < WriteCap
        BY <2>4, DeliveryAssumption
      <3>2. QED
        BY <1>2, <1>9, <2>4, <3>1 DEF CountWrite
    <2>6. /\ status[i] = "processing" /\ lockLeft[i] > 0 /\ Late(i) = {}
          /\ \A t \in Sessions \ {s} : i \notin Held(t)
      BY <2>3, HolderIsAlone
    <2>7. \A t \in Sessions \ {s} : Held(t)' = Held(t) /\ HolderOK(t, i)'
      BY <1>4, <2>6, ApartKeeps DEF Undisturbed
    <2>8. HolderOK(s, i)'
      <3>1. Settling(s)'
        BY <1>2, <1>4, <2>1, <2>2 DEF Settling
      <3>2. i \notin batch'[s]
        BY <1>2, <2>3
      <3>3. QED
        BY <1>6, <3>1, <3>2 DEF HolderOK
    <2>9. \A t \in Sessions : i \in Held(t)' => t = s
      BY <2>6, <2>7
    <2>10. OneDelivery(i)'
      BY <1>2, <1>5, <2>5, <2>6, <2>9 DEF OneDelivery
    <2>11. QED
      BY <2>7, <2>8, <2>10 DEF Undisturbed
  <1>10. QED
    BY <1>8, <1>9

\* After a restart nobody is responsible, but for one call that may be late.
LEMMA RestartForgets ==
    ASSUME Inv, NEW i \in Items, Undisturbed(i), GatewayRestarts
    PROVE  Undisturbed(i)'
  <1>1. TypeOK /\ \A s \in Sessions : SessionOK(s)
    BY InvParts
  <1>2. PICK late \in SUBSET InFlight : strays' = strays \cup late
    BY DEF GatewayRestarts
  <1>3. /\ UNCHANGED <<status, lockLeft, writes>>
        /\ \A t \in Sessions : /\ queue'[t] = <<>> /\ inHand'[t] = <<>> /\ batch'[t] = {}
                               /\ poller'[t] = "stopped"
    BY DEF GatewayRestarts, storeVars
  <1>4. \A t \in Sessions : i \notin Held(t)' /\ HolderOK(t, i)'
    BY <1>3, EmptyQueue DEF Held, Working, HolderOK, Entries
  <1>5. ASSUME NEW c \in late, c.item = i
        PROVE  \E s \in Sessions : /\ c = [op |-> report[s], item |-> i] /\ i \in Held(s)
                                   /\ report[s] = "ack" \/ writes[i] = 0
    <2>1. c # PullCall
      BY <1>5, NoItemIsNone DEF PullCall
    <2>2. PICK s \in Sessions : report[s] # "none" /\ c = [op |-> report[s], item |-> current[s]]
      BY <2>1 DEF InFlight
    <2>3. poller[s] = "reporting" /\ current[s] = i
      BY <1>1, <1>5, <2>2 DEF SessionOK
    <2>4. Working(s) /\ i \in Held(s) /\ HolderOK(s, i)
      BY <2>3 DEF Working, Held, Undisturbed
    <2>5. report[s] = "ack" \/ writes[i] = 0
      BY <2>3, <2>4 DEF HolderOK, Settling
    <2>6. QED
      BY <2>2, <2>3, <2>4, <2>5
  <1>6. Late(i)' = Late(i) \cup {c \in late : c.item = i}
    BY <1>2 DEF Late
  <1>7. CASE \A s \in Sessions : i \notin Held(s)
    <2>1. Late(i)' = Late(i)
      BY <1>5, <1>6, <1>7
    <2>2. QED
      BY <1>3, <1>4, <2>1 DEF Undisturbed, OneDelivery
  <1>8. ASSUME NEW s \in Sessions, i \in Held(s)
        PROVE  Undisturbed(i)'
    <2>1. /\ status[i] = "processing" /\ lockLeft[i] > 0 /\ Late(i) = {}
          /\ \A t \in Sessions \ {s} : i \notin Held(t)
      BY <1>8, HolderIsAlone
    <2>2. \A c \in Late(i)' : /\ c = [op |-> report[s], item |-> i]
                              /\ report[s] = "ack" \/ writes[i] = 0
      BY <1>5, <1>6, <2>1
    <2>3. \A c \in Late(i)' : c.op = "ack" \/ writes[i] = 0
      <3>1. \A c \in Late(i)' : c.op = report[s]
        BY <2>2
      <3>2. QED
        BY <2>2, <3>1
    <2>4. \A c, d \in Late(i)' : c = d
      BY <2>2
    <2>5. OneDelivery(i)'
      <3>1. writes[i] <= 1
        BY DEF Undisturbed, OneDelivery
      <3>2. QED
        BY <1>3, <1>4, <2>1, <2>3, <2>4, <3>1 DEF OneDelivery
    <2>6. QED
      BY <1>4, <2>5 DEF Undisturbed
  <1>9. QED
    BY <1>7, <1>8

\* Statements on the table, the clock and late calls.
LEMMA TableKeepsDelivery ==
    ASSUME NEW i \in Items, Undisturbed(i),
           UNCHANGED <<queue, inHand, poller, batch, current, report, result, writes>>,
           Late(i)' \subseteq Late(i),
           status'[i] = "processing" => lockLeft'[i] > 0,
           status'[i] \in {"absent", "pending"} => writes[i] = 0,
           status'[i] = "processing" \/ status'[i] = status[i]
                \/ (Late(i)' = {} /\ \A t \in Sessions : i \notin Held(t))
    PROVE  Undisturbed(i)'
  <1>1. \A t \in Sessions : HolderOK(t, i)' /\ Held(t)' = Held(t)
    BY DEF Undisturbed, HolderOK, Held, Entries, Working, Settling
  <1>2. OneDelivery(i)'
    BY <1>1 DEF Undisturbed, OneDelivery
  <1>3. QED
    BY <1>1, <1>2 DEF Undisturbed

LEMMA StrayKeepsDelivery ==
    ASSUME Inv, NEW i \in Items, Undisturbed(i), NEW c \in strays, StrayExecuted(c) \/ StrayDropped(c)
    PROVE  Undisturbed(i)'
  <1>1. TypeOK /\ StoreTypeOK
    BY DEF Inv, TypeOK
  <1>2. /\ strays' = strays \ {c}
        /\ UNCHANGED <<queue, inHand, poller, batch, current, report, result, writes>>
    BY DEF StrayExecuted, StrayDropped, sessionVars, pollerVars
  <1>3. Late(i)' = Late(i) \ {c}
    BY <1>2 DEF Late
  <1>4. CASE StrayDropped(c)
    <2>1. UNCHANGED <<status, lockLeft>>
      BY <1>4 DEF StrayDropped, storeVars
    <2>2. QED
      BY <1>2, <1>3, <2>1, TableKeepsDelivery DEF Undisturbed, OneDelivery
  <1>5. CASE StrayExecuted(c) /\ c.op = "pull"
    <2>1. PICK skipped \in SUBSET Contended : Pull(skipped)
      BY <1>5 DEF StrayExecuted
    <2>2. /\ i \in Picked(skipped) =>
                /\ status'[i] = "processing" /\ lockLeft'[i] > 0
                /\ Late(i) = {} /\ \A t \in Sessions : i \notin Held(t)
          /\ i \notin Picked(skipped) => status'[i] = status[i] /\ lockLeft'[i] = lockLeft[i]
      BY <1>1, <2>1, PulledIsFree
    <2>3. QED
      BY <1>2, <1>3, <2>2, TableKeepsDelivery DEF Undisturbed, OneDelivery
  <1>6. CASE StrayExecuted(c) /\ c.op # "pull"
    <2>1. c.item \in Items /\ Execute(c.op, c.item)
      BY <1>1, <1>6 DEF StrayExecuted, TypeOK, Call, PullCall
    <2>2. c.item = i =>
            /\ Late(i) = {c} /\ (\A t \in Sessions : i \notin Held(t))
            /\ c.op = "fail" => writes[i] = 0
      BY DEF Undisturbed, OneDelivery, Late
    <2>3. \/ status'[i] = status[i] /\ lockLeft'[i] = lockLeft[i]
          \/ i = c.item /\ c.op = "ack" /\ status'[i] = "sent"
          \/ i = c.item /\ c.op = "fail" /\ status'[i] \in {"pending", "failed"}
      BY <1>1, <2>1, ExecuteEffect
    <2>4. CASE status'[i] = status[i] /\ lockLeft'[i] = lockLeft[i]
      BY <1>2, <1>3, <2>4, TableKeepsDelivery DEF Undisturbed, OneDelivery
    <2>5. CASE i = c.item /\ c.op = "ack" /\ status'[i] = "sent"
      BY <1>2, <1>3, <2>2, <2>5, TableKeepsDelivery
    <2>6. CASE i = c.item /\ c.op = "fail" /\ status'[i] \in {"pending", "failed"}
      BY <1>2, <1>3, <2>2, <2>6, TableKeepsDelivery
    <2>7. QED
      BY <2>3, <2>4, <2>5, <2>6
  <1>7. QED
    BY <1>4, <1>5, <1>6

LEMMA RowOf ==
    ASSUME NEW i \in Items, Undisturbed(i)
    PROVE  /\ status[i] = "processing" => lockLeft[i] > 0
           /\ status[i] \in {"absent", "pending"} => writes[i] = 0
  BY DEF Undisturbed, OneDelivery

LEMMA FreshStep ==
    ASSUME Inv, Fresh, [Next]_vars
    PROVE  Fresh'
  <1>1. TypeOK
    BY DEF Inv
  <1>2. suspect \subseteq suspect'
    <2>1. UNCHANGED suspect \/ TimePasses \/ \E s \in Sessions : AwaitSeesDone(s)
      <3>1. CASE UNCHANGED vars
        BY <3>1 DEF vars, deliveryVars
      <3>2. CASE Produce \/ StrayStep \/ GatewayRestarts
        BY <3>2 DEF Produce, StrayStep, StrayExecuted, StrayDropped, GatewayRestarts, deliveryVars
      <3>3. ASSUME NEW s \in Sessions,
                   \/ Connect(s) \/ PeerCloses(s) \/ SocketCloses(s) \/ WorkerReplies(s)
                   \/ WriterTakes(s) \/ WriteSucceeds(s) \/ WriteFails(s) \/ WriterSeesDone(s)
                   \/ WriterReturns(s)
            PROVE  UNCHANGED suspect
        BY <3>3 DEF Connect, PeerCloses, SocketCloses, WorkerReplies, WriterTakes, WriteSucceeds,
                    WriteFails, WriterSeesDone, WriterReturns, others, deliveryVars
      <3>4. ASSUME NEW s \in Sessions,
                   \/ PollTick(s) \/ PollerStops(s) \/ PullAnswered(s) \/ PullDelayed(s)
                   \/ PullFails(s) \/ RejectItem(s) \/ OfferItem(s) \/ OfferTimesOut(s)
                   \/ OfferSeesDone(s) \/ TakeResult(s)
                   \/ ReportExecuted(s) \/ ReportLost(s) \/ ReportDelayed(s)
            PROVE  UNCHANGED suspect
        BY <3>4 DEF PollTick, PollerStops, PullAnswered, PullDelayed, PullFails, RejectItem,
                    OfferItem, OfferTimesOut, OfferSeesDone, TakeResult, ReportExecuted,
                    ReportLost, ReportDelayed, deliveryVars
      <3>5. QED
        BY <3>1, <3>2, <3>3, <3>4
           DEF Next, Work, Disturbance, SessionStep, PollerStep, WriterStep
    <2>2. QED
      BY <2>1 DEF TimePasses, AwaitSeesDone
  <1>3. SUFFICES ASSUME NEW i \in Items, i \notin suspect', Undisturbed(i)
                 PROVE  Undisturbed(i)'
    BY <1>2 DEF Fresh
  <1>4. CASE UNCHANGED vars
    <2>1. /\ UNCHANGED <<queue, inHand, poller, batch, current, report, result, writes>>
          /\ UNCHANGED <<status, lockLeft, strays>>
      BY <1>4 DEF vars, storeVars, sessionVars, pollerVars, deliveryVars
    <2>2. Late(i)' = Late(i)
      BY <2>1 DEF Late
    <2>3. /\ status'[i] = "processing" => lockLeft'[i] > 0
          /\ status'[i] \in {"absent", "pending"} => writes[i] = 0
      BY <1>3, <2>1, RowOf
    <2>4. status'[i] = status[i] /\ Late(i)' \subseteq Late(i)
      BY <2>1, <2>2
    <2>5. QED
      BY <1>3, <2>1, <2>3, <2>4, TableKeepsDelivery
  <1>5. CASE Produce
    <2>1. PICK j \in Items, m \in MaxAttempts : Enqueue(j, m)
      BY <1>5 DEF Produce
    <2>2. /\ UNCHANGED <<queue, inHand, poller, batch, current, report, result, writes>>
          /\ Late(i)' = Late(i)
      BY <1>5 DEF Produce, sessionVars, pollerVars, deliveryVars, Late
    <2>3. \/ status'[i] = status[i]
          \/ status[i] = "absent" /\ status'[i] = "pending"
      BY <1>1, <2>1 DEF Enqueue, TypeOK, StoreTypeOK
    <2>4. lockLeft' = lockLeft
      BY <2>1 DEF Enqueue
    <2>5. /\ status'[i] = "processing" => lockLeft'[i] > 0
          /\ status'[i] \in {"absent", "pending"} => writes[i] = 0
      BY <1>3, <2>3, <2>4, RowOf
    <2>6. status'[i] = status[i] \/ (Late(i)' = {} /\ \A t \in Sessions : i \notin Held(t))
      BY <1>3, <2>2, <2>3 DEF Undisturbed, OneDelivery
    <2>7. Late(i)' \subseteq Late(i)
      BY <2>2
    <2>8. QED
      BY <1>3, <2>2, <2>5, <2>6, <2>7, TableKeepsDelivery
  <1>6. CASE TimePasses
    <2>1. /\ UNCHANGED <<queue, inHand, poller, batch, current, report, result, writes, status>>
          /\ Late(i)' = Late(i)
      BY <1>6 DEF TimePasses, Tick, sessionVars, pollerVars, Late
    <2>2. lockLeft[i] # 1 /\ lockLeft'[i] = Elapse(lockLeft[i]) /\ lockLeft[i] \in Int
      BY <1>1, <1>3, <1>6, OutboxAssumption DEF TimePasses, Tick, TypeOK, StoreTypeOK, NoLock
    <2>3. lockLeft[i] > 0 => lockLeft'[i] > 0
      BY <2>2 DEF Elapse
    <2>4. /\ status'[i] = "processing" => lockLeft'[i] > 0
          /\ status'[i] \in {"absent", "pending"} => writes[i] = 0
      BY <1>3, <2>1, <2>3, RowOf
    <2>5. status'[i] = status[i] /\ Late(i)' \subseteq Late(i)
      BY <2>1
    <2>6. QED
      BY <1>3, <2>1, <2>4, <2>5, TableKeepsDelivery
  <1>7. CASE StrayStep
    BY <1>3, <1>7, StrayKeepsDelivery DEF StrayStep
  <1>8. CASE GatewayRestarts
    BY <1>3, <1>8, RestartForgets
  <1>9. QED
    BY <1>3, <1>4, <1>5, <1>6, <1>7, <1>8, QuietStep, PollerDecides, PollerReports, PollerPulls, WriterWrites
       DEF Next, Work, Disturbance, SessionStep, PollerStep, WriterStep

\* DuplicateHasCause: an item whose lease never ran out, and whose poller always
\* learnt what became of its write, is written at most once, whatever calls are
\* lost or late, however sessions and the Gateway come and go.
THEOREM DuplicatesHaveCause == Spec => []DuplicateHasCause
  <1>1. Init => Fresh
    <2> SUFFICES ASSUME Init, NEW i \in Items
                 PROVE  Undisturbed(i)
      BY DEF Fresh
    <2>1. \A s \in Sessions : HolderOK(s, i) /\ i \notin Held(s)
      BY EmptyQueue DEF Init, SessionInit, HolderOK, Held, Working, Entries
    <2>2. Late(i) = {} /\ status[i] = "absent" /\ writes[i] = 0
      BY DEF Init, StoreInit, Late
    <2>3. QED
      BY <2>1, <2>2 DEF Undisturbed, OneDelivery
  <1>2. Inv /\ Fresh /\ [Next]_vars => Fresh'
    BY FreshStep
  <1>3. Inv /\ Fresh => DuplicateHasCause
    <2> SUFFICES ASSUME Inv, Fresh, NEW i \in Items, writes[i] > 1
                 PROVE  i \in suspect
      BY DEF DuplicateHasCause
    <2>1. writes[i] \in Nat
      BY DeliveryAssumption DEF Inv, TypeOK
    <2>2. QED
      BY <2>1 DEF Fresh, Undisturbed, OneDelivery
  <1>4. QED
    BY <1>1, <1>2, <1>3, DeliveryInvariant, PTL DEF Spec

-----------------------------------------------------------------------------
(* Delivery implements its promise. *)

Stored == {i \in Items : status[i] # "absent"}

\* Pollers hold items that are in the table, and sessions write nothing else.
HeldStored ==
    \A s \in Sessions :
        /\ Held(s) \subseteq Stored
        /\ \A e \in Entries(s) : e.item = NoItem \/ e.item \in Stored

LEMMA StoredGrows ==
    ASSUME StoreTypeOK, [StoreNext]_storeVars
    PROVE  Stored \subseteq Stored'
  BY DEF StoreTypeOK, StoreNext, storeVars, Enqueue, Pull, Ack, Fail, Tick, Stored

\* The poller keeps what it holds, lets go of it, or holds what it just pulled.
LEMMA HeldIsOld ==
    ASSUME Inv, [Next]_vars, NEW t \in Sessions
    PROVE  Held(t)' \subseteq Held(t) \cup Stored'
  <1>1. TypeOK
    BY DEF Inv
  <1>2. CASE UNCHANGED pollerVars
    BY <1>2 DEF pollerVars, Held, Working
  <1>3. ASSUME NEW s \in Sessions,
               \/ Connect(s) \/ PollTick(s) \/ PollerStops(s) \/ PullFails(s) \/ PullDelayed(s)
               \/ OfferItem(s) \/ RejectItem(s) \/ OfferTimesOut(s) \/ OfferSeesDone(s)
               \/ TakeResult(s) \/ AwaitSeesDone(s)
        PROVE  Held(t)' \subseteq Held(t)
    <2> DEFINE Steps == {"waiting", "pulling", "stopped", "awaiting", "reporting"}
    <2>1. /\ current' = current
          /\ \E at \in Steps : /\ poller' = [poller EXCEPT ![s] = at]
                               /\ at \in {"waiting", "pulling", "stopped"} \/ Working(s)
          /\ \E rest \in SUBSET batch[s] : batch' = [batch EXCEPT ![s] = rest]
      <3>1. CASE Connect(s) \/ PollTick(s) \/ PollerStops(s) \/ PullFails(s) \/ PullDelayed(s)
                    \/ OfferItem(s)
        <4>1. batch' = batch /\ current' = current
          BY <3>1 DEF Connect, PollTick, PollerStops, PullFails, PullDelayed, OfferItem
        <4>2. \E rest \in SUBSET batch[s] : batch' = [batch EXCEPT ![s] = rest]
          <5>1. batch' = [batch EXCEPT ![s] = batch[s]]
            BY <1>1, <4>1, TypesOf
          <5>2. QED
            BY <5>1
        <4>3. \E at \in Steps : /\ poller' = [poller EXCEPT ![s] = at]
                                /\ at \in {"waiting", "pulling", "stopped"} \/ Working(s)
          BY <3>1 DEF Connect, PollTick, PollerStops, PullFails, PullDelayed, OfferItem, Working
        <4>4. QED
          BY <4>1, <4>2, <4>3
      <3>2. CASE RejectItem(s) \/ OfferTimesOut(s) \/ OfferSeesDone(s) \/ TakeResult(s)
                    \/ AwaitSeesDone(s)
        <4>1. PICK op \in {"ack", "fail"}, rest \in SUBSET batch[s] :
                StartReport(s, op, rest) /\ poller[s] \in {"offering", "awaiting"}
          BY <3>2 DEF RejectItem, OfferTimesOut, OfferSeesDone, TakeResult, AwaitSeesDone
        <4>2. /\ current' = current /\ poller' = [poller EXCEPT ![s] = "reporting"]
              /\ batch' = [batch EXCEPT ![s] = rest] /\ Working(s)
          BY <4>1 DEF StartReport, Working
        <4>3. QED
          BY <4>2
      <3>3. QED
        BY <1>3, <3>1, <3>2
    <2>2. PICK at \in Steps, rest \in SUBSET batch[s] :
            /\ poller' = [poller EXCEPT ![s] = at]
            /\ at \in {"waiting", "pulling", "stopped"} \/ Working(s)
            /\ batch' = [batch EXCEPT ![s] = rest]
      BY <2>1
    <2>3. CASE t = s
      <3>1. poller'[s] = at /\ batch'[s] = rest
        BY <1>1, <2>2, TypesOf
      <3>2. Working(s)' => Working(s)
        BY <2>2, <3>1 DEF Working
      <3>3. QED
        BY <2>1, <2>3, <3>1, <3>2 DEF Held
    <2>4. CASE t # s
      <3>1. poller'[t] = poller[t] /\ batch'[t] = batch[t]
        BY <1>1, <2>2, <2>4, TypesOf
      <3>2. QED
        BY <2>1, <3>1 DEF Held, Working
    <2>5. QED
      BY <2>3, <2>4
  <1>4. ASSUME NEW s \in Sessions, NEW items \in SUBSET Items, NextOf(s, items),
               items \subseteq batch[s] \cup Stored'
        PROVE  Held(t)' \subseteq Held(t) \cup Stored'
    <2>1. /\ Held(s)' = items
          /\ \A u \in Sessions \ {s} :
                poller'[u] = poller[u] /\ current'[u] = current[u] /\ batch'[u] = batch[u]
      BY <1>1, <1>4, TurnHeld
    <2>2. t # s => Held(t)' = Held(t)
      BY <2>1 DEF Held, Working
    <2>3. QED
      BY <1>4, <2>1, <2>2 DEF Held
  <1>5. ASSUME NEW s \in Sessions, PullAnswered(s)
        PROVE  Held(t)' \subseteq Held(t) \cup Stored'
    <2>1. PICK skipped \in SUBSET Contended : Pull(skipped) /\ NextOf(s, Picked(skipped))
      BY <1>5 DEF PullAnswered
    <2>2. Picked(skipped) \in SUBSET Items
      BY PickedIsPullable
    <2>3. Picked(skipped) \subseteq Stored'
      BY <2>1, <2>2 DEF Pull, Stored
    <2>4. QED
      BY <1>4, <2>1, <2>2, <2>3
  <1>6. ASSUME NEW s \in Sessions, ReportExecuted(s) \/ ReportLost(s) \/ ReportDelayed(s)
        PROVE  Held(t)' \subseteq Held(t) \cup Stored'
    <2>1. NextOf(s, batch[s])
      BY <1>6 DEF ReportExecuted, ReportLost, ReportDelayed
    <2>2. batch[s] \in SUBSET Items
      BY <1>1, TypesOf
    <2>3. QED
      BY <1>4, <2>1, <2>2
  <1>7. CASE GatewayRestarts
    <2>1. poller'[t] = "stopped" /\ batch'[t] = {}
      BY <1>7 DEF GatewayRestarts
    <2>2. QED
      BY <2>1 DEF Held, Working
  <1>8. UNCHANGED vars \/ Produce \/ TimePasses \/ StrayStep => UNCHANGED pollerVars
    BY DEF vars, Produce, TimePasses, StrayStep, StrayExecuted, StrayDropped
  <1>9. ASSUME NEW s \in Sessions,
               \/ PeerCloses(s) \/ SocketCloses(s) \/ WorkerReplies(s) \/ WriterTakes(s)
               \/ WriteSucceeds(s) \/ WriteFails(s) \/ WriterSeesDone(s) \/ WriterReturns(s)
        PROVE  UNCHANGED pollerVars
    BY <1>9 DEF PeerCloses, SocketCloses, WorkerReplies, WriterTakes, WriteSucceeds, WriteFails,
                WriterSeesDone, WriterReturns, others
  <1>10. QED
    BY <1>2, <1>3, <1>5, <1>6, <1>7, <1>8, <1>9
       DEF Next, Work, Disturbance, SessionStep, PollerStep, WriterStep

\* An entry is of an item the poller holds, or of no item, when it comes in.
LEMMA EntriesAreOld ==
    ASSUME Inv, [Next]_vars, NEW t \in Sessions, NEW e \in Entries(t)'
    PROVE  e.item = NoItem \/ e.item \in Held(t) \/ \E d \in Entries(t) : e.item = d.item
  <1>1. TypeOK /\ \A s \in Sessions : SessionOK(s)
    BY InvParts
  <1>2. queue[t] \in Seq(Entry) /\ inHand[t] \in Seq(Entry)
    BY <1>1, TypesOf
  <1>3. CASE queue'[t] = queue[t] /\ inHand'[t] = inHand[t]
    BY <1>3 DEF Entries
  <1>4. ASSUME NEW s \in Sessions, Connect(s)
        PROVE  Entries(t)' \subseteq Entries(t)
    <2>1. queue' = [queue EXCEPT ![s] = <<>>] /\ inHand' = inHand
      BY <1>4 DEF Connect, Open
    <2>2. queue'[t] = <<>> \/ queue'[t] = queue[t]
      BY <1>1, <2>1, TypesOf
    <2>3. QED
      BY <2>1, <2>2, EmptyQueue DEF Entries
  <1>5. ASSUME NEW s \in Sessions, NEW d \in Entry, queue' = [queue EXCEPT ![s] = Append(queue[s], d)],
               inHand' = inHand, t # s \/ d.item = NoItem \/ d.item \in Held(t)
        PROVE  e.item = NoItem \/ e.item \in Held(t) \/ e \in Entries(t)
    <2>1. queue'[s] = Append(queue[s], d) /\ (t # s => queue'[t] = queue[t])
      BY <1>1, <1>5, TypesOf
    <2>2. t = s => Range(queue'[t]) = Range(queue[t]) \cup {d}
      BY <1>2, <2>1, PutLast
    <2>3. QED
      BY <1>5, <2>1, <2>2 DEF Entries
  <1>6. ASSUME NEW s \in Sessions, WorkerReplies(s)
        PROVE  e.item = NoItem \/ e.item \in Held(t) \/ e \in Entries(t)
    <2>1. Reply \in Entry /\ Reply.item = NoItem
      BY DEF Reply, Entry
    <2>2. queue' = [queue EXCEPT ![s] = Append(queue[s], Reply)] /\ inHand' = inHand
      BY <1>6 DEF WorkerReplies, Put
    <2>3. QED
      BY <1>5, <2>1, <2>2
  <1>7. ASSUME NEW s \in Sessions, OfferItem(s)
        PROVE  e.item = NoItem \/ e.item \in Held(t) \/ e \in Entries(t)
    <2> DEFINE d == [item |-> current[s], awaited |-> TRUE]
    <2>1. /\ queue' = [queue EXCEPT ![s] = Append(queue[s], d)] /\ inHand' = inHand
          /\ poller[s] = "offering"
      BY <1>7 DEF OfferItem, Put
    <2>2. current[s] \in Items /\ current[s] \in Held(s)
      BY <1>1, <2>1 DEF SessionOK, Held, Working
    <2>3. d \in Entry /\ d.item \in Held(s)
      BY <2>2 DEF Entry
    <2> HIDE DEF d
    <2>4. QED
      BY <1>5, <2>1, <2>3
  <1>8. ASSUME NEW s \in Sessions, WriterTakes(s)
        PROVE  Entries(t)' \subseteq Entries(t)
    <2>1. /\ queue[s] # <<>> /\ queue' = [queue EXCEPT ![s] = Tail(queue[s])]
          /\ inHand' = [inHand EXCEPT ![s] = <<Head(queue[s])>>]
      BY <1>8 DEF WriterTakes, Take
    <2>2. CASE t = s
      <3>1. queue'[t] = Tail(queue[t]) /\ inHand'[t] = <<Head(queue[t])>>
        BY <1>1, <2>1, <2>2, TypesOf
      <3>2. Head(queue[t]) \in Range(queue[t]) /\ Range(Tail(queue[t])) \subseteq Range(queue[t])
        BY <1>2, <2>1, <2>2, TakeHead
      <3>3. Range(inHand'[t]) = {Head(queue[t])}
        BY <3>1 DEF Range
      <3>4. QED
        BY <3>1, <3>2, <3>3 DEF Entries
    <2>3. CASE t # s
      <3>1. queue'[t] = queue[t] /\ inHand'[t] = inHand[t]
        BY <1>1, <2>1, <2>3, TypesOf
      <3>2. QED
        BY <3>1 DEF Entries
    <2>4. QED
      BY <2>2, <2>3
  <1>9. ASSUME NEW s \in Sessions, WriteSucceeds(s) \/ WriteFails(s)
        PROVE  Entries(t)' \subseteq Entries(t)
    <2>1. queue' = queue /\ inHand' = [inHand EXCEPT ![s] = <<>>]
      BY <1>9 DEF WriteSucceeds, WriteFails, Write, FailWrite
    <2>2. inHand'[t] = <<>> \/ inHand'[t] = inHand[t]
      BY <1>1, <2>1, TypesOf
    <2>3. QED
      BY <2>1, <2>2, EmptyQueue DEF Entries
  <1>10. ASSUME NEW s \in Sessions, AwaitSeesDone(s)
         PROVE  \E d \in Entries(t) : e.item = d.item
    <2>1. /\ queue' = [queue EXCEPT ![s] = Forsaken(queue[s])]
          /\ inHand' = [inHand EXCEPT ![s] = Forsaken(inHand[s])]
      BY <1>10 DEF AwaitSeesDone
    <2>2. \/ queue'[t] = Forsaken(queue[t]) /\ inHand'[t] = Forsaken(inHand[t])
          \/ queue'[t] = queue[t] /\ inHand'[t] = inHand[t]
      BY <1>1, <2>1, TypesOf
    <2>3. ASSUME NEW q \in Seq(Entry), NEW f \in Range(Forsaken(q))
          PROVE  \E d \in Range(q) : f.item = d.item
      <3>1. PICK k \in DOMAIN q : f = [q[k] EXCEPT !.awaited = FALSE]
        BY <2>3 DEF Forsaken, Range
      <3>2. q[k] \in Range(q) /\ q[k] \in Entry
        BY ElementOfSeq, LenProperties DEF Range
      <3>3. f.item = q[k].item
        BY <3>1, <3>2 DEF Entry
      <3>4. QED
        BY <3>2, <3>3
    <2>4. CASE e \in Range(queue'[t])
      <3>1. \E d \in Range(queue[t]) : e.item = d.item
        BY <1>2, <2>2, <2>3, <2>4
      <3>2. QED
        BY <3>1 DEF Entries
    <2>5. CASE e \in Range(inHand'[t])
      <3>1. \E d \in Range(inHand[t]) : e.item = d.item
        BY <1>2, <2>2, <2>3, <2>5
      <3>2. QED
        BY <3>1 DEF Entries
    <2>6. QED
      BY <2>4, <2>5 DEF Entries
  <1>11. CASE GatewayRestarts
    <2>1. queue'[t] = <<>> /\ inHand'[t] = <<>>
      BY <1>11 DEF GatewayRestarts
    <2>2. QED
      BY <2>1, EmptyQueue DEF Entries
  <1>12. UNCHANGED vars \/ Produce \/ TimePasses \/ StrayStep => UNCHANGED <<queue, inHand>>
    BY DEF vars, Produce, TimePasses, StrayStep, StrayExecuted, StrayDropped, sessionVars
  <1>13. ASSUME NEW s \in Sessions,
                \/ PeerCloses(s) \/ SocketCloses(s) \/ WriterSeesDone(s) \/ WriterReturns(s)
                \/ PollTick(s) \/ PollerStops(s) \/ PullFails(s) \/ PullDelayed(s)
         PROVE  UNCHANGED <<queue, inHand>>
    BY <1>13 DEF PeerCloses, SocketCloses, CloseSocket, WriterSeesDone, SeeDone, WriterReturns, Return,
                 PollTick, PollerStops, PullFails, PullDelayed, sessionVars
  <1>14. ASSUME NEW s \in Sessions,
                \/ PullAnswered(s) \/ RejectItem(s) \/ OfferTimesOut(s) \/ OfferSeesDone(s)
                \/ TakeResult(s) \/ ReportExecuted(s) \/ ReportLost(s) \/ ReportDelayed(s)
         PROVE  UNCHANGED <<queue, inHand>>
    BY <1>14 DEF PullAnswered, RejectItem, OfferTimesOut, OfferSeesDone, TakeResult,
                 ReportExecuted, ReportLost, ReportDelayed, sessionVars
  <1>15. QED
    BY <1>3, <1>4, <1>6, <1>7, <1>8, <1>9, <1>10, <1>11, <1>12, <1>13, <1>14
       DEF Next, Work, Disturbance, SessionStep, PollerStep, WriterStep

LEMMA HeldStoredStep ==
    ASSUME Inv, HeldStored, [Next]_vars
    PROVE  HeldStored'
  <1>1. Stored \subseteq Stored'
    BY StoreStep, StoredGrows DEF Inv, TypeOK
  <1>2. ASSUME NEW t \in Sessions
        PROVE  Held(t)' \subseteq Stored'
    BY <1>1, HeldIsOld DEF HeldStored
  <1>3. ASSUME NEW t \in Sessions, NEW e \in Entries(t)'
        PROVE  e.item = NoItem \/ e.item \in Stored'
    <2>1. e.item = NoItem \/ e.item \in Held(t) \/ \E d \in Entries(t) : e.item = d.item
      BY <1>3, EntriesAreOld
    <2>2. QED
      BY <1>1, <2>1 DEF HeldStored
  <1>4. QED
    BY <1>2, <1>3 DEF HeldStored

\* The state of the promise, and a step of it, written out.
Outcome == [i \in Items |-> IF status[i] \in Live THEN "queued" ELSE status[i]]
Transmitted == {i \in Items : writes[i] > 0}

Accepts(i) ==
    /\ Outcome[i] = "absent" /\ Outcome' = [Outcome EXCEPT ![i] = "queued"]
    /\ \E m \in MaxAttempts : maxAttempts' = [maxAttempts EXCEPT ![i] = m]
    /\ UNCHANGED <<attempts, Transmitted>>

Transmits(i) ==
    /\ Outcome[i] # "absent" /\ Transmitted' = Transmitted \cup {i}
    /\ UNCHANGED <<Outcome, maxAttempts, attempts>>

Succeeds(i) ==
    /\ Outcome[i] = "queued" /\ i \in Transmitted
    /\ Outcome' = [Outcome EXCEPT ![i] = "sent"]
    /\ UNCHANGED <<maxAttempts, attempts, Transmitted>>

Misses(i) ==
    /\ Outcome[i] = "queued" /\ attempts' = [attempts EXCEPT ![i] = attempts[i] + 1]
    /\ Outcome' = [Outcome EXCEPT ![i] =
                    IF attempts'[i] = maxAttempts[i] THEN "failed" ELSE Outcome[i]]
    /\ UNCHANGED <<maxAttempts, Transmitted>>

Stutters == UNCHANGED <<Outcome, maxAttempts, attempts, Transmitted>>

PromisedStep ==
    Stutters \/ \E i \in Items : Accepts(i) \/ Transmits(i) \/ Succeeds(i) \/ Misses(i)

\* A write transmits the item of the entry, or nothing when it is a reply.
LEMMA WritesArePromised ==
    ASSUME Inv, HeldStored, NEW s \in Sessions, WriteSucceeds(s)
    PROVE  PromisedStep
  <1> DEFINE i == inHand[s][1].item
  <1>1. writer[s] = "writing" /\ CountWrite(i) /\ UNCHANGED storeVars
    BY DEF WriteSucceeds, Write
  <1>2. inHand[s][1] \in Entry /\ inHand[s][1] \in Entries(s)
    BY <1>1, InHandEntry DEF Entries
  <1>3. i = NoItem \/ i \in Stored
    BY <1>2 DEF HeldStored
  <1>4. writes \in [Items -> 0..WriteCap]
    BY DEF Inv, TypeOK
  <1> HIDE DEF i
  <1>5. UNCHANGED <<Outcome, maxAttempts, attempts>>
    BY <1>1 DEF storeVars, Outcome
  <1>6. \A j \in Items : j # i => writes'[j] = writes[j]
    BY <1>1, <1>4 DEF CountWrite
  <1>7. CASE i = NoItem
    <2>1. \A j \in Items : writes'[j] = writes[j]
      BY <1>6, <1>7, NoItemIsNone
    <2>2. Transmitted' = Transmitted
      BY <2>1 DEF Transmitted
    <2>3. QED
      BY <1>5, <2>2 DEF PromisedStep, Stutters
  <1>8. CASE i \in Stored
    <2>1. i \in Items /\ writes'[i] > 0
      BY <1>1, <1>4, <1>8, WriteCounts DEF Stored
    <2>2. Transmitted' = Transmitted \cup {i}
      BY <1>6, <2>1 DEF Transmitted
    <2>3. Outcome[i] # "absent"
      BY <1>8, <2>1 DEF Outcome, Stored
    <2>4. QED
      BY <1>5, <2>1, <2>2, <2>3 DEF PromisedStep, Transmits
  <1>9. QED
    BY <1>3, <1>7, <1>8

\* Every statement on the table is a step of the promise, or none.
LEMMA StatementsArePromised ==
    ASSUME Inv, RowCoherent, [Next]_vars, UNCHANGED writes
    PROVE  PromisedStep
  <1>1. StoreTypeOK /\ [StoreNext]_storeVars
    BY StoreStep DEF Inv, TypeOK
  <1>2. Transmitted' = Transmitted
    BY DEF Transmitted
  <1>3. DOMAIN status = Items /\ DOMAIN attempts = Items
    BY <1>1 DEF StoreTypeOK
  <1>4. ASSUME NEW i \in Items, NEW m \in MaxAttempts, Enqueue(i, m)
        PROVE  Accepts(i)
    <2>1. status[i] = "absent" /\ status' = [status EXCEPT ![i] = "pending"]
      BY <1>4 DEF Enqueue
    <2>2. Outcome[i] = "absent" /\ Outcome' = [Outcome EXCEPT ![i] = "queued"]
      BY <1>3, <2>1 DEF Outcome, Live
    <2>3. maxAttempts' = [maxAttempts EXCEPT ![i] = m] /\ attempts' = attempts
      BY <1>4 DEF Enqueue
    <2>4. QED
      BY <1>2, <2>2, <2>3 DEF Accepts
  <1>5. ASSUME NEW skipped, Pull(skipped)
        PROVE  Stutters
    <2>1. \A i \in Picked(skipped) : i \in Items /\ status[i] \in Live
      BY PickedIsPullable DEF Pullable, Live
    <2>2. Outcome' = Outcome
      BY <1>5, <2>1 DEF Pull, Outcome, Live
    <2>3. QED
      BY <1>2, <1>5, <2>2 DEF Pull, Stutters
  <1>6. ASSUME NEW i \in Items, Ack(i)
        PROVE  Stutters \/ Succeeds(i)
    <2>1. /\ status[i] \in Live \cup {"sent"} /\ status' = [status EXCEPT ![i] = "sent"]
          /\ UNCHANGED <<attempts, maxAttempts>>
      BY <1>6 DEF Ack, AckFinds
    <2>2. CASE status[i] = "sent"
      <3>1. status' = status
        BY <1>1, <2>1, <2>2 DEF StoreTypeOK
      <3>2. QED
        BY <1>2, <2>1, <3>1 DEF Stutters, Outcome
    <2>3. CASE status[i] \in Live
      <3>1. i \in Transmitted
        <4>1. status'[i] = "sent" /\ status[i] # "sent"
          BY <1>3, <2>1, <2>3 DEF Live
        <4>2. QED
          BY <4>1, SentByAck DEF Transmitted
      <3>2. Outcome[i] = "queued" /\ Outcome' = [Outcome EXCEPT ![i] = "sent"]
        BY <1>3, <2>1, <2>3 DEF Outcome, Live
      <3>3. QED
        BY <1>2, <2>1, <3>1, <3>2 DEF Succeeds
    <2>4. QED
      BY <2>1, <2>2, <2>3
  <1>7. ASSUME NEW i \in Items, Fail(i)
        PROVE  Misses(i)
    <2>1. /\ status[i] \in Live /\ attempts[i] < maxAttempts[i]
          /\ attempts' = [attempts EXCEPT ![i] = attempts[i] + 1] /\ maxAttempts' = maxAttempts
          /\ status' = [status EXCEPT ![i] =
                IF attempts[i] + 1 >= maxAttempts[i] THEN "failed" ELSE "pending"]
      BY <1>7 DEF Fail, FailFinds
    <2>2. attempts[i] \in Nat /\ maxAttempts[i] \in Nat
      BY <1>1, AllowanceIsNat DEF StoreTypeOK
    <2>3. attempts'[i] = attempts[i] + 1
      BY <1>3, <2>1
    <2>4. attempts'[i] = maxAttempts[i] <=> attempts[i] + 1 >= maxAttempts[i]
      BY <2>1, <2>2, <2>3
    <2>5. Outcome[i] = "queued"
      BY <2>1 DEF Outcome
    <2>6. Outcome' = [Outcome EXCEPT ![i] =
                        IF attempts'[i] = maxAttempts[i] THEN "failed" ELSE Outcome[i]]
      <3>1. CASE attempts'[i] = maxAttempts[i]
        <4>1. status' = [status EXCEPT ![i] = "failed"]
          BY <2>1, <2>4, <3>1
        <4>2. QED
          BY <1>3, <3>1, <4>1 DEF Outcome, Live
      <3>2. CASE attempts'[i] # maxAttempts[i]
        <4>1. status' = [status EXCEPT ![i] = "pending"]
          BY <2>1, <2>4, <3>2
        <4>2. QED
          BY <1>3, <2>5, <3>2, <4>1 DEF Outcome, Live
      <3>3. QED
        BY <3>1, <3>2
    <2>7. QED
      BY <1>2, <2>1, <2>5, <2>6 DEF Misses
  <1>8. Tick \/ UNCHANGED storeVars => Stutters
    BY <1>2 DEF Tick, storeVars, Stutters, Outcome
  <1>9. QED
    BY <1>1, <1>4, <1>5, <1>6, <1>7, <1>8 DEF StoreNext, PromisedStep

\* KeepsPromise: whatever sessions, late calls and restarts do, an accepted item
\* ends at most once, as sent only when it was transmitted, and as failed exactly
\* when its last allowed attempt was missed.
THEOREM DeliveryKeepsPromise == Spec => KeepsPromise
  <1>1. Init => HeldStored
    <2> SUFFICES ASSUME Init, NEW s \in Sessions
                 PROVE  Held(s) = {} /\ Entries(s) = {}
      BY DEF HeldStored
    <2>1. poller[s] = "stopped" /\ batch[s] = {} /\ queue[s] = <<>> /\ inHand[s] = <<>>
      BY DEF Init, SessionInit
    <2>2. QED
      BY <2>1, EmptyQueue DEF Held, Entries, Working
  <1>2. Inv /\ HeldStored /\ [Next]_vars => HeldStored'
    BY HeldStoredStep
  <1>3. Init => Promise!Init
    <2> SUFFICES ASSUME Init PROVE Promise!Init
      OBVIOUS
    <2>1. /\ status = [i \in Items |-> "absent"] /\ attempts = [i \in Items |-> 0]
          /\ maxAttempts = [i \in Items |-> 0] /\ writes = [i \in Items |-> 0]
      BY DEF Init, StoreInit
    <2>2. Outcome = [i \in Items |-> "absent"] /\ Transmitted = {}
      BY <2>1 DEF Outcome, Transmitted, Live
    <2>3. QED
      BY <2>1, <2>2 DEF Promise!Init, Outcome, Transmitted
  <1>4. PromisedStep => [Promise!Next]_Promise!vars
    BY DEF PromisedStep, Stutters, Accepts, Transmits, Succeeds, Misses, Outcome, Transmitted,
           Promise!Next, Promise!vars, Promise!Accept, Promise!Transmit, Promise!Succeed, Promise!Miss
  <1>5. Inv /\ RowCoherent /\ HeldStored /\ [Next]_vars => [Promise!Next]_Promise!vars
    BY <1>4, OnlyWritesCount, WritesArePromised, StatementsArePromised
  <1>6. QED
    BY <1>1, <1>2, <1>3, <1>5, DeliveryInvariant, DeliveryKeepsRows, PTL
       DEF Spec, KeepsPromise, Promise!Spec

=============================================================================
