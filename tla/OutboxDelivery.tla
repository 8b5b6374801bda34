--------------------------- MODULE OutboxDelivery ---------------------------
(***************************************************************************)
(* Asynchronous delivery: the message_outbox table (Outbox) together with  *)
(* the Gateway sessions that deliver from it (gateway-go/main.go).         *)
(*                                                                         *)
(* Each NapCat WebSocket session runs an outbox poller and a write loop    *)
(* that share the session's sendQueue and its done channel.  A slot of     *)
(* Sessions stands for one session at a time; a new session may take the   *)
(* slot when the goroutines of the last one have ended.  Requests of the   *)
(* pollers to Brain can be lost, answered too late, or executed after the  *)
(* poller has given up on them, and the whole Gateway process can restart. *)
(***************************************************************************)
EXTENDS Outbox, Session, Functions

CONSTANTS
    Unsupported,  \* items OutboxAction cannot convert to a NapCat action
    Chatty,       \* sessions on which workers send replies as well
    WriteCap,     \* bound: writes of an item are counted up to here
    StrayCap      \* bound: calls that are late together

ASSUME DeliveryAssumption ==
    /\ Unsupported \subseteq Items
    /\ Chatty \subseteq Sessions
    /\ WriteCap \in Nat \ {0}
    /\ StrayCap \in Nat

VARIABLES
    poller,   \* where the session's poller goroutine is
    batch,    \* pulled items the poller has not started on
    current,  \* the item the poller is working on, or NoItem
    report,   \* the call that reports current: "ack", "fail" or "none"
    result,   \* current's writeResult channel: "none", "ok" or "err"
    strays,   \* calls to Brain given up by their callers, still on their way
    writes,   \* how often an item was written to a WebSocket, up to WriteCap
    suspect   \* history: items whose lease ran out, or whose session closed
              \* before its poller learnt the outcome of the write

pollerVars == <<poller, batch, current, report>>
deliveryVars == <<strays, writes, suspect>>
vars == <<storeVars, sessionVars, pollerVars, result, deliveryVars>>

NoItem == 0

\* An outboundAction: the item it carries (NoItem for a reply of a worker) and
\* whether its poller still listens for the outcome.
Entry == [item : Items \cup {NoItem}, awaited : BOOLEAN]
Reply == [item |-> NoItem, awaited |-> FALSE]

\* A call to Brain; a pull is not about an item.
PullCall == [op |-> "pull", item |-> NoItem]
Call == [op : {"ack", "fail"}, item : Items] \cup {PullCall}

TypeOK ==
    /\ StoreTypeOK
    /\ SessionTypeOK(Entry)
    /\ poller \in [Sessions -> {"waiting", "pulling", "offering", "awaiting",
                                "reporting", "stopped"}]
    /\ batch \in [Sessions -> SUBSET Items]
    /\ current \in [Sessions -> Items \cup {NoItem}]
    /\ report \in [Sessions -> {"none", "ack", "fail"}]
    /\ result \in [Sessions -> {"none", "ok", "err"}]
    /\ strays \in SUBSET Call
    /\ writes \in [Items -> 0..WriteCap]
    /\ suspect \in SUBSET Items

Init ==
    /\ StoreInit
    /\ SessionInit
    /\ poller = [s \in Sessions |-> "stopped"]
    /\ batch = [s \in Sessions |-> {}]
    /\ current = [s \in Sessions |-> NoItem]
    /\ report = [s \in Sessions |-> "none"]
    /\ result = [s \in Sessions |-> "none"]
    /\ strays = {}
    /\ writes = [i \in Items |-> 0]
    /\ suspect = {}

-----------------------------------------------------------------------------
(* A session begins and ends. *)

\* startOutboxPoller: the new session's poller polls at once.
Connect(s) ==
    /\ poller[s] = "stopped"
    /\ Open(s)
    /\ poller' = [poller EXCEPT ![s] = "pulling"]
    /\ UNCHANGED <<storeVars, batch, current, report, result, deliveryVars>>

others == <<storeVars, pollerVars, deliveryVars>>

\* The read loop of the handler fails, and its deferred closeSession starts.
PeerCloses(s) ==
    /\ conn[s] = "up"
    /\ CloseDone(s)
    /\ UNCHANGED <<queue, writer, inHand, result, others>>

SocketCloses(s) == CloseSocket(s) /\ UNCHANGED <<result, others>>

-----------------------------------------------------------------------------
(* The write loop. *)

\* A worker puts a reply on the sendQueue (modelled in full in Gateway).
WorkerReplies(s) ==
    /\ s \in Chatty /\ conn[s] # "closed"
    /\ Put(s, Reply)
    /\ UNCHANGED <<result, others>>

WriterTakes(s) == Take(s) /\ UNCHANGED <<result, others>>

\* Mutant of NotifySent: the callback is called without the error.
NotifySentOk(s, outcome) ==
    result' = [result EXCEPT ![s] = IF inHand[s][1].awaited THEN "ok" ELSE @]

\* notifySent: the outcome reaches the poller if it still awaits this entry.
NotifySent(s, outcome) ==
    result' = [result EXCEPT ![s] = IF inHand[s][1].awaited THEN outcome ELSE @]

CountWrite(i) ==
    writes' = [j \in Items |->
                IF j = i /\ writes[j] < WriteCap THEN writes[j] + 1 ELSE writes[j]]

WriteSucceeds(s) ==
    /\ Write(s)
    /\ CountWrite(inHand[s][1].item)
    /\ NotifySent(s, "ok")
    /\ UNCHANGED <<storeVars, pollerVars, strays, suspect>>

\* The poller is notified first; the session is closed when the loop returns.
WriteFails(s) == FailWrite(s) /\ NotifySent(s, "err") /\ UNCHANGED others

WriterSeesDone(s) == SeeDone(s) /\ UNCHANGED <<result, others>>

WriterReturns(s) == Return(s) /\ UNCHANGED <<result, others>>

-----------------------------------------------------------------------------
(* The outbox poller. *)

\* The ticker of the poller fires; when done is closed too, select may still
\* choose the ticker.
PollTick(s) ==
    /\ poller[s] = "waiting"
    /\ poller' = [poller EXCEPT ![s] = "pulling"]
    /\ UNCHANGED <<storeVars, sessionVars, batch, current, report, result, deliveryVars>>

PollerStops(s) ==
    /\ poller[s] = "waiting" /\ Done(s)
    /\ poller' = [poller EXCEPT ![s] = "stopped"]
    /\ UNCHANGED <<storeVars, sessionVars, batch, current, report, result, deliveryVars>>

\* The poller turns to the next item of "items", or back to its ticker. The
\* order of RETURNING outbox.* is unspecified, so any item may come next.
NextOf(s, items) ==
    /\ report' = [report EXCEPT ![s] = "none"]
    /\ result' = [result EXCEPT ![s] = "none"]
    /\ \/ /\ items = {}
          /\ poller' = [poller EXCEPT ![s] = "waiting"]
          /\ current' = [current EXCEPT ![s] = NoItem]
          /\ batch' = [batch EXCEPT ![s] = {}]
       \/ \E i \in items :
            /\ poller' = [poller EXCEPT ![s] = "offering"]
            /\ current' = [current EXCEPT ![s] = i]
            /\ batch' = [batch EXCEPT ![s] = items \ {i}]

\* Rows that a statement of another caller may hold locked during a pull.
Contended ==
    Items \cap ({c.item : c \in strays}
                    \cup {current[s] : s \in {t \in Sessions : report[t] # "none"}})

PullAnswered(s) ==
    /\ poller[s] = "pulling"
    /\ \E skipped \in SUBSET Contended :
        /\ Pull(skipped)
        /\ NextOf(s, Picked(skipped))
    /\ UNCHANGED <<sessionVars, deliveryVars>>

\* The answer is late or lost: Brain may still execute the pull, and then leases
\* the rows to nobody.
PullDelayed(s) ==
    /\ poller[s] = "pulling"
    /\ poller' = [poller EXCEPT ![s] = "waiting"]
    /\ strays' = strays \cup {PullCall}
    /\ Cardinality(strays') <= StrayCap
    /\ UNCHANGED <<storeVars, sessionVars, batch, current, report, result, writes, suspect>>

PullFails(s) ==
    /\ poller[s] = "pulling"
    /\ poller' = [poller EXCEPT ![s] = "waiting"]
    /\ UNCHANGED <<storeVars, sessionVars, batch, current, report, result, deliveryVars>>

\* The poller starts the call that reports current with op. "rest" is what is
\* left of its batch: nothing when processOutboxItem returns false.
StartReport(s, op, rest) ==
    /\ poller' = [poller EXCEPT ![s] = "reporting"]
    /\ report' = [report EXCEPT ![s] = op]
    /\ batch' = [batch EXCEPT ![s] = rest]
    /\ UNCHANGED <<storeVars, current, strays, writes>>

\* OutboxAction does not convert the item.
RejectItem(s) ==
    /\ poller[s] = "offering" /\ current[s] \in Unsupported
    /\ StartReport(s, "fail", batch[s])
    /\ UNCHANGED <<sessionVars, result, suspect>>

\* sendQueue <- outbound, with a fresh writeResult channel.
OfferItem(s) ==
    /\ poller[s] = "offering" /\ current[s] \notin Unsupported
    /\ Put(s, [item |-> current[s], awaited |-> TRUE])
    /\ result' = [result EXCEPT ![s] = "none"]
    /\ poller' = [poller EXCEPT ![s] = "awaiting"]
    /\ UNCHANGED <<storeVars, batch, current, report, deliveryVars>>

\* The queue stayed full for outboxSendTimeout. A select that waits takes the first
\* case to become ready, so neither room nor done can have come before.
OfferTimesOut(s) ==
    /\ poller[s] = "offering" /\ current[s] \notin Unsupported
    /\ Full(s) /\ ~Done(s)
    /\ StartReport(s, "fail", batch[s])
    /\ UNCHANGED <<sessionVars, result, suspect>>

OfferSeesDone(s) ==
    /\ poller[s] = "offering" /\ current[s] \notin Unsupported
    /\ Done(s)
    /\ StartReport(s, "fail", {})
    /\ UNCHANGED <<sessionVars, result, suspect>>

\* Mutant of TakeResult: the error of the write is not looked at.
TakeResultAck(s) ==
    /\ poller[s] = "awaiting" /\ result[s] # "none"
    /\ StartReport(s, "ack", batch[s])
    /\ UNCHANGED <<sessionVars, result, suspect>>

TakeResult(s) ==
    /\ poller[s] = "awaiting" /\ result[s] # "none"
    /\ StartReport(s, IF result[s] = "ok" THEN "ack" ELSE "fail", batch[s])
    /\ UNCHANGED <<sessionVars, result, suspect>>

\* The poller drops its end of the writeResult channel of its entry.
Forsaken(entries) == [k \in DOMAIN entries |-> [entries[k] EXCEPT !.awaited = FALSE]]

\* Mutants of AwaitSeesDone: one writeResult channel for all items of a poller,
\* and an await without a done case.
AwaitSharingResult(s) ==
    /\ poller[s] = "awaiting" /\ Done(s)
    /\ StartReport(s, "fail", {})
    /\ suspect' = suspect \cup {current[s]}
    /\ UNCHANGED <<sessionVars, result>>

AwaitWithoutDone(s) == FALSE /\ UNCHANGED vars

\* select may choose done although the result is there as well.
AwaitSeesDone(s) ==
    /\ poller[s] = "awaiting" /\ Done(s)
    /\ StartReport(s, "fail", {})
    /\ queue' = [queue EXCEPT ![s] = Forsaken(@)]
    /\ inHand' = [inHand EXCEPT ![s] = Forsaken(@)]
    /\ suspect' = suspect \cup {current[s]}
    /\ UNCHANGED <<conn, writer, result>>

\* What Brain does with an ack or fail call; 404 changes nothing.
Execute(op, i) ==
    \/ op = "ack" /\ Ack(i)
    \/ op = "fail" /\ Fail(i)
    \/ op = "ack" /\ ~AckFinds(i) /\ UNCHANGED storeVars
    \/ op = "fail" /\ ~FailFinds(i) /\ UNCHANGED storeVars

\* The answer, or its loss, makes no difference: errors are only logged.
ReportExecuted(s) ==
    /\ poller[s] = "reporting"
    /\ Execute(report[s], current[s])
    /\ NextOf(s, batch[s])
    /\ UNCHANGED <<sessionVars, deliveryVars>>

ReportLost(s) ==
    /\ poller[s] = "reporting"
    /\ NextOf(s, batch[s])
    /\ UNCHANGED <<storeVars, sessionVars, deliveryVars>>

\* Mutant of ReportDelayed: the late call names the item the poller has turned to.
ReportOfNext(s) ==
    /\ poller[s] = "reporting"
    /\ NextOf(s, batch[s])
    /\ strays' = strays \cup {[op |-> report[s], item |-> current'[s]]}
    /\ UNCHANGED <<storeVars, sessionVars, writes, suspect>>

\* The call times out in the Gateway but Brain may still execute it later.
\* Bound: strays is a set, so equal calls that are late together are one.
ReportDelayed(s) ==
    /\ poller[s] = "reporting"
    /\ strays' = strays \cup {[op |-> report[s], item |-> current[s]]}
    /\ Cardinality(strays') <= StrayCap
    /\ NextOf(s, batch[s])
    /\ UNCHANGED <<storeVars, sessionVars, writes, suspect>>

StrayExecuted(c) ==
    /\ \/ c.op = "pull" /\ \E skipped \in SUBSET Contended : Pull(skipped)
       \/ c.op # "pull" /\ Execute(c.op, c.item)
    /\ strays' = strays \ {c}
    /\ UNCHANGED <<sessionVars, pollerVars, result, writes, suspect>>

StrayDropped(c) ==
    /\ strays' = strays \ {c}
    /\ UNCHANGED <<storeVars, sessionVars, pollerVars, result, writes, suspect>>

-----------------------------------------------------------------------------
InFlight ==
    {[op |-> report[s], item |-> current[s]] : s \in {t \in Sessions : report[t] # "none"}}
        \cup {c \in {PullCall} : \E s \in Sessions : poller[s] = "pulling"}

\* The Gateway process ends (a panic, a redeploy) and with it every session; a
\* call on its way may still reach Brain.
GatewayRestarts ==
    /\ \E s \in Sessions : poller[s] # "stopped" \/ writer[s] # "stopped"
    /\ \E late \in SUBSET InFlight : strays' = strays \cup late
    /\ Cardinality(strays') <= StrayCap
    /\ conn' = [s \in Sessions |-> "closed"]
    /\ queue' = [s \in Sessions |-> <<>>]
    /\ writer' = [s \in Sessions |-> "stopped"]
    /\ inHand' = [s \in Sessions |-> <<>>]
    /\ poller' = [s \in Sessions |-> "stopped"]
    /\ batch' = [s \in Sessions |-> {}]
    /\ current' = [s \in Sessions |-> NoItem]
    /\ report' = [s \in Sessions |-> "none"]
    /\ result' = [s \in Sessions |-> "none"]
    /\ UNCHANGED <<storeVars, writes, suspect>>

Produce ==
    /\ \E i \in Items, m \in MaxAttempts : Enqueue(i, m)
    /\ UNCHANGED <<sessionVars, pollerVars, result, deliveryVars>>

TimePasses ==
    /\ Tick
    /\ suspect' = suspect \cup {i \in Items : lockLeft[i] = 1}
    /\ UNCHANGED <<sessionVars, pollerVars, result, strays, writes>>

StrayStep == \E c \in strays : StrayExecuted(c) \/ StrayDropped(c)

WriterStep(s) ==
    \/ WriterTakes(s) \/ WriteSucceeds(s)
    \/ conn[s] = "closed" /\ WriteFails(s)
    \/ WriterSeesDone(s) \/ WriterReturns(s)

PollerStep(s) ==
    \/ PullAnswered(s)
    \/ RejectItem(s) \/ OfferItem(s) \/ OfferTimesOut(s) \/ OfferSeesDone(s)
    \/ TakeResult(s) \/ AwaitSeesDone(s)
    \/ ReportExecuted(s)

SessionStep(s) ==
    \/ Connect(s) \/ SocketCloses(s) \/ WorkerReplies(s)
    \/ PollTick(s) \/ PollerStops(s) \/ PollerStep(s) \/ WriterStep(s)

\* What the programs do when nothing goes wrong around them...
Work ==
    \/ Produce \/ TimePasses \/ StrayStep
    \/ \E s \in Sessions : SessionStep(s)

\* ... and what goes wrong.
Disturbance ==
    \/ GatewayRestarts
    \/ \E s \in Sessions :
        \/ PeerCloses(s)
        \/ conn[s] # "closed" /\ WriteFails(s)
        \/ PullDelayed(s) \/ PullFails(s)
        \/ ReportLost(s) \/ ReportDelayed(s)

Next == Work \/ Disturbance

Spec == Init /\ [][Next]_vars

\* The goroutines are scheduled, HTTP requests end within their timeout, and
\* the write deadline ends every write. PollerStops needs strong fairness: when
\* the ticker and done are both ready, select picks one of them at random.
Fairness ==
    \A s \in Sessions :
        /\ WF_vars(SocketCloses(s))
        /\ WF_vars(WriterStep(s))
        /\ WF_vars(PollerStep(s))
        /\ WF_vars(PollTick(s))
        /\ SF_vars(PollerStops(s))

FairSpec == Spec /\ Fairness

-----------------------------------------------------------------------------
\* Brain records an item as sent only if its action was written to a WebSocket:
\* no stale, late or misdirected ack can mark an item that never left Gateway.
SentWasWritten ==
    \A i \in Items : status[i] = "sent" => writes[i] > 0

\* A poller at work on an item has one, and has a call to Brain in flight exactly
\* while it reports.
PollersHoldItems ==
    \A s \in Sessions :
        /\ poller[s] \in {"offering", "awaiting", "reporting"} => current[s] \in Items
        /\ report[s] # "none" <=> poller[s] = "reporting"

NoneAwaited(entries) == \A e \in Range(entries) : ~e.awaited
OneAwaited(entries) ==
    \A k, l \in DOMAIN entries : entries[k].awaited /\ entries[l].awaited => k = l

\* The write loop can notify a poller only about the item it is working on, and
\* only once: an entry of an item the poller has given up never answers for a
\* later one, and a second answer can never be waiting behind the first.
AwaitedIsCurrent ==
    \A s \in Sessions :
        /\ inHand[s] # <<>> <=> writer[s] = "writing"
        /\ \A e \in Range(queue[s]) \cup Range(inHand[s]) :
            e.awaited => poller[s] = "awaiting" /\ e.item = current[s]
        /\ OneAwaited(queue[s]) /\ (NoneAwaited(inHand[s]) \/ NoneAwaited(queue[s]))
        /\ result[s] # "none" => NoneAwaited(inHand[s]) /\ NoneAwaited(queue[s])

\* An outcome "ok", an ack call on its way to Brain and an ack call that comes late
\* are each backed by a write of the item they are about.
AcksAreBacked ==
    /\ \A s \in Sessions :
        result[s] = "ok" \/ report[s] = "ack" =>
            current[s] \in Items /\ writes[current[s]] > 0
    /\ \A c \in strays : c.op = "ack" => writes[c.item] > 0

\* Duplicates have a known cause: an item is written twice only if a lease of
\* it ran out, or a session closed while its poller was waiting for the write.
\* Lost and late calls, restarts and failed writes alone never duplicate.
DuplicateHasCause ==
    \A i \in Items : writes[i] > 1 => i \in suspect

\* What delivery as a whole promises to the producers of items.
Promise == INSTANCE OutboxPromise WITH
    outcome <- [i \in Items |-> IF status[i] \in Live THEN "queued" ELSE status[i]],
    allowed <- maxAttempts,
    missed <- attempts,
    transmitted <- {i \in Items : writes[i] > 0}

KeepsPromise == Promise!Spec

\* Every session that ends gives up its goroutines, wherever they were blocked:
\* on the queue, on a write, on the outcome of a write, on Brain or on the ticker.
SessionsAreReaped ==
    \A s \in Sessions :
        Done(s) ~> (poller[s] = "stopped" /\ writer[s] = "stopped")

\* The disturbances end at some point that nobody knows in advance: Brain answers,
\* connections and Gateway stay up. Time goes on, requests still on their way
\* arrive or are dropped, and NapCat reconnects.
CalmsDown ==
    /\ <>[][Work]_vars
    /\ WF_vars(TimePasses)
    /\ WF_vars(StrayStep)
    /\ \A s \in Sessions : WF_vars(Connect(s))

\* Once the disturbances are over every accepted item reaches an outcome: no row
\* is left leased to nobody, starved by older rows or by the replies in the queue
\* of its session, or retried for ever.
EveryItemSettles ==
    CalmsDown => \A i \in Items : status[i] \in Live ~> status[i] \in Settled

=============================================================================
