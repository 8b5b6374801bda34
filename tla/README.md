# A verification of TestBot

TLA+ models of TestBot, the model-checking runs over them, and theorems about
them checked with TLAPS. TestBot is a QQ bot: NapCat (OneBot 11) speaks
WebSocket to a Go *Gateway* (`gateway-go/`), the Gateway speaks HTTP to a
Python *Brain* (`brain-python/`), and Brain keeps everything in Postgres
(`database/migrations/`).

## 1. The system

| Part | State | Operations | Interacts through |
| --- | --- | --- | --- |
| Outbox store (`services/outbox.py`, table `message_outbox`) | a row per item: status, attempts, max_attempts, next_attempt_at, locked_until | enqueue, pull, ack, fail; one SQL statement each | HTTP endpoints of `main.py` |
| Gateway session (`main.go`) | socket, `done`, `sendQueue` (100 entries) | upgrade, `closeSession`, write loop | read by every goroutine of the session |
| Outbox poller (`main.go`) | pulled batch, item in work, its `writeResult` channel | poll every 3 s, offer, await, ack or fail | `sendQueue`, `done`, Brain |
| Event dispatch (`main.go`, `handler/router.go`) | global `jobQueue` (1000), ten workers | read loop, `worker`, `Dispatch` | `jobQueue`, `sendQueue`, `done`, Brain |
| Normalizer and action conversion (`handler/normalizer`, `client/napcat`) | none | event to message, Brain message to OneBot action | called by dispatch and poller |
| Chat orchestration (`services/chat.py`, `ai_runtime.py`, `modules/`) | none of its own | for each text memory command, module and remote services, then planner and AI | calls the stores below, remote services, a model |
| Persistence (`services/persistence.py`) | messages, raw events, responses | persist incoming, persist response; failures are only logged | Postgres |
| Conversation state (`services/conversation_state.py`) | one row per conversation | refresh: read messages, read replies, derive, upsert | reads what persistence wrote; read for prompts |
| Remote tools (`services/tools.py`, `modules/remote.py`) | none: owners are found anew for each request | list, call | every configured service |
| Memory store (`services/memory.py`) | memory items with status and lifecycle, settings | remember, confirm, archive, stale, forget, decay | commands, jobs, sweeps |
| Memory extraction (`memory_extractor.py`) | run rows, notices in the outbox | a background thread per `/memory extract` | messages, a model, the memory store, the outbox |
| Memory recall (`services/memory.py`, `memory_embedding.py`) | embeddings | three searches, merge, ranking; index command | the memory store, an embedding service |

What is hard in it:

* **The outbox crosses two processes and a socket.** A row is leased with a time
  limit, the delivery is a conversation between a poller, a bounded queue and a
  write loop, and the outcome goes back in an HTTP call that may be lost, late,
  or executed after its caller gave up. Nothing in the protocol names the
  holder of a lease.
* **Go `select`** chooses at random among ready cases. `done` races with the
  queue, with the ticker and with the outcome of a write.
* **Ten workers, one queue**: replies of one session come from several workers;
  blocked sessions hold workers that other sessions need.
* **Read, compute, write in several transactions**: a decay sweep, an
  extraction, a refresh of the conversation state and a recall all use in one
  transaction what they have read in another.
* **Everything may fail and is passed over**: the database, the model, the
  embedding service and each remote service fail on their own, and the answer
  to the user must not depend on it more than the documents say.

The properties that make each part correct:

* *store*: the columns of a row agree; an outcome is final; a live lease is
  exclusive; only reported failures count.
* *delivery*: sent implies written; a duplicate has a cause; a result is only
  for the item it is about; every accepted item settles once things calm down;
  as a whole it keeps the promise in `OutboxPromise`.
* *session*: every goroutine ends when the session ends.
* *dispatch*: answers arrive whole, in order up to the point where the session
  ended; nothing is lost while it is up; every queued event gets a worker; what
  is sent is what Brain's response and the documented item table ask for.
* *chat*: whatever fails, the documented handler answers, but for two departures that
  are named; the stored trace is
  what happened; a stored view of a conversation was never made up.
* *tools*: a tool runs at most once for a call, at a service that offers it and
  may serve the group, and nobody behind a first owner that is up serves it; a failing
  service does not hide a working one.
* *memory*: status and lifecycle agree; what can be recalled was earned by
  evidence or by a human and rests on messages of its own group; what was
  forgotten stays forgotten and what was contradicted stays contradicted, up to
  the write-backs of older readings; run row and notice agree; all work ends.
* *recall*: what is told was usable during the request and is the requester's to
  see; an undisturbed recall gives the best answer.

`PROJECT.json` lists every component, and under `hazards` each place where the
code is hard to test, with the properties that watch over it.

## 2. Modules

```
Outbox                    the table
Session                   what the goroutines of a session share
OutboxDelivery            extends Outbox and Session; implements OutboxPromise
  MCOutboxDelivery        extends OutboxDelivery (symmetry of sessions)
Gateway                   extends Session
  MCGateway               instances
OutboxProofs              theorems about Outbox, OutboxDelivery and OutboxPromise
GatewayProofs             theorems about Gateway

ConversationView          what a view of a conversation is derived from
ChatRouting               extends ConversationView: which handler answers
  ChatTurn                extends ChatRouting: the turns of Brain
    MCChatTurn            instances
  EventEnvelope           extends ChatRouting: a NapCat event becomes a request
ActionConversion          a response becomes OneBot actions
ChatExchange              extends ChatTurn, EventEnvelope and ActionConversion
  ExchangePromise         extends ChatExchange
    MCChatExchange        instances, extends MCChatTurn
ChatProofs                theorems about ChatTurn and ChatExchange
ConversionProofs          theorems about ActionConversion and ExchangePromise,
                          on top of ChatProofs
ModuleTools               listing and calling remote tools
  MCModuleTools           instances
  ModuleToolsProofs       theorems

MemoryRules               lifecycle, decay and scores, as functions
MemoryItems               extends MemoryRules: the table and its statements
MemoryService             extends MemoryItems; implements MemoryPromise
  MCMemoryService         instances
  MemoryRecall            extends MemoryService
    MCMemoryRecall        instances
MemoryItemsProofs         lemmas about MemoryRules and MemoryItems
MemoryProofs              theorems about MemoryService, on top of MemoryItemsProofs
RecallProofs              theorems about MemoryRecall, on top of MemoryProofs
```

### Outbox and Gateway

**Outbox** is the table. Each SQL statement is one action, because Postgres
executes it as one transaction on locked rows. `locked_until` and
`next_attempt_at` are kept as the time left (`lockLeft`, `retryLeft`), all that
comparisons with `now()` can tell; `Tick` lets time pass for all rows.
`Pull(skipped)` takes the rows that `FOR UPDATE SKIP LOCKED` passes over as a
parameter. `AckFinds` and `FailFinds` are the WHERE clauses; when they are
false Brain answers 404. Several pulls may hold leases at once, and any
statement may come at any time: the store does not know who calls.

**Session** is what all goroutines of a WebSocket session share: `conn`
(`done` closed and socket closed are two steps, as in `closeSession`), the
bounded `queue`, the write loop and the entry it has in hand. `Write` is
possible until the socket is closed, `Take` also after `done`: the select of
the write loop may prefer the queue.

**OutboxDelivery** composes both with the poller of every session.

| Poller state | Code | Leaves by |
| --- | --- | --- |
| `waiting` | select of the ticker loop | `PollTick`, `PollerStops` |
| `pulling` | `PullOutbox` | `PullAnswered`, `PullDelayed`, `PullFails` |
| `offering` | `OutboxAction` and the first select of `processOutboxItem` | `RejectItem`, `OfferItem`, `OfferTimesOut`, `OfferSeesDone` |
| `awaiting` | the second select | `TakeResult`, `AwaitSeesDone` |
| `reporting` | `ackOutboxItem`, `failOutboxItem` | `ReportExecuted`, `ReportLost`, `ReportDelayed` |

An entry of the queue records whether its poller still listens (`awaited`):
the code gives each item a `writeResult` channel of its own, so when the poller
leaves the second select nobody hears the answer any more. `strays` are calls
whose caller has given up; Brain executes them at any later time or never.
`GatewayRestarts` ends the process with everything in memory. `writes` and
`suspect` are history. `WorkerReplies` stands for the replies of workers that
share the queue; `Gateway` models them in full.

**OutboxPromise** is what a producer may rely on. `KeepsPromise` is the
refinement: a live row is a queued item, `attempts` the reported misses, and an
item is transmitted once it was written.

`EveryItemSettles` is stated for behaviours that calm down (`CalmsDown`): at some
moment the disturbances (lost calls, broken connections, failed writes, restarts)
cease, time passes, late calls arrive or are dropped, and NapCat reconnects.

**Gateway** models the interactive side: read loops, `jobQueue`, workers with
both selects of `worker`, and the write loops. `Dispatch` returns any number of
actions up to a bound, none if Brain is silent or fails; what it returns is
`ChatExchange`. `Answers` bounds that number for each session. A slot is one session
for its whole life, because a job keeps the channels of the session it came from.

### Chat

**ConversationView** is `derive_state` and the two readings it works on. All
limits of the code are one record, so that a run can bring each within reach of
a few messages. Topics and speakers are sets cut off by the code's ranking.

**ChatRouting** holds the decisions: which text of a request counts
(`Selected`, `ModuleTexts`), the group policy and the triggers of the AI. `Documented`
is the response the documents rank first ("Routing Order" and "Memory And AI" in
`docs/api/brain-api.md`, "Error Responses" in `docs/api/ai-runtime-api.md`), as a
function of what every service would say: memory commands in any text, then the
modules text by text, then planner, AI and no route. `Departures` names the two ways
in which the code answers otherwise. A text is what routing sees of it: the command
it invokes and whether it has an argument.

**ChatTurn** takes the decisions as the code does, in the thread of a request:

| Stage of a turn | Code | Leaves by |
| --- | --- | --- |
| `storing` | `safe_persist_incoming` | `StoreMessage` |
| `messages`, `stats`, `view` | `safe_update_from_incoming` and `safe_update_from_response` | `ReadMessages`, `ReadStats`, `WriteView` |
| `routing` | `_build_chat_response`, a text and a handler at a time | `TryMemory`, `TryModule`, `TryService`, `NextText`, `Fallback` |
| `prompting`, `asking` | `build_ai_response` | `Prompt`, `AskModel` |
| `answering` | `safe_persist_response` | `StoreResponse` |

At each stage that touches the database `DatabaseFails` may come instead: the
code logs it and goes on. A database fault means that the statement had no
effect. `Restart` ends Brain; a turn under way is lost.

**EventEnvelope** and **ActionConversion** are what the Gateway does on both
sides of a turn, as operators: the filter, the normalizer and the envelope; and
the conversion of message items, nodes with items of their own, and forward
messages, all or nothing. `Panics` is the assignment to the nil map `copyMap`
returns for data without keys. A node may hold items that are nodes again:
`ToSegment` is a recursive function over `Items`, a set that holds whatever its
items hold, each nested less deep (`Depth`) than what holds it.

**ChatExchange** composes them with `ChatTurn`: a worker filters an event, posts
it, waits for a bounded time (the turn goes on without it), and converts the
response; a panic ends the process with every exchange in it, until somebody
starts the Gateway again (the compose file gives it no restart policy). The actions
are those of `ActionConversion`.

**ExchangePromise** is what the documents promise of these actions. `Complete`,
`CompleteReply` and `Bare` are the item table and the section on forward messages
of `docs/api/gateway-api.md`; `Showing` gives the segments that show an item, all
items inside it in their places.

**ModuleTools** is `GET /tools` and `POST /tools/call`: the service map, the
search for owners through all services in turn, the group policy, one call.
Services come and go between any two steps (`Reach`).

### Memory

**MemoryRules** is the arithmetic and the tables of `memory.py`: lifecycle of a
new memory, of a reinforced and of a decayed one, decay score and quality. Columns
between 0 and 1 are hundredths, and fractions rounded to four decimals are
ten-thousandths.

**MemoryItems** is `memory_items` with every statement that changes it. A
statement is one transaction and one step; what a caller has read and carries
to the next statement is a parameter (`DecayWrite(i, seen, days)`,
`ReinforceWrite(i, seen, c)`), so a stale write-back is simply a step with an
old `seen`. `last_seen_at` is kept as an age in days.

**MemoryService** is everything at work on that table:

| Actor | Code | Steps |
| --- | --- | --- |
| administrators | the `/memory` commands | `AdminConfirms`, `AdminRetires`, `AdminForgets`, `SetGroupMemory` |
| decay sweep | `apply_decay` | `StartSweep` reads, `SweepRow` writes one row back, `SweepFails` |
| extraction job | `extract_group_memories` in its background thread | `Extract`, `ReadMessages`, `OpenRun`, `ModelAnswers`, then for each candidate `TakeCandidate` (marks what it contradicts), `Match`, `Write`; `CloseRun`, `Notify`; `JobFails` at every stage |
| chats, time, Brain | | `Say`, `Age`, `Restart` |

`earned` is history: the rows a human or their evidence has confirmed.

**MemoryPromise** is what a group may rely on as long as no sweep runs: a memory
is used only after it was earned and never after it was to be forgotten.

**MemoryRecall** adds a recall (setting, keyword search, full-text search, vector
search, ranking, recent messages: each reading a transaction of its own) and the
index command that stores embeddings. `window` and `quiet` are history: what
could have been used at some moment of the request, and whether anything has
changed since it began. A recall writes nothing, so one is enough; it ends with
its process, so Brain does not restart here.

Operators named *Mutant of ...* in the modules are deliberately wrong variants of
the next definition. They are used by nothing; substituted for it they make the
property named in `PROJECT.json` fail, which shows that the property looks at
that code.

## 3. Runs

| Run | Question | Bounds |
| --- | --- | --- |
| `outbox_delivery` | Safety and refinement of delivery | 1 item with 2 attempts, 2 sessions, queue 1, lease 1 tick, writes counted to 2 |
| `outbox_session` | Do the goroutines of an ended session end? Does every item settle when things calm down? Are leases of more than a tick exclusive? | 2 items in one batch, one not convertible, 1 attempt, limit 2, lease 2, 1 session that also carries replies, 1 call late at a time |
| `gateway_answers` | Are answers complete and in order, do ended sessions let go, is every event taken? | 2 sessions with 2 events each, one answered with 2 actions and one with none, 2 workers, queues of 1 |
| `chat_routes` | Does a request get the answer the documents rank first, but for two departures? Is an event answered exactly when that answer wants it, and with what the documents ask for? | 1 turn, 9 events and 8 direct requests, 81 behaviours of 2 services on 2 texts, 19 replies, every fault |
| `chat_state` | Are trace and views true? | 2 turns, 2 conversations, 3 instants, every threshold within reach, database faults and restarts |
| `module_tools` | Do calls run once and at the first owner, do working services stay visible? | 1 request among 3 services, two of them with the same tools |
| `memory_mixed` | All actors on the same rows | 2 rows, 1 sweep, 1 job, answers with good, contradicting and nonsensical candidates, every fault and restarts |
| `memory_jobs` | Two jobs at once, commands, contradictions and the promise | 2 rows, 2 jobs, database and model faults, no sweep |
| `memory_recall` | Is a recall justified, and best when undisturbed? | 3 rows of every scope, 4 requests, 2 texts, an index batch of 2, database and model faults |
| `doc_deleted`, `doc_node`, `doc_order` | see below | |

Why the bounds are enough for the questions:

* *Outbox.* Two sessions are what it takes for a stale holder and a new holder of
  a lease; one item is contested by both, and items influence each other only
  through the pull limit, the queue and the poller's attention, which
  `outbox_session` (a batch of two) and the proofs (any number) cover. Two attempts make a first and a last one. A
  queue of one is full as soon as possible and still lets an abandoned entry
  wait. One tick of lease can run out in any state. `WriteCap` counts writes up
  to two, enough to tell a duplicate.
  `outbox_session` allows an item one attempt: an item that was written and whose ack
  was lost is delivered again and again all the same, since only a reported failure
  counts; that a failure before the last attempt leads to a further one is not part
  of that run. Its replies of workers fill the queue, so an offer may time out.
* *Gateway.* The case to reach is that of one session whose full `sendQueue` holds
  every worker while the others wait: `busy` is answered with two actions each time,
  so that its two events block both workers on a queue of one, and `quiet`, with one
  event on the full `jobQueue` and its read loop offering the other, depends on
  them. Two actions also have an end of the session between them. `EveryEventIsTaken`
  says that again and again nothing waits, which for the bounded traffic of the model
  means that every event is taken. Traffic without end could in the model keep one read
  loop from a place on the `jobQueue` for ever; in Go those that wait to send on a
  channel are served in turn.
* *Chat.* Turns do not share state while they route, so `chat_routes` has one and
  puts its bound into inputs: every pattern of answers of two services, group
  policies that block each of them somewhere, several texts, a text with its own
  group, a memory command behind a text that a service takes, every item type, nodes in
  every form, and something that does not convert before, between and after what does.
  Items are nested to depth three there, which has a node among the items of a node; the
  proofs cover any depth.
  `chat_state` has the
  interleaving of two turns with all thresholds lowered to one, two or three,
  and three instants that fall into one window, or not.
* *Tools.* Requests share nothing but the services, so one is enough.
* *Memory.* Two rows are one memory and one that contradicts or repeats it. One
  sweep and one job in `memory_mixed`, two jobs in `memory_jobs`, make every pair
  of a reader and a writer in between; the proofs cover any number of each. The
  initial row is a weak guess one step below the thresholds, the only place
  from which a wrong rule would make it recallable. In `memory_recall` 330
  days make a row lose by its age, and three rows for a limit of two make the cut
  bite.

Bounds of the models: `strays` is a set, so equal late calls are one, and `StrayCap`
bounds how many calls are late together (3 in `outbox_delivery`, which no state of
that run exceeds, 1 in `outbox_session`); `WriteCap`
and `AgeCap` bound a history counter and an age, never an action; `MaxEvents`,
`MaxActions` and the `Answers` of `Gateway` bound the traffic; `Clock`, `Nights`, `Commands`, the `Answers` of `MemoryService`,
`Replies`, `Requests` and `Events` are the inputs that may come. `Deepest` is how
deep items are nested, which the decoder of `encoding/json` limits to 10000. The Gateway, chat,
tool and memory runs do not check for deadlock: all inputs used up is a
legal end. Symmetry is used where a run has no liveness property.

Fairness. `Fairness` in `OutboxDelivery` says that goroutines are scheduled,
that requests end within their 20 s timeout and writes within their 10 s
deadline, and that a poller whose ticker and `done` are both ready again and
again does not choose the ticker for ever (`SF` on `PollerStops`: select chooses
at random). Nothing is assumed about failing: they are disturbances without
fairness. `CalmsDown`, the premise of `EveryItemSettles`, adds that the disturbances
end, time passes, late calls arrive or are dropped, and NapCat reconnects. `Gateway` assumes scheduling, the timeout of Brain
requests, the write deadline, and that `ReadMessage` fails on a closed socket.
In Brain only threads are fair: `WF` on the steps of a turn (`ChatTurn`,
`ChatExchange`), of a job and of a sweep's loop (`MemoryService`), of a recall
and an index command (`MemoryRecall`) and of a tool request (`ModuleTools`). Every
call they make has a timeout, and a timeout is one of its outcomes. Nothing is
assumed about commands, messages, time, faults and restarts.

### Disagreements with the documentation

Three are shown by runs of their own:

* `doc_deleted`: the UPDATE of a decay sweep asks for the id alone and writes back
  the status it had read. A memory deleted meanwhile is active and recalled
  again; `docs/api/memory-api.md` says a deleted row is "Never recalled".
  `ForgottenStays` says how far the promise holds.
* `doc_node`: a content node given by its item text alone, which
  `docs/api/gateway-api.md` allows, makes `toNodeSegment` assign into a nil map. The
  panic ends the Gateway and the exchange of somebody else with it.
  `ExchangeIsDocumented` says that nothing else does.

* `doc_order`: `docs/api/brain-api.md` has memory commands checked "before deterministic
  and remote modules"; the loop of `chat.py` asks the services for the first text before
  it looks for a command in the second, so a service can answer and the command is not
  executed. It is one of the `Departures` of `RouteIsExpected`.

The others were met while modelling; the models follow the code. `ai_runtime.py:77` is
the other of the `Departures`: the response `raised` stands where the document has an
error text or silence.

| Code | Document | What the code does |
| --- | --- | --- |
| `outbox.py:134` | `database-schema.md:192-193` | a failed item is not delayed (`next_attempt_at = now()`) |
| `outbox.py:116` | `database-schema.md:186-190` | an ack takes a *pending* row to sent |
| `outbox.py:96` | `database-schema.md:166` | `attempts` counts failure reports, not deliveries |
| `main.go:203` | `deployment.md:228-229` | an item is acked after the write, not after it was queued |
| `main.go:203` | `gateway-api.md:458` | an item that was written can be reported as `gateway_connection_closed` |
| `memory.py:703` | `memory-api.md:254` | a job that read a row before it was contradicted writes the old lifecycle back |
| `memory.py:1793` | `memory-api.md:253` | a stale row with enough evidence can become reinforced in one step |
| `memory.py:562` | `memory-api.md:259-268` | the stored quality is that of the row the sweep had read |
| `memory.py:653` | `ai-memory-plan.zh-CN.md:323` | two extractions at once insert the same memory twice |
| `memory.py:1344` | `ai-memory-plan.zh-CN.md:320` | a job stores what it extracted although the group was disabled meanwhile |
| `memory.py:924` | `memory-api.md:122` | forgetting a group leaves its archived rows, which can be confirmed again |
| `conversation_state.py:123` | `conversation-state-phase3.zh-CN.md:14` | of two refreshes the older view may be written last and stay |
| `persistence.py:124` | `brain-api.md:334` | unhandled responses are stored too |
| `ai_runtime.py:77` | `ai-runtime-api.md:294` | an answer that is JSON but no object raises and fails the request |
| `tools.py:70` | `brain-api.md:201-202` | while the first owner of a tool does not answer, the second executes the call |

## 4. Theorems

All are about every value of the constants, under the assumptions the modules
name: `OutboxAssumption`, `SessionAssumption`, `DeliveryAssumption` for any
number of rows, sessions and replies, any queue size, lease, limit and set of
allowed attempts; `MemoryAssumption` and `ServiceAssumption` for any number of
rows, groups, messages, sweeps and jobs, and any answers of the model;
`ToolsAssumption` for any services, offers, policies and requests;
`GatewayAssumption` for any sessions, workers and number of events and actions,
and any capacity of the jobQueue and the sendQueues; `TurnAssumption` and
`ExchangeAssumption` for any turns, requests, services, policies, limits, instants,
events and replies; `ItemsAssumption` for any items, nested to any depth, as long as
an item is nested deeper than what it holds; `RecallAssumption` for any requests, limits and
scores, as long as every content has a score in every search and the group id that
stands for none is not a group.

`OutboxProofs`, about the table: the type invariant, `RowCoherent`, `OutcomeIsFinal`,
`LeaseIsExclusive` and `OnlyFailuresCount`. `RowCoherent` is inductive together
with the types; its second conjunct (a live row has attempts left) is what makes
the off-by-one of the last attempt visible, and its first (a lease exists exactly
while processing) is what `LeaseIsExclusive` rests on, since a pending row is
handed out without a look at `locked_until`.

The same module about delivery: the inductive invariant `Inv` is `TypeOK` with

* `PollersHoldItems`: a poller at work has an item, and a call in flight exactly
  while it reports;
* `AwaitedIsCurrent`: an entry that can still answer belongs to a poller that
  awaits exactly this item, there is at most one, and none once there is a result;
* `AcksAreBacked`: a result "ok", an ack in flight and a late ack are for items
  that were written.

`AwaitedIsCurrent` is needed because "a result ok is for a written item" is not
inductive: the write loop notifies whoever owns the entry in hand, and only this
conjunct says that the owner still works on that item. "At most one entry, none
after a result" is needed because a poller that has its result stops waiting while
its queue is not empty. The proof has one lemma per group of actions; `LocalStep`
reduces each to the session that acts, `Untouched` covers the others. From `Inv`
follow:

* `DeliveryKeepsRows`: every step of delivery is a statement of the store or leaves the
  table alone (the lemma `DeliveryImplementsStore`, which holds by the way delivery is
  composed), so what is proved of the table holds under delivery;
* `SentItemsWereWritten`: an item becomes sent only by an ack of it (`SentByAck`),
  acks are backed, and writes are never forgotten (`WritesStep`).

The same module about what delivery promises:

* `DuplicatesHaveCause`. `suspect` names the items with a known cause for a
  duplicate; the strengthening `Fresh` says of every other item (`Undisturbed`) that
  at most one poller holds it (current or in its batch) or one late call is about it,
  and none unless the row is leased (`OneDelivery`); that a row that can be pulled,
  and an item a late fail is about, was never written; that a poller that holds a
  written item is about to report the write; and that no entry of it is left in a
  queue without its poller (`HolderOK`). Each half needs the other: a write is the
  first because its entry still has its poller, which has not reported a write; a
  pull finds nobody else because whoever was responsible has reported or its lease
  would have run out; and a report, executed, lost or late, ends or hands on the
  responsibility of exactly one.
* `DeliveryKeepsPromise`: every step of delivery is a step of `OutboxPromise` or a
  stutter. `HeldStored` (what pollers and queues hold was enqueued) makes a write a
  `Transmit`, `SentByAck` makes an ack a `Succeed`, and `RowCoherent` makes a fail a
  `Miss` that ends the item exactly at its last attempt.

`MemoryItemsProofs` says what each function of the rules returns and what each
statement may do to a row. `MemoryProofs` proves `Invariance`, where `Inv` is

* `TypeOK`;
* `JobsAreSound`: a job holds work only at the stages where the code has variables
  for it, and the positions it has still to store passed the validation;
* `MatchIsFaithful`: the row a job is about to write back is stored and about the
  same fact; what the job has read of it counted no contradiction too many, at
  least one if it was contradicted, and was earned if it could be recalled;
* `SweepsReadActive`: what a sweep holds was active, in a lifecycle that decays, and
  earned if it could be recalled;
* `RowsCoherent`, `RecallableIsEarned`, and `BlankRows` (a row not yet inserted is
  blank).

The middle three are why a stale write-back is harmless for coherence and for
earning: it writes an old reading over a new row, so the old reading has to be
as good as the row it replaces. `RowSteps` reduces every step to one of a few effects on one row,
`TableSteps` and `JobSteps` say which. On top of it:

* `Forgetting` and `Contradiction`, the action properties: a deleted row comes back
  only through a sweep that holds it, a contradicted one is recalled again only after
  a confirmation or through the write-back of an older reading;
* `Verdict` (`StoryStep`): run row, stage and notice of a job as one story;
* `Grounding` (`HandStep`, `GroundStep`): stored memories and the candidate in hand
  rest on messages, provided the rows at the start rest on the backlog;
* `Promised` (`StepIsPromised`): without sweeps, and with no row deleted at the
  start, every step is a step or a stutter of `MemoryPromise`.

`ModuleToolsProofs`: the inductive invariant says of a request that every tool it
has collected is offered by the service it is collected for, and that of a service
already asked which was up all along every tool is collected (`RequestIsSound`); and
that nothing is executed for it before it is done, then at most one call, rightly
(`RunIsSound`). The first is what the owner's right to the call rests on: the owner
was read from a list that may be outdated by the time of the call. From it follow
`ToolRunsOnce`, `WorkingToolsAreKnown` and `FirstOwnerServes`, however often services go
and come: of a service that was up all along every tool has an owner that does not stand
behind it.

`GatewayProofs`: `Base` is `TypeOK` with `Coherent` (a worker has a job exactly while
it is not idle, and turns only to actions its dispatch returned) and `EventsOnce` (an
event is on the jobQueue or with one worker, and is answered by that worker alone). It
is what both properties rest on: two workers with the same event would overwrite each
other's answer and send its actions twice.

* `PrefixesArrive` adds `InOrder`: as long as the write loop goes on, the entry before
  each entry is written or ahead of it, and a worker that may still send has handed
  over the action before. A worker that saw `done` and drops an action may not send a
  later one, which holds because `done` never opens again under a session's jobs.
* `NothingIsLost` adds `Placed`: what a session has to write was returned by a
  dispatch, and every action that was returned is held by one worker or is once among
  written, in hand and queued (`InOnePlace`). The first half is needed when a dispatch
  returns: its actions are new, so none can be on the way already.

`RecallProofs`: what a recall reads is a mixture of several moments, so the proof
is about history.

* `RecallsAreJustified` rests on two things. `SeenIsFaithful` says that a job which
  holds the row of a memory knows what that row says; with `RowSteps` it follows that
  the scope, people and content of a stored row never change (`FactStays`), whatever
  statements and stale write-backs it goes through. So whatever was this request's to
  see when it was read still is when it is told. `WindowOK` and `FindsOK` then follow
  the rows from the window into what was found, ranked and answered, the limit with
  them.
* `QuietRecallsAreBest` adds `QuietInv`: as long as nothing has changed, every
  candidate is what the searches done so far give its row (`Gathered`), whichever of
  them hit it, and merging what one more search hits gives the same as having looked
  once (`GatherMore`). A skipped vector search has hit nothing. `ScoresKnown` says
  that whatever is stored or about to be inserted has a score, since its content is
  of the first table or of an answer of the model; without it a merge could not be
  computed.

`ChatProofs`: `StepsAre` reduces every step to the passing of time, a restart or
what one turn does to itself and to the tables (`Acts`).

* `TracesAreTrue`: `TraceOf` says which rows of a turn there are at each stage, and
  that a response row agrees with the response in hand. A row is only ever appended,
  so what is said of it stays true (`RowsStay`).
* `ViewsAreCoherent`: a turn that has read the messages, or has derived a view, holds
  something the log said at some instant (`Says`, `Reads`), and that stays true while
  others append and time passes. The second reading is never older than the first
  because the log only grows.
* `RoutesAreExpected`: `SearchOf` says of a turn that still searches that it stands
  at a text and a handler such that nothing before takes the request. The response the
  loop ends with is compared with the documents by `TakenIsExpected` (a memory command
  is what they rank first; a module that takes a text is their choice when no memory
  command is among the texts, and the first departure otherwise, since none is before
  that text) and `UntakenIsExpected` (when nobody takes any text only an odd answer of
  the model departs).
* `ExchangesAreTurns`: every step of `ChatExchange` is a step of `ChatTurn` or leaves
  it alone, so the three theorems above hold of exchanges too.
* `AnsweredWhenWanted`: `ExchangeOf` says that an exchange that waits has its own
  event in the turn it waits for, unless Brain has forgotten the turn, and that one
  that was decided was decided by the response to its own event, which stays because a
  turn that is done does nothing more (`TurnsLast`).

`ConversionProofs`: `ExchangesAreDocumented`, for replies nested to any depth. The
steps of its argument:

* *The recursive functions have a value.* A definition `f[item \in Items] == ...` says
  only that `f` is what obeys the equation, if anything does. For `ToSegment`,
  `Complete`, `Bare` and `Showing` the module takes one more round of the definition at a
  time: what agrees with its next round up to depth n agrees, one round later, up to
  depth n + 1 (`ConversionGrows` and its like), and `Deepest` ends it
  (`ToSegmentUnfolds` and its like). `ItemEquations` is all the rest uses.
* *Induction on depth* (`ItemInduction`) follows from the least counterexample
  (`Smallest`, from `WFMin` and `NatLessThanWellFounded`), so no induction theorem
  with an operator as a parameter is needed. By it: an item that has what the
  table asks for is not refused (`CompleteItemsConvert`); one that panics is a bare text
  or a node that holds one (`PanicsAreBare`); and a segment that was made shows its item
  and all items inside (`ConvertedIsShown`).
* *`LookupsFind`* relates what the table asks for (some key has a value that prints) to
  the first key the lookups find, and `InTurnResult` says what the loops over items give:
  the first that is refused or panics, else all.
* *Whole replies*: a legacy text, a forward message, an action for each item
  (`LegacyReplies`, `ForwardReplies`, `ItemReplies`, together `RepliesConvert`).
* *Exchanges*: `ConversionInv` adds to `ExchangesOK` of `ChatProofs` that an exchange with
  a reply has the outcome of converting that reply for its own event. The stage alone
  would not be inductive for the property: it says nothing about how the actions at
  hand came about.

Only model-checked is liveness (`EveryItemSettles`, `SessionsAreReaped`,
`EndedSessionsLetGo`, `EveryEventIsTaken`, `WorkEnds`, `RecallAnswers`, `TurnsEnd`,
`RequestsEnd`), which is out of the prover's reach. Every other property of the
passing runs is stated by a theorem.

## 5. Not modelled, and the plan

Left out, and why:

* the legacy modules (`bilibili`, `tsperson`, ...), which the registry does not
  load, and the legacy Gateway handlers, which are reached only without
  `BRAIN_BASE_URL` and return no action; migrations, scripts and deployment;
* wording: prompts, notices, logging, HTML and JSON parsing, the parsing of
  commands, tokenising a text into topics, search scores (a table in the model);
* `BrainMessageItemsToCQString` and `NewTextReplyAction`, which only tests call; the
  image, video and reply fields and the primary type of an event, which decide
  nothing in Brain; columns that are written and never read;
* commands that only read; the AI trigger by reply, which is off by default;
* the Gateway without `OUTBOX_TOKEN`, which has no pollers and is `Gateway` alone.

Assumptions of the models: a database fault has no effect; the LIMITs of the
searches and of a sweep (500 rows) are not reached; the extractor is configured;
the index run at the end of an extraction is the index command of `MemoryRecall`
and is not repeated in the job; a service that wants to reply without having
handled counts as having handled; a private chat has no group, but a private
event that names one belongs to its conversation; what a memory command does is
in `MemoryService`, that it answers in `ChatTurn`; the data of a message item holds
no nulls and its lists hold items only; items whose conversion panics are not
among the outbox items, which Brain restricts to texts, images and videos.

What could come next: the legacy modules, once they are to be loaded again; the parsing
of commands and of the answers of the model, which the models take as parsed; and a
property for `memory_extractor.py:57` (a group is disabled while its extraction runs),
once it is decided what the job should do: the document says that a disabled group
is not extracted, the code looks at the setting only when the command comes.
