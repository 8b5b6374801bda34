------------------------------ MODULE ChatTurn ------------------------------
(***************************************************************************)
(* Chat requests at work in Brain (brain-python/services/chat.py,          *)
(* persistence.py, conversation_state.py and ai_runtime.py). Each request  *)
(* has a thread: it stores its message, refreshes the state of its         *)
(* conversation, looks for a handler, stores the response and refreshes    *)
(* the state again. Every statement is a transaction of its own and every  *)
(* remote call takes time, so the turns interleave; whatever fails in the  *)
(* database is logged and passed over.                                     *)
(*                                                                         *)
(* What a memory command does to the memory is MemoryService, what recall  *)
(* puts into a prompt is MemoryRecall.                                     *)
(***************************************************************************)
EXTENDS ChatRouting

CONSTANTS
    Turns,          \* the requests' threads
    Requests,       \* [conversation, speaker, topics, group, bodies, extras, mentioned]
    Behaviours,     \* what the remote services may say: service -> text -> answer
    AiSays,         \* what a model may answer
    Clock,          \* bound: the instants, in minutes, at which anything happens
    Faults          \* what may go wrong: "database", "restart"

VARIABLES
    now,            \* the time
    log,            \* messages and bot_responses
    views,          \* conversation_states, a view per conversation
    turns,          \* the threads
    said            \* what the remote services say in this behaviour

vars == <<now, log, views, turns, said>>

Conversations == {request.conversation : request \in Requests} \ {""}

ASSUME TurnAssumption ==
    /\ Clock \subseteq Nat /\ Clock # {}
    /\ AiSays \subseteq AiAnswers
    /\ Services \in Seq(Range(Services))
    /\ \A request \in Requests : request.extras \in Seq(Range(request.extras))

Idle == [stage |-> "idle", request |-> CHOOSE request \in Requests : TRUE, stored |-> FALSE,
         rows |-> <<>>, view |-> NoView, todo |-> <<>>, handler |-> 1, got |-> "text",
         response |-> NoResponse, prompt |-> NoView]

Init ==
    /\ now = CHOOSE n \in Clock : \A m \in Clock : n <= m
    /\ log = <<>>
    /\ views = [c \in Conversations |-> NoView]
    /\ turns = [t \in Turns |-> Idle]
    /\ said \in Behaviours

At(t, stage) == turns[t].stage = stage
Go(t, stage) == turns' = [turns EXCEPT ![t].stage = stage]
Conv(t) == turns[t].request.conversation

\* Mutant of Refreshed: the second refresh leads back to storing the response.
RefreshedBack(turn) == IF turn.response = NoResponse THEN "routing" ELSE "answering"

\* Where a turn goes on after a refresh, done or failed.
Refreshed(turn) == IF turn.response = NoResponse THEN "routing" ELSE "done"

\* An answer is found: it is stored when the message was.
Answer(before, t, response) ==
    turns' = [before EXCEPT ![t].response = response,
                            ![t].stage = IF response.route = "raised" THEN "raised"
                                         ELSE IF turns[t].stored THEN "answering" ELSE "done"]
Respond(t, response) == Answer(turns, t, response)

-----------------------------------------------------------------------------
(* The message and the state of the conversation.                          *)

\* A request that names no conversation is not stored.
Receive(t, request) ==
    /\ At(t, "idle")
    /\ turns' = [turns EXCEPT ![t] = [Idle EXCEPT
            !.stage = IF request.conversation = "" THEN "routing" ELSE "storing",
            !.request = request, !.todo = ModuleTexts(request)]]
    /\ UNCHANGED <<now, log, views, said>>

\* conversations, message_events_raw and messages in one statement.
StoreMessage(t) ==
    LET request == turns[t].request
    IN  /\ At(t, "storing")
        /\ log' = Append(log, [kind |-> "message", turn |-> t, conversation |-> request.conversation,
                               speaker |-> request.speaker, topics |-> request.topics,
                               handled |-> FALSE, replied |-> FALSE, at |-> now])
        /\ turns' = [turns EXCEPT ![t].stage = "messages", ![t].stored = TRUE]
        /\ UNCHANGED <<now, views, said>>

\* The refresh: the conversation of the message and its recent messages, the
\* replies of the last day, then the view derived from both. A view replaces
\* whatever view is stored.
ReadMessages(t) ==
    /\ At(t, "messages")
    /\ turns' = [turns EXCEPT ![t].rows = RecentMessages(log, Conv(t), now), ![t].stage = "stats"]
    /\ UNCHANGED <<now, log, views, said>>

\* Mutant of ReadStats: the replies of another conversation are counted.
ReadStatsAnywhere(t) ==
    /\ At(t, "stats")
    /\ \E c \in Conversations :
            turns' = [turns EXCEPT ![t].view = Derive(turns[t].rows, BotStats(log, c, now), now),
                                   ![t].rows = <<>>, ![t].stage = "view"]
    /\ UNCHANGED <<now, log, views, said>>

ReadStats(t) ==
    /\ At(t, "stats")
    /\ turns' = [turns EXCEPT ![t].view = Derive(turns[t].rows, BotStats(log, Conv(t), now), now),
                              ![t].rows = <<>>, ![t].stage = "view"]
    /\ UNCHANGED <<now, log, views, said>>

WriteView(t) ==
    /\ At(t, "view")
    /\ views' = [views EXCEPT ![Conv(t)] = turns[t].view]
    /\ turns' = [turns EXCEPT ![t].view = NoView, ![t].stage = Refreshed(turns[t])]
    /\ UNCHANGED <<now, log, said>>

\* bot_responses, for every response whether it was handled or not. Only a
\* reply changes the state.
StoreResponse(t) ==
    LET response == turns[t].response
    IN  /\ At(t, "answering")
        /\ log' = Append(log, [kind |-> "response", turn |-> t, conversation |-> Conv(t),
                               speaker |-> "", topics |-> {}, handled |-> response.handled,
                               replied |-> response.replied, at |-> now])
        /\ Go(t, IF response.replied THEN "messages" ELSE "done")
        /\ UNCHANGED <<now, views, said>>

\* A statement fails; safe_persist_incoming, safe_update_from_... and
\* safe_persist_response log it and the turn goes on.
DatabaseFails(t) ==
    /\ "database" \in Faults
    /\ \/ At(t, "storing") /\ Go(t, "routing")
       \/ /\ turns[t].stage \in {"messages", "stats", "view"}
          /\ turns' = [turns EXCEPT ![t].rows = <<>>, ![t].view = NoView,
                                    ![t].stage = Refreshed(turns[t])]
       \/ At(t, "answering") /\ Go(t, "done")
    /\ UNCHANGED <<now, log, views, said>>

-----------------------------------------------------------------------------
(* Routing (_build_chat_response): for every text the memory commands, the *)
(* deterministic module and the remote services in turn.                   *)

RouteVars == <<now, log, views, said>>
Asks(t, h) == At(t, "routing") /\ turns[t].todo # <<>> /\ turns[t].handler = h
Text(t) == Head(turns[t].todo)
Group(t) == Selected(turns[t].request).group

TryMemory(t) ==
    /\ Asks(t, 1)
    /\ IF Text(t).command = "memory" THEN Respond(t, Response(TRUE, TRUE, "memory"))
       ELSE turns' = [turns EXCEPT ![t].handler = 2]
    /\ UNCHANGED RouteVars

TryModule(t) ==
    /\ Asks(t, 2)
    /\ IF Text(t).command = "tool-echo" THEN Respond(t, EchoModule(Text(t), Group(t)))
       ELSE turns' = [turns EXCEPT ![t].handler = 3]
    /\ UNCHANGED RouteVars

\* Mutant of TryService: a service that may not serve the group ends the search.
TryServiceStops(t, j) ==
    LET allowed == GroupAllowed(Services[j], Group(t))
        answer == IF allowed THEN said[Services[j]][Text(t)] ELSE "nothing"
    IN  /\ Asks(t, j + 2)
        /\ IF answer # "nothing" THEN Respond(t, Response(TRUE, answer = "reply", "remote"))
           ELSE turns' = [turns EXCEPT ![t].handler = IF allowed THEN j + 3 ELSE Len(Services) + 3]
        /\ UNCHANGED RouteVars

\* A service that may not serve the group is passed over; one that fails, or
\* handles nothing, leaves the text to the next.
TryService(t, j) ==
    LET answer == IF GroupAllowed(Services[j], Group(t)) THEN said[Services[j]][Text(t)] ELSE "nothing"
    IN  /\ Asks(t, j + 2)
        /\ IF answer # "nothing" THEN Respond(t, Response(TRUE, answer = "reply", "remote"))
           ELSE turns' = [turns EXCEPT ![t].handler = j + 3]
        /\ UNCHANGED RouteVars

\* Mutant of NextText: the text is kept.
NextTextAgain(t) ==
    /\ Asks(t, Len(Services) + 3)
    /\ turns' = [turns EXCEPT ![t].handler = 1]
    /\ UNCHANGED RouteVars

NextText(t) ==
    /\ Asks(t, Len(Services) + 3)
    /\ turns' = [turns EXCEPT ![t].todo = Tail(@), ![t].handler = 1]
    /\ UNCHANGED RouteVars

\* No handler for any text: the planner, the AI stage, or no route.
Fallback(t) ==
    LET request == turns[t].request
        text == Selected(request).text
    IN  /\ At(t, "routing") /\ turns[t].todo = <<>>
        /\ CASE text.command = "echo" -> Respond(t, Response(TRUE, text.argument, "planner"))
             [] text = NoText \/ (text.command # "echo" /\ Trigger(request) = "none") ->
                    Respond(t, Response(FALSE, FALSE, "no_route"))
             [] text # NoText /\ text.command # "echo" /\ Trigger(request) # "none" ->
                    IF AiAvailable(request) THEN Go(t, "prompting") ELSE Respond(t, AiDeclines(request))
        /\ UNCHANGED RouteVars

\* build_ai_response: the view is read for the prompt (or is not there, when
\* that fails), then the model is asked.
Prompt(t) ==
    /\ At(t, "prompting")
    /\ \E view \in (IF Conv(t) = "" THEN {NoView} ELSE {views[Conv(t)]})
                   \cup (IF "database" \in Faults THEN {NoView} ELSE {}) :
            turns' = [turns EXCEPT ![t].prompt = view, ![t].stage = "asking"]
    /\ UNCHANGED RouteVars

AskModel(t, got) ==
    /\ At(t, "asking")
    /\ Answer([turns EXCEPT ![t].got = got, ![t].prompt = NoView], t, AiResponse(turns[t].request, got))
    /\ UNCHANGED RouteVars

-----------------------------------------------------------------------------
Tick ==
    /\ \E n \in Clock : n > now /\ (\A m \in Clock : m > now => n <= m) /\ now' = n
    /\ UNCHANGED <<log, views, turns, said>>

\* Brain stops: the requests under way are answered by nobody.
Restart ==
    /\ "restart" \in Faults
    /\ turns' = [t \in Turns |-> IF turns[t].stage \in {"idle", "done", "raised"} THEN turns[t]
                                 ELSE [Idle EXCEPT !.stage = "lost"]]
    /\ turns' # turns
    /\ UNCHANGED <<now, log, views, said>>

Turn(t) ==
    \/ StoreMessage(t) \/ ReadMessages(t) \/ ReadStats(t) \/ WriteView(t) \/ StoreResponse(t)
    \/ TryMemory(t) \/ TryModule(t) \/ NextText(t) \/ Fallback(t) \/ Prompt(t)
    \/ \E j \in DOMAIN Services : TryService(t, j)
    \/ \E got \in AiSays : AskModel(t, got)

Next ==
    \/ Tick \/ Restart
    \/ \E t \in Turns : Turn(t) \/ DatabaseFails(t) \/ \E request \in Requests : Receive(t, request)

Spec == Init /\ [][Next]_vars
FairSpec == Spec /\ \A t \in Turns : WF_vars(Turn(t))

-----------------------------------------------------------------------------
\* docs/api/brain-api.md, "Routing Order", and "Persistence failures are logged
\* and treated as non-fatal for chat routing". Whatever fails in the database and
\* whatever the other turns do, the caller gets the answer the documents rank
\* first, but for two departures: a module that takes a text wins over a memory
\* command in a later text, and an odd answer of the model raises.
RouteIsExpected ==
    \A t \in Turns : turns[t].stage \in {"done", "raised", "answering"} =>
        turns[t].response \in {Documented(turns[t].request, said, turns[t].got)}
                             \cup Departures(turns[t].request, said, turns[t].got)

\* docs/api/brain-api.md, "Memory And AI": "Memory admin commands are checked
\* before deterministic and remote modules." So a request with a memory command
\* among its texts is answered by it.
MemoryComesFirst ==
    \A t \in Turns : At(t, "done") /\ MemoryAt(turns[t].request) # {} =>
        turns[t].response.route = "memory"

Rows(t, kind) == {k \in DOMAIN log : log[k].turn = t /\ log[k].kind = kind}

\* What is stored of a turn is what it did: one message, at most one response,
\* after the message and equal to what the caller gets; a turn that is still
\* looking for a response has stored none, and one that was never stored leaves
\* no trace.
TraceIsTrue ==
    \A t \in Turns :
        /\ Cardinality(Rows(t, "message")) <= 1 /\ Cardinality(Rows(t, "response")) <= 1
        /\ \A k \in Rows(t, "response") :
                /\ \E j \in Rows(t, "message") : j < k /\ log[j].conversation = log[k].conversation
                /\ At(t, "lost") \/ /\ turns[t].response # NoResponse
                                    /\ log[k].replied = turns[t].response.replied
        /\ turns[t].stored => Rows(t, "message") # {}

\* The state of a conversation mixes two readings, and the newer of two views
\* may be lost, but it is never made up: it is what the messages up to some
\* point and the replies up to a later point say, at instants in that order.
\* So every reply stored before the newest message in the view is counted too.
ViewIsCoherent ==
    \A c \in Conversations : views[c] # NoView =>
        \E n \in 0..Len(log), s, u \in {i \in Clock : i <= now} :
            /\ s <= u
            /\ \E k \in n..Len(log) :
                    views[c] = Derive(RecentMessages(SubSeq(log, 1, n), c, s),
                                      BotStats(SubSeq(log, 1, k), c, u), u)

\* Every request is answered, or fails visibly, unless Brain stops.
TurnsEnd == \A t \in Turns : ~At(t, "idle") ~> turns[t].stage \in {"done", "raised", "lost"}

=============================================================================
