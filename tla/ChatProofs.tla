----------------------------- MODULE ChatProofs -----------------------------
(***************************************************************************)
(* Theorems about chat requests at work, for any number of turns, requests *)
(* and conversations, any services, policies, answers and limits, and any  *)
(* pace of time; then about the exchanges of the Gateway they belong to.   *)
(***************************************************************************)
EXTENDS ChatExchange, FiniteSetTheorems, SequenceTheorems, TLAPS

(* The steps of a turn.                                                    *)

\* A turn has all its variables.
Variables == {"stage", "request", "stored", "rows", "view", "todo", "handler", "got",
              "response", "prompt"}
Shaped(turn) == DOMAIN turn = Variables /\ turn = [f \in Variables |-> turn[f]]

TurnsOK == turns = [t \in Turns |-> turns[t]] /\ \A t \in Turns : Shaped(turns[t])

\* Nobody else moves.
Moves(t, turn) == t \in Turns /\ Shaped(turn) /\ turns' = [turns EXCEPT ![t] = turn]

SameRequest(old, new) == new.request = old.request /\ new.stored = old.stored
SameSearch(old, new) ==
    new.todo = old.todo /\ new.handler = old.handler /\ new.got = old.got
        /\ new.response = old.response

\* What a step does to a turn.
Received(old, new) ==
    /\ old.stage = "idle"
    /\ \E request \in Requests :
            /\ new.request = request /\ new.todo = ModuleTexts(request)
            /\ new.stage = IF request.conversation = "" THEN "routing" ELSE "storing"
    /\ ~new.stored /\ new.handler = 1 /\ new.response = NoResponse

MessageStored(old, new) ==
    /\ old.stage = "storing" /\ new.stage = "messages"
    /\ new.request = old.request /\ new.stored /\ SameSearch(old, new)

MessagesRead(old, new) ==
    /\ old.stage = "messages" /\ new.stage = "stats"
    /\ SameRequest(old, new) /\ SameSearch(old, new)
    /\ new.rows = RecentMessages(log, old.request.conversation, now)

StatsRead(old, new) ==
    /\ old.stage = "stats" /\ new.stage = "view"
    /\ SameRequest(old, new) /\ SameSearch(old, new)
    /\ new.view = Derive(old.rows, BotStats(log, old.request.conversation, now), now)

\* The refresh is over, done or failed, or the message could not be stored.
WentOn(old, new) ==
    /\ \/ old.stage = "storing" /\ new.stage = "routing"
       \/ old.stage \in {"messages", "stats", "view"} /\ new.stage = Refreshed(old)
       \/ old.stage = "answering" /\ new.stage = "done"
    /\ SameRequest(old, new) /\ SameSearch(old, new)

ResponseStored(old, new) ==
    /\ old.stage = "answering"
    /\ new.stage = IF old.response.replied THEN "messages" ELSE "done"
    /\ SameRequest(old, new) /\ SameSearch(old, new)

\* Routing goes on, or has found a response.
LookedOn(old, new) ==
    /\ old.stage \in {"routing", "prompting"} /\ new.stage \in {"routing", "prompting", "asking"}
    /\ SameRequest(old, new) /\ new.response = old.response

Answered(old, new) ==
    /\ old.stage \in {"routing", "asking"} /\ new.response # NoResponse
    /\ new.stage = IF new.response.route = "raised" THEN "raised"
                   ELSE IF old.stored THEN "answering" ELSE "done"
    /\ SameRequest(old, new)

Lost(old, new) ==
    /\ old.stage \notin {"idle", "done", "raised"} /\ new.stage = "lost"
    /\ ~new.stored /\ new.response = NoResponse

-----------------------------------------------------------------------------
LEMMA IdleIsShaped == Shaped(Idle)
  BY DEF Shaped, Idle, Variables

\* A turn that Brain has forgotten.
Forgotten == [Idle EXCEPT !.stage = "lost"]

LEMMA ForgottenIsShaped ==
    /\ Shaped(Forgotten) /\ Forgotten.stage = "lost"
    /\ ~Forgotten.stored /\ Forgotten.response = NoResponse
  <1>1. Idle.stored = FALSE /\ Idle.response = NoResponse
    BY DEF Idle
  <1>2. QED
    BY <1>1, IdleIsShaped DEF Forgotten, Shaped, Variables

LEMMA ReceiveMoves ==
    ASSUME TurnsOK, NEW t \in Turns, NEW request \in Requests, Receive(t, request)
    PROVE  \E turn : Moves(t, turn) /\ Received(turns[t], turn) /\ turn.request = request
  <1> DEFINE stage == IF request.conversation = "" THEN "routing" ELSE "storing"
             turn == [Idle EXCEPT !.stage = stage, !.request = request,
                                  !.todo = ModuleTexts(request)]
  <1>1. turns' = [turns EXCEPT ![t] = turn] /\ turns[t].stage = "idle"
    BY DEF Receive, At
  <1>2. /\ Shaped(turn) /\ turn.stage = stage /\ turn.request = request
        /\ turn.todo = ModuleTexts(request) /\ ~turn.stored /\ turn.handler = 1
        /\ turn.response = NoResponse
    BY DEF Idle, Shaped, Variables
  <1> HIDE DEF turn
  <1>3. QED
    BY <1>1, <1>2 DEF Moves, Received

LEMMA StoreMessageMoves ==
    ASSUME TurnsOK, NEW t \in Turns, StoreMessage(t)
    PROVE  \E turn : Moves(t, turn) /\ MessageStored(turns[t], turn)
  <1> DEFINE turn == [turns[t] EXCEPT !.stage = "messages", !.stored = TRUE]
  <1>1. Shaped(turns[t])
    BY DEF TurnsOK
  <1>2. turns' = [turns EXCEPT ![t] = turn] /\ turns[t].stage = "storing"
    BY DEF StoreMessage, At, TurnsOK
  <1>3. Shaped(turn) /\ turn.stage = "messages" /\ turn.stored
        /\ turn.request = turns[t].request /\ SameSearch(turns[t], turn)
    BY <1>1 DEF Shaped, Variables, SameSearch
  <1> HIDE DEF turn
  <1>4. QED
    BY <1>2, <1>3 DEF Moves, MessageStored

LEMMA ReadMessagesMoves ==
    ASSUME TurnsOK, NEW t \in Turns, ReadMessages(t)
    PROVE  \E turn : Moves(t, turn) /\ MessagesRead(turns[t], turn)
  <1> DEFINE rows == RecentMessages(log, Conv(t), now)
             turn == [turns[t] EXCEPT !.rows = rows, !.stage = "stats"]
  <1>1. Shaped(turns[t])
    BY DEF TurnsOK
  <1>2. turns' = [turns EXCEPT ![t] = turn] /\ turns[t].stage = "messages"
    BY DEF ReadMessages, At, TurnsOK
  <1>3. rows = RecentMessages(log, turns[t].request.conversation, now)
    BY DEF Conv
  <1> HIDE DEF rows
  <1>4. Shaped(turn) /\ turn.stage = "stats" /\ turn.rows = rows
        /\ SameRequest(turns[t], turn) /\ SameSearch(turns[t], turn)
    BY <1>1 DEF Shaped, Variables, SameSearch, SameRequest
  <1> HIDE DEF turn
  <1>5. QED
    BY <1>2, <1>3, <1>4 DEF Moves, MessagesRead

LEMMA ReadStatsMoves ==
    ASSUME TurnsOK, NEW t \in Turns, ReadStats(t)
    PROVE  \E turn : Moves(t, turn) /\ StatsRead(turns[t], turn)
  <1> DEFINE view == Derive(turns[t].rows, BotStats(log, Conv(t), now), now)
             turn == [turns[t] EXCEPT !.view = view, !.rows = <<>>, !.stage = "view"]
  <1>1. Shaped(turns[t])
    BY DEF TurnsOK
  <1>2. turns' = [turns EXCEPT ![t] = turn] /\ turns[t].stage = "stats"
    BY DEF ReadStats, At, TurnsOK
  <1>3. view = Derive(turns[t].rows, BotStats(log, turns[t].request.conversation, now), now)
    BY DEF Conv
  <1> HIDE DEF view
  <1>4. Shaped(turn) /\ turn.stage = "view" /\ turn.view = view
        /\ SameRequest(turns[t], turn) /\ SameSearch(turns[t], turn)
    BY <1>1 DEF Shaped, Variables, SameSearch, SameRequest
  <1> HIDE DEF turn
  <1>5. QED
    BY <1>2, <1>3, <1>4 DEF Moves, StatsRead

LEMMA WriteViewMoves ==
    ASSUME TurnsOK, NEW t \in Turns, WriteView(t)
    PROVE  \E turn : Moves(t, turn) /\ WentOn(turns[t], turn)
  <1> DEFINE stage == Refreshed(turns[t])
             turn == [turns[t] EXCEPT !.view = NoView, !.stage = stage]
  <1>1. Shaped(turns[t])
    BY DEF TurnsOK
  <1>2. turns' = [turns EXCEPT ![t] = turn] /\ turns[t].stage = "view"
    BY DEF WriteView, At, TurnsOK
  <1> HIDE DEF stage
  <1>3. Shaped(turn) /\ turn.stage = stage
        /\ SameRequest(turns[t], turn) /\ SameSearch(turns[t], turn)
    BY <1>1 DEF Shaped, Variables, SameSearch, SameRequest
  <1> HIDE DEF turn
  <1>4. QED
    BY <1>2, <1>3 DEF Moves, WentOn, stage

LEMMA StoreResponseMoves ==
    ASSUME TurnsOK, NEW t \in Turns, StoreResponse(t)
    PROVE  \E turn : Moves(t, turn) /\ ResponseStored(turns[t], turn)
  <1> DEFINE stage == IF turns[t].response.replied THEN "messages" ELSE "done"
             turn == [turns[t] EXCEPT !.stage = stage]
  <1>1. Shaped(turns[t])
    BY DEF TurnsOK
  <1>2. turns' = [turns EXCEPT ![t] = turn] /\ turns[t].stage = "answering"
    BY DEF StoreResponse, At, Go, TurnsOK
  <1> HIDE DEF stage
  <1>3. Shaped(turn) /\ turn.stage = stage
        /\ SameRequest(turns[t], turn) /\ SameSearch(turns[t], turn)
    BY <1>1 DEF Shaped, Variables, SameSearch, SameRequest
  <1> HIDE DEF turn
  <1>4. QED
    BY <1>2, <1>3 DEF Moves, ResponseStored, stage

LEMMA DatabaseFailsMoves ==
    ASSUME TurnsOK, NEW t \in Turns, DatabaseFails(t)
    PROVE  \E turn : Moves(t, turn) /\ WentOn(turns[t], turn)
  <1>1. Shaped(turns[t])
    BY DEF TurnsOK
  <1>2. ASSUME NEW stage, Go(t, stage),
               \/ turns[t].stage = "storing" /\ stage = "routing"
               \/ turns[t].stage = "answering" /\ stage = "done"
        PROVE  \E turn : Moves(t, turn) /\ WentOn(turns[t], turn)
    <2> DEFINE turn == [turns[t] EXCEPT !.stage = stage]
    <2>1. turns' = [turns EXCEPT ![t] = turn]
      BY <1>2 DEF Go, TurnsOK
    <2>2. Shaped(turn) /\ turn.stage = stage
          /\ SameRequest(turns[t], turn) /\ SameSearch(turns[t], turn)
      BY <1>1 DEF Shaped, Variables, SameSearch, SameRequest
    <2> HIDE DEF turn
    <2>3. QED
      BY <1>2, <2>1, <2>2 DEF Moves, WentOn
  <1>3. CASE /\ turns[t].stage \in {"messages", "stats", "view"}
             /\ turns' = [turns EXCEPT ![t].rows = <<>>, ![t].view = NoView,
                                       ![t].stage = Refreshed(turns[t])]
    <2> DEFINE stage == Refreshed(turns[t])
               turn == [turns[t] EXCEPT !.rows = <<>>, !.view = NoView, !.stage = stage]
    <2>1. turns' = [turns EXCEPT ![t] = turn]
      BY <1>3 DEF TurnsOK
    <2> HIDE DEF stage
    <2>2. Shaped(turn) /\ turn.stage = stage
          /\ SameRequest(turns[t], turn) /\ SameSearch(turns[t], turn)
      BY <1>1 DEF Shaped, Variables, SameSearch, SameRequest
    <2> HIDE DEF turn
    <2>3. QED
      BY <1>3, <2>1, <2>2 DEF Moves, WentOn, stage
  <1>4. QED
    BY <1>2, <1>3 DEF DatabaseFails, At

\* The search goes on with another handler, another text or another stage.
Look(t, todo, handler, prompt, stage) ==
    turns' = [turns EXCEPT ![t] = [turns[t] EXCEPT !.todo = todo, !.handler = handler,
                                                   !.prompt = prompt, !.stage = stage]]

LEMMA LookMoves ==
    ASSUME TurnsOK, NEW t \in Turns, NEW todo, NEW handler, NEW prompt, NEW stage,
           turns[t].stage \in {"routing", "prompting"},
           stage \in {"routing", "prompting", "asking"},
           Look(t, todo, handler, prompt, stage)
    PROVE  \E turn : Moves(t, turn) /\ LookedOn(turns[t], turn)
  <1> DEFINE turn == [turns[t] EXCEPT !.todo = todo, !.handler = handler,
                                      !.prompt = prompt, !.stage = stage]
  <1>1. Shaped(turns[t])
    BY DEF TurnsOK
  <1>2. Shaped(turn) /\ turn.stage = stage /\ SameRequest(turns[t], turn)
        /\ turn.response = turns[t].response
    BY <1>1 DEF Shaped, Variables, SameRequest
  <1> HIDE DEF turn
  <1>3. QED
    BY <1>2 DEF Moves, LookedOn, Look, turn

\* The search is over.
Found(t, got, prompt, response, stage) ==
    turns' = [turns EXCEPT ![t] = [turns[t] EXCEPT !.got = got, !.prompt = prompt,
                                                   !.response = response, !.stage = stage]]

\* Where a turn goes with a response.
Onward(t, response) ==
    IF response.route = "raised" THEN "raised"
    ELSE IF turns[t].stored THEN "answering" ELSE "done"

LEMMA AnswerMoves ==
    ASSUME TurnsOK, NEW t \in Turns, NEW response, NEW got, NEW prompt,
           turns[t].stage \in {"routing", "asking"}, response # NoResponse,
           Found(t, got, prompt, response, Onward(t, response))
    PROVE  \E turn : Moves(t, turn) /\ Answered(turns[t], turn)
  <1> DEFINE stage == Onward(t, response)
             turn == [turns[t] EXCEPT !.got = got, !.prompt = prompt, !.response = response,
                                      !.stage = stage]
  <1>1. Shaped(turns[t])
    BY DEF TurnsOK
  <1> HIDE DEF stage
  <1>2. Shaped(turn) /\ turn.stage = stage /\ SameRequest(turns[t], turn)
        /\ turn.response = response
    BY <1>1 DEF Shaped, Variables, SameRequest
  <1>3. turns' = [turns EXCEPT ![t] = turn]
    BY DEF stage, Found
  <1> HIDE DEF turn
  <1>4. QED
    BY <1>2, <1>3 DEF Moves, Answered, Onward, stage

\* Every response has a route.
LEMMA RoutesAreNamed ==
    ASSUME NEW handled, NEW replied, NEW route, route # ""
    PROVE  Response(handled, replied, route) # NoResponse
  BY DEF Response, NoResponse

LEMMA ResponsesAreNamed ==
    /\ \A handled, replied : \A route \in {"memory", "module", "blocked", "remote", "planner",
                                           "no_route", "ai", "raised"} :
            Response(handled, replied, route) # NoResponse
    /\ \A text, group : EchoModule(text, group) # NoResponse
    /\ \A request : AiDeclines(request) # NoResponse
    /\ \A request : \A got \in AiSays : AiResponse(request, got) # NoResponse
  <1>1. \A handled, replied : \A route \in {"memory", "module", "blocked", "remote", "planner",
                                            "no_route", "ai", "raised"} :
            Response(handled, replied, route) # NoResponse
    BY RoutesAreNamed
  <1>2. /\ \A text, group : EchoModule(text, group) # NoResponse
        /\ \A request : AiDeclines(request) # NoResponse
    BY <1>1 DEF EchoModule, AiDeclines
  <1>3. \A request : \A got \in AiSays : AiResponse(request, got) # NoResponse
    <2>1. AiSays \subseteq {"text", "empty", "fails", "shape"}
      BY TurnAssumption DEF AiAnswers
    <2>2. QED
      BY <1>1, <1>2, <2>1 DEF AiResponse
  <1>4. QED
    BY <1>1, <1>2, <1>3

\* Variables that are not written keep what they hold.
LEMMA Unwritten ==
    ASSUME NEW turn, Shaped(turn)
    PROVE  /\ \A todo, handler : [turn EXCEPT !.todo = todo, !.handler = handler]
                = [turn EXCEPT !.todo = todo, !.handler = handler, !.prompt = turn.prompt,
                               !.stage = turn.stage]
           /\ \A handler : [turn EXCEPT !.handler = handler]
                = [turn EXCEPT !.todo = turn.todo, !.handler = handler,
                               !.prompt = turn.prompt, !.stage = turn.stage]
           /\ \A prompt, stage : [turn EXCEPT !.prompt = prompt, !.stage = stage]
                = [turn EXCEPT !.todo = turn.todo, !.handler = turn.handler,
                               !.prompt = prompt, !.stage = stage]
           /\ \A stage : [turn EXCEPT !.stage = stage]
                = [turn EXCEPT !.todo = turn.todo, !.handler = turn.handler,
                               !.prompt = turn.prompt, !.stage = stage]
           /\ \A response, stage : [turn EXCEPT !.response = response, !.stage = stage]
                = [turn EXCEPT !.got = turn.got, !.prompt = turn.prompt,
                               !.response = response, !.stage = stage]
  BY DEF Shaped, Variables

\* The steps of the search as such steps.
LEMMA RespondIsFound ==
    ASSUME TurnsOK, NEW t \in Turns, NEW response, Respond(t, response)
    PROVE  Found(t, turns[t].got, turns[t].prompt, response, Onward(t, response))
  <1> DEFINE stage == Onward(t, response)
  <1>1. turns' = [turns EXCEPT ![t] = [turns[t] EXCEPT !.response = response, !.stage = stage]]
    BY DEF Respond, Answer, TurnsOK, Onward
  <1> HIDE DEF stage
  <1>2. Found(t, turns[t].got, turns[t].prompt, response, stage)
    BY <1>1, Unwritten DEF TurnsOK, Found
  <1>3. QED
    BY <1>2 DEF stage

LEMMA AskIsFound ==
    ASSUME TurnsOK, NEW t \in Turns, NEW got, AskModel(t, got)
    PROVE  LET response == AiResponse(turns[t].request, got)
           IN  Found(t, got, NoView, response, Onward(t, response))
  <1> DEFINE response == AiResponse(turns[t].request, got)
             stage == Onward(t, response)
             before == [turns EXCEPT ![t].got = got, ![t].prompt = NoView]
  <1>1. before = [turns EXCEPT ![t] = [turns[t] EXCEPT !.got = got, !.prompt = NoView]]
    BY DEF TurnsOK
  <1>2. turns' = [before EXCEPT ![t].response = response, ![t].stage = stage]
    BY DEF AskModel, Answer, Onward
  <1> HIDE DEF response, stage, before
  <1>3. before[t] = [turns[t] EXCEPT !.got = got, !.prompt = NoView] /\ DOMAIN before = Turns
    BY <1>1 DEF TurnsOK
  <1>4. turns' = [before EXCEPT ![t] = [before[t] EXCEPT !.response = response, !.stage = stage]]
    BY <1>2, <1>3
  <1>5. Found(t, got, NoView, response, stage)
    BY <1>1, <1>3, <1>4 DEF TurnsOK, Found
  <1>6. QED
    BY <1>5 DEF response, stage

LEMMA PassIsLook ==
    ASSUME TurnsOK, NEW t \in Turns, NEW handler,
           turns' = [turns EXCEPT ![t].handler = handler]
    PROVE  Look(t, turns[t].todo, handler, turns[t].prompt, turns[t].stage)
  <1>1. turns' = [turns EXCEPT ![t] = [turns[t] EXCEPT !.handler = handler]]
    BY DEF TurnsOK
  <1>2. QED
    BY <1>1, Unwritten DEF TurnsOK, Look

LEMMA NextTextIsLook ==
    ASSUME TurnsOK, NEW t \in Turns, NextText(t)
    PROVE  Look(t, Tail(turns[t].todo), 1, turns[t].prompt, turns[t].stage)
  <1>1. turns' = [turns EXCEPT ![t] = [turns[t] EXCEPT !.todo = Tail(turns[t].todo),
                                                       !.handler = 1]]
    BY DEF NextText, TurnsOK
  <1>2. QED
    BY <1>1, Unwritten DEF TurnsOK, Look

LEMMA GoIsLook ==
    ASSUME TurnsOK, NEW t \in Turns, NEW stage, Go(t, stage)
    PROVE  Look(t, turns[t].todo, turns[t].handler, turns[t].prompt, stage)
  <1>1. turns' = [turns EXCEPT ![t] = [turns[t] EXCEPT !.stage = stage]]
    BY DEF Go, TurnsOK
  <1>2. QED
    BY <1>1, Unwritten DEF TurnsOK, Look

LEMMA PromptIsLook ==
    ASSUME TurnsOK, NEW t \in Turns, Prompt(t)
    PROVE  \E view : Look(t, turns[t].todo, turns[t].handler, view, "asking")
  <1>1. PICK view : turns' = [turns EXCEPT ![t].prompt = view, ![t].stage = "asking"]
    BY DEF Prompt
  <1>2. turns' = [turns EXCEPT ![t] = [turns[t] EXCEPT !.prompt = view, !.stage = "asking"]]
    BY <1>1 DEF TurnsOK
  <1>3. Look(t, turns[t].todo, turns[t].handler, view, "asking")
    BY <1>2, Unwritten DEF TurnsOK, Look
  <1>4. QED
    BY <1>3

\* A response is found while the texts are looked at.
LEMMA RespondMoves ==
    ASSUME TurnsOK, NEW t \in Turns, NEW response, turns[t].stage = "routing",
           response # NoResponse, Respond(t, response)
    PROVE  \E turn : Moves(t, turn) /\ Answered(turns[t], turn)
  BY RespondIsFound, AnswerMoves

\* The next handler.
LEMMA PassMoves ==
    ASSUME TurnsOK, NEW t \in Turns, NEW handler, turns[t].stage = "routing",
           turns' = [turns EXCEPT ![t].handler = handler]
    PROVE  \E turn : Moves(t, turn) /\ LookedOn(turns[t], turn)
  <1>1. Look(t, turns[t].todo, handler, turns[t].prompt, "routing")
    BY PassIsLook
  <1>2. QED
    BY <1>1, LookMoves

LEMMA RoutingMoves ==
    ASSUME TurnsOK, NEW t \in Turns,
           \/ TryMemory(t) \/ TryModule(t) \/ NextText(t) \/ Fallback(t) \/ Prompt(t)
           \/ \E j \in DOMAIN Services : TryService(t, j)
           \/ \E got \in AiSays : AskModel(t, got)
    PROVE  \E turn : Moves(t, turn) /\ (LookedOn(turns[t], turn) \/ Answered(turns[t], turn))
  <1>1. CASE TryMemory(t)
    BY <1>1, RespondMoves, PassMoves, ResponsesAreNamed DEF TryMemory, Asks, At
  <1>2. CASE TryModule(t)
    BY <1>2, RespondMoves, PassMoves, ResponsesAreNamed DEF TryModule, Asks, At
  <1>3. ASSUME NEW j \in DOMAIN Services, TryService(t, j)
        PROVE  \E turn : Moves(t, turn) /\ (LookedOn(turns[t], turn) \/ Answered(turns[t], turn))
    <2> DEFINE answer == IF GroupAllowed(Services[j], Group(t)) THEN said[Services[j]][Text(t)]
                         ELSE "nothing"
               replied == answer = "reply"
    <2>1. /\ turns[t].stage = "routing"
          /\ \/ Respond(t, Response(TRUE, replied, "remote"))
             \/ turns' = [turns EXCEPT ![t].handler = j + 3]
      BY <1>3 DEF TryService, Asks, At
    <2> HIDE DEF answer, replied
    <2>2. QED
      BY <2>1, RespondMoves, PassMoves, ResponsesAreNamed
  <1>4. CASE NextText(t)
    BY <1>4, NextTextIsLook, LookMoves DEF NextText, Asks, At
  <1>5. CASE Fallback(t)
    <2>1. CASE Go(t, "prompting")
      BY <1>5, <2>1, GoIsLook, LookMoves DEF Fallback, At
    <2>2. ASSUME ~Go(t, "prompting")
          PROVE  \E response : response # NoResponse /\ Respond(t, response)
      <3> DEFINE request == turns[t].request
                 text == Selected(request).text
      <3>1. \/ Respond(t, Response(TRUE, text.argument, "planner"))
            \/ Respond(t, Response(FALSE, FALSE, "no_route"))
            \/ Respond(t, AiDeclines(request))
        BY <1>5, <2>2 DEF Fallback
      <3> HIDE DEF request, text
      <3>2. QED
        BY <3>1, ResponsesAreNamed
    <2>3. turns[t].stage = "routing"
      BY <1>5 DEF Fallback, At
    <2>4. QED
      BY <2>1, <2>2, <2>3, RespondMoves
  <1>6. CASE Prompt(t)
    <2>1. PICK view : Look(t, turns[t].todo, turns[t].handler, view, "asking")
      BY <1>6, PromptIsLook
    <2>2. turns[t].stage \in {"routing", "prompting"}
      BY <1>6 DEF Prompt, At
    <2>3. QED
      BY <2>1, <2>2, LookMoves
  <1>7. ASSUME NEW got \in AiSays, AskModel(t, got)
        PROVE  \E turn : Moves(t, turn) /\ Answered(turns[t], turn)
    <2>1. turns[t].stage = "asking" /\ AiResponse(turns[t].request, got) # NoResponse
      BY <1>7, ResponsesAreNamed DEF AskModel, At
    <2>2. QED
      BY <1>7, <2>1, AskIsFound, AnswerMoves
  <1>8. QED
    BY <1>1, <1>2, <1>3, <1>4, <1>5, <1>6, <1>7

-----------------------------------------------------------------------------
(* A step of the system.                                                   *)

\* The rows a turn stores.
MessageRow(t) ==
    [kind |-> "message", turn |-> t, conversation |-> Conv(t),
     speaker |-> turns[t].request.speaker, topics |-> turns[t].request.topics,
     handled |-> FALSE, replied |-> FALSE, at |-> now]

ResponseRow(t) ==
    [kind |-> "response", turn |-> t, conversation |-> Conv(t), speaker |-> "", topics |-> {},
     handled |-> turns[t].response.handled, replied |-> turns[t].response.replied, at |-> now]

\* The turn looks for a handler.
Routes(t) ==
    \/ TryMemory(t) \/ TryModule(t) \/ NextText(t) \/ Fallback(t) \/ Prompt(t)
    \/ \E j \in DOMAIN Services : TryService(t, j)
    \/ \E got \in AiSays : AskModel(t, got)

\* What a step of one turn does to it and to the tables.
Acts(t) ==
    LET old == turns[t] new == turns'[t]
    IN  \/ /\ UNCHANGED <<log, views>>
           /\ \/ Received(old, new) \/ MessagesRead(old, new) \/ StatsRead(old, new)
              \/ WentOn(old, new)
              \/ Routes(t) /\ (LookedOn(old, new) \/ Answered(old, new))
        \/ /\ MessageStored(old, new)
           /\ log' = Append(log, MessageRow(t)) /\ UNCHANGED views
        \/ /\ ResponseStored(old, new)
           /\ log' = Append(log, ResponseRow(t)) /\ UNCHANGED views
        \/ /\ WentOn(old, new) /\ old.stage = "view" /\ UNCHANGED log
           /\ views' = [views EXCEPT ![Conv(t)] = old.view]

OthersRest(t) == \A other \in Turns \ {t} : turns'[other] = turns[other]

LEMMA MovesOne ==
    ASSUME TurnsOK, NEW t, NEW turn, Moves(t, turn)
    PROVE  TurnsOK' /\ turns'[t] = turn /\ OthersRest(t)
  BY DEF TurnsOK, Moves, OthersRest

\* A step lets time pass, is one of Brain or one of a turn.
LEMMA StepsAre ==
    ASSUME TurnsOK, Next
    PROVE  /\ TurnsOK' /\ UNCHANGED said
           /\ \/ Tick
              \/ /\ UNCHANGED <<log, views, now>>
                 /\ \A t \in Turns : turns'[t] = turns[t] \/ Lost(turns[t], turns'[t])
              \/ \E t \in Turns : Acts(t) /\ OthersRest(t) /\ UNCHANGED now
  <1> DEFINE One(t) == TurnsOK' /\ UNCHANGED <<said, now>> /\ Acts(t) /\ OthersRest(t)
  <1>1. CASE Tick
    BY <1>1 DEF Tick, TurnsOK
  <1>2. CASE Restart
    <2>1. \A t \in Turns :
                \/ turns'[t] = turns[t]
                \/ turns[t].stage \notin {"idle", "done", "raised"} /\ turns'[t] = Forgotten
      BY <1>2 DEF Restart, Forgotten
    <2>2. \A t \in Turns : Shaped(turns'[t])
      BY <2>1, ForgottenIsShaped DEF TurnsOK
    <2>3. turns' = [t \in Turns |-> turns'[t]]
      BY <1>2 DEF Restart
    <2>4. QED
      BY <1>2, <2>1, <2>2, <2>3, ForgottenIsShaped DEF Restart, TurnsOK, Lost
  <1>3. ASSUME NEW t \in Turns, NEW request \in Requests, Receive(t, request)
        PROVE  One(t)
    <2>1. UNCHANGED <<now, log, views, said>>
      BY <1>3 DEF Receive
    <2>2. \E turn : Moves(t, turn) /\ Received(turns[t], turn)
      BY <1>3, ReceiveMoves
    <2>3. QED
      BY <2>1, <2>2, MovesOne DEF Acts
  <1>4. ASSUME NEW t \in Turns, DatabaseFails(t)
        PROVE  One(t)
    <2>1. UNCHANGED <<now, log, views, said>>
      BY <1>4 DEF DatabaseFails
    <2>2. QED
      BY <1>4, <2>1, DatabaseFailsMoves, MovesOne DEF Acts
  <1>5. ASSUME NEW t \in Turns, StoreMessage(t)
        PROVE  One(t)
    BY <1>5, StoreMessageMoves, MovesOne DEF StoreMessage, Acts, MessageRow, Conv
  <1>6. ASSUME NEW t \in Turns, ReadMessages(t)
        PROVE  One(t)
    BY <1>6, ReadMessagesMoves, MovesOne DEF ReadMessages, Acts
  <1>7. ASSUME NEW t \in Turns, ReadStats(t)
        PROVE  One(t)
    BY <1>7, ReadStatsMoves, MovesOne DEF ReadStats, Acts
  <1>8. ASSUME NEW t \in Turns, WriteView(t)
        PROVE  One(t)
    <2>1. /\ UNCHANGED <<now, log, said>> /\ turns[t].stage = "view"
          /\ views' = [views EXCEPT ![Conv(t)] = turns[t].view]
      BY <1>8 DEF WriteView, At
    <2>2. QED
      BY <1>8, <2>1, WriteViewMoves, MovesOne DEF Acts
  <1>9. ASSUME NEW t \in Turns, StoreResponse(t)
        PROVE  One(t)
    <2>1. log' = Append(log, ResponseRow(t)) /\ UNCHANGED <<now, views, said>>
      BY <1>9 DEF StoreResponse, ResponseRow
    <2>2. QED
      BY <1>9, <2>1, StoreResponseMoves, MovesOne DEF Acts
  <1>10. ASSUME NEW t \in Turns, Routes(t)
         PROVE  One(t)
    <2>1. UNCHANGED <<now, log, views, said>>
      BY <1>10 DEF Routes, TryMemory, TryModule, NextText, Fallback, Prompt, TryService,
                   AskModel, RouteVars
    <2>2. \E turn : Moves(t, turn) /\ (LookedOn(turns[t], turn) \/ Answered(turns[t], turn))
      BY <1>10, RoutingMoves DEF Routes
    <2>3. QED
      BY <1>10, <2>1, <2>2, MovesOne DEF Acts
  <1> HIDE DEF One
  <1>11. QED
    <2>1. CASE \E t \in Turns : One(t)
      BY <2>1 DEF One
    <2>2. QED
      BY <1>1, <1>2, <1>3, <1>4, <1>5, <1>6, <1>7, <1>8, <1>9, <1>10, <2>1
         DEF Next, Turn, Routes

-----------------------------------------------------------------------------
(* What is stored of a turn.                                               *)

LogOK == log \in Seq(Range(log))

\* There is at most one message and one response, the response is stored last,
\* and how far a turn has come says which of them are there.
TraceOf(t) ==
    LET turn == turns[t]
        messages == Rows(t, "message")
        responses == Rows(t, "response")
    IN  /\ \A j, k \in messages : j = k
        /\ \A j, k \in responses : j = k
        /\ \A k \in responses :
                \E j \in messages : j < k /\ log[j].conversation = log[k].conversation
        /\ turn.stage = "lost" => ~turn.stored
        /\ turn.stage # "lost" =>
                /\ turn.stored <=> messages # {}
                /\ \A j \in messages : log[j].conversation = Conv(t)
                /\ \A k \in responses :
                        /\ turn.stage \in {"messages", "stats", "view", "done"}
                        /\ turn.response # NoResponse
                        /\ log[k].replied = turn.response.replied
                /\ turn.stage \in {"idle", "storing"} => ~turn.stored
                /\ turn.stage \in {"messages", "stats", "view", "answering"} => turn.stored
                /\ turn.stage \in {"idle", "storing", "routing", "prompting", "asking"} =>
                        turn.response = NoResponse
                /\ turn.stage = "answering" => turn.response # NoResponse

TraceInv == TurnsOK /\ LogOK /\ \A t \in Turns : TraceOf(t)

LEMMA LogFacts ==
    ASSUME LogOK
    PROVE  Len(log) \in Nat /\ DOMAIN log = 1..Len(log)
  BY DEF LogOK

\* A row is appended: the rows before it stay.
LEMMA LogGrows ==
    ASSUME LogOK, NEW row, log' = Append(log, row)
    PROVE  /\ LogOK' /\ Len(log') = Len(log) + 1
           /\ DOMAIN log' = DOMAIN log \cup {Len(log) + 1} /\ Len(log) + 1 \notin DOMAIN log
           /\ \A k \in DOMAIN log : log'[k] = log[k]
           /\ log'[Len(log) + 1] = row
           /\ \A n \in 0..Len(log) : SubSeq(log', 1, n) = SubSeq(log, 1, n)
  <1> DEFINE S == Range(log) \cup {row}
  <1>1. log \in Seq(Range(log)) /\ Len(log) \in Nat /\ DOMAIN log = 1..Len(log)
    BY DEF LogOK
  <1>2. log \in Seq(S)
    <2>1. \A k \in 1..Len(log) : log[k] \in S
      BY <1>1 DEF Range
    <2> HIDE DEF S
    <2>2. QED
      BY <1>1, <2>1
  <1>3. /\ log' \in Seq(S) /\ Len(log') = Len(log) + 1
        /\ DOMAIN log' = 1..(Len(log) + 1)
        /\ \A k \in DOMAIN log : log'[k] = log[k]
        /\ log'[Len(log) + 1] = row
    BY <1>1, <1>2
  <1>4. LogOK'
    <2>1. \A k \in 1..Len(log') : log'[k] \in Range(log')
      BY <1>1, <1>3 DEF Range
    <2> HIDE DEF S
    <2>2. log' \in Seq(Range(log'))
      BY <1>1, <1>3, <2>1
    <2>3. QED
      BY <2>2 DEF LogOK
  <1>5. ASSUME NEW n \in 0..Len(log)
        PROVE  SubSeq(log', 1, n) = SubSeq(log, 1, n)
    <2> HIDE DEF S
    <2>1. QED
      BY <1>1, <1>2, <1>3
  <1>6. QED
    BY <1>1, <1>3, <1>4, <1>5

\* The rows of a turn while another turn acts, or none.
LEMMA RowsStay ==
    ASSUME LogOK, NEW t, NEW kind,
           \/ log' = log
           \/ \E row : log' = Append(log, row) /\ (row.turn # t \/ row.kind # kind)
    PROVE  Rows(t, kind)' = Rows(t, kind) /\ \A k \in Rows(t, kind) : log'[k] = log[k]
  <1>1. CASE log' = log
    BY <1>1 DEF Rows
  <1>2. ASSUME NEW row, log' = Append(log, row), row.turn # t \/ row.kind # kind
        PROVE  Rows(t, kind)' = Rows(t, kind) /\ \A k \in Rows(t, kind) : log'[k] = log[k]
    BY <1>2, LogGrows DEF Rows
  <1>3. QED
    BY <1>1, <1>2

LEMMA RowJoins ==
    ASSUME LogOK, NEW t, NEW kind, NEW row, log' = Append(log, row),
           row.turn = t, row.kind = kind
    PROVE  /\ Rows(t, kind)' = Rows(t, kind) \cup {Len(log) + 1}
           /\ \A k \in Rows(t, kind) : k < Len(log) + 1 /\ log'[k] = log[k]
           /\ log'[Len(log) + 1] = row /\ Len(log) \in Nat
  BY LogGrows, LogFacts DEF Rows

\* A turn whose own rows and variables stay keeps its trace.
LEMMA TraceStays ==
    ASSUME LogOK, NEW t \in Turns, TraceOf(t), turns'[t] = turns[t],
           log' = log \/ \E row : log' = Append(log, row) /\ row.turn # t
    PROVE  TraceOf(t)'
  <1>1. /\ Rows(t, "message")' = Rows(t, "message")
        /\ Rows(t, "response")' = Rows(t, "response")
        /\ \A k \in Rows(t, "message") \cup Rows(t, "response") : log'[k] = log[k]
    BY RowsStay
  <1>2. QED
    BY <1>1 DEF TraceOf, Conv

LEMMA TraceStep ==
    ASSUME TurnsOK, LogOK, NEW t \in Turns, TraceOf(t), Acts(t)
    PROVE  TraceOf(t)'
  <1> DEFINE old == turns[t]
             new == turns'[t]
             M == Rows(t, "message")
             R == Rows(t, "response")
  <1>1. CASE UNCHANGED log
    <2>1. Rows(t, "message")' = M /\ Rows(t, "response")' = R
      BY <1>1 DEF Rows
    <2>2. CASE Received(old, new)
      <3>1. M = {} /\ R = {}
        BY <2>2 DEF Received, TraceOf
      <3>2. new.stage \in {"routing", "storing"} /\ ~new.stored /\ new.response = NoResponse
        BY <2>2 DEF Received
      <3>3. QED
        BY <2>1, <3>1, <3>2 DEF TraceOf
    <2>3. CASE Lost(old, new)
      BY <1>1, <2>1, <2>3 DEF TraceOf, Lost
    <2>4. CASE MessagesRead(old, new) \/ StatsRead(old, new)
      <3>1. /\ old.stage \in {"messages", "stats"} /\ new.stage \in {"stats", "view"}
            /\ SameRequest(old, new) /\ new.response = old.response
        BY <2>4 DEF MessagesRead, StatsRead, SameSearch
      <3>2. QED
        BY <1>1, <2>1, <3>1 DEF TraceOf, SameRequest, Conv
    <2>5. CASE WentOn(old, new)
      <3>1. SameRequest(old, new) /\ new.response = old.response
        BY <2>5 DEF WentOn, SameSearch
      <3>2. CASE old.stage = "storing" /\ new.stage = "routing"
        BY <1>1, <2>1, <3>1, <3>2 DEF TraceOf, SameRequest, Conv
      <3>3. CASE /\ old.stage \in {"messages", "stats", "view"}
                 /\ new.stage = IF old.response = NoResponse THEN "routing" ELSE "done"
        BY <1>1, <2>1, <3>1, <3>3 DEF TraceOf, SameRequest, Conv
      <3>4. CASE old.stage = "answering" /\ new.stage = "done"
        BY <1>1, <2>1, <3>1, <3>4 DEF TraceOf, SameRequest, Conv
      <3>5. QED
        BY <2>5, <3>2, <3>3, <3>4 DEF WentOn, Refreshed
    <2>6. CASE LookedOn(old, new)
      BY <1>1, <2>1, <2>6 DEF TraceOf, SameRequest, Conv, LookedOn
    <2>7. CASE Answered(old, new)
      BY <1>1, <2>1, <2>7 DEF TraceOf, SameRequest, Conv, Answered
    <2>8. QED
      BY <2>2, <2>4, <2>5, <2>6, <2>7, <1>1 DEF Acts
  <1>2. CASE MessageStored(old, new) /\ log' = Append(log, MessageRow(t))
    <2> DEFINE row == MessageRow(t)
    <2>1. row.turn = t /\ row.kind = "message" /\ row.conversation = Conv(t)
      BY DEF MessageRow
    <2> HIDE DEF row
    <2>2. M = {} /\ R = {}
      BY <1>2 DEF TraceOf, MessageStored
    <2>3. Rows(t, "message")' = {Len(log) + 1} /\ log'[Len(log) + 1] = row
      BY <1>2, <2>1, <2>2, RowJoins DEF row
    <2>4. Rows(t, "response")' = {}
      BY <1>2, <2>1, <2>2, RowsStay DEF row
    <2>5. /\ new.stage = "messages" /\ new.stored /\ new.request = old.request
          /\ new.response = old.response /\ old.stage = "storing"
      BY <1>2 DEF MessageStored, SameSearch
    <2>6. Conv(t)' = Conv(t)
      BY <2>5 DEF Conv
    <2>7. QED
      BY <2>1, <2>3, <2>4, <2>5, <2>6 DEF TraceOf
  <1>3. CASE ResponseStored(old, new) /\ log' = Append(log, ResponseRow(t))
    <2> DEFINE row == ResponseRow(t)
    <2>1. /\ row.turn = t /\ row.kind = "response" /\ row.conversation = Conv(t)
          /\ row.replied = old.response.replied
      BY DEF ResponseRow
    <2> HIDE DEF row
    <2>2. /\ old.stage = "answering" /\ new.stage \in {"messages", "done"}
          /\ SameRequest(old, new) /\ new.response = old.response
      BY <1>3 DEF ResponseStored, SameSearch
    <2>3. R = {} /\ M # {} /\ old.stored /\ old.response # NoResponse
          /\ \A j \in M : log[j].conversation = Conv(t)
      BY <2>2 DEF TraceOf
    <2>4. Rows(t, "response")' = {Len(log) + 1} /\ log'[Len(log) + 1] = row
      BY <1>3, <2>1, <2>3, RowJoins DEF row
    <2>5. Rows(t, "message")' = M /\ \A j \in M : log'[j] = log[j]
      BY <1>3, <2>1, RowsStay DEF row
    <2>6. \A j \in M : j < Len(log) + 1
      BY LogFacts DEF Rows
    <2>7. Conv(t)' = Conv(t)
      BY <2>2 DEF Conv, SameRequest
    <2> HIDE DEF M
    <2>8. QED
      BY <2>1, <2>2, <2>3, <2>4, <2>5, <2>6, <2>7 DEF TraceOf, SameRequest, M
  <1>4. QED
    BY <1>1, <1>2, <1>3 DEF Acts

LEMMA TraceInvStep ==
    ASSUME TraceInv, [Next]_vars
    PROVE  TraceInv'
  <1>1. TurnsOK /\ LogOK
    BY DEF TraceInv
  <1>2. CASE UNCHANGED vars
    <2>1. log' = log /\ turns' = turns
      BY <1>2 DEF vars
    <2>2. \A t \in Turns : TraceOf(t)'
      BY <2>1, <1>1, TraceStays DEF TraceInv
    <2>3. QED
      BY <1>1, <2>1, <2>2 DEF TraceInv, TurnsOK, LogOK
  <1>3. CASE Next
    <2>1. TurnsOK'
      BY <1>1, <1>3, StepsAre
    <2>2. CASE Tick
      BY <1>1, <2>1, <2>2, TraceStays DEF Tick, TraceInv, LogOK
    <2>3. CASE /\ UNCHANGED log
               /\ \A t \in Turns : turns'[t] = turns[t] \/ Lost(turns[t], turns'[t])
      <3>1. ASSUME NEW t \in Turns
            PROVE  TraceOf(t)'
        <4>1. CASE turns'[t] = turns[t]
          BY <1>1, <2>3, <4>1, TraceStays DEF TraceInv
        <4>2. CASE Lost(turns[t], turns'[t])
          <5>1. TraceOf(t)
            BY DEF TraceInv
          <5>2. Rows(t, "message")' = Rows(t, "message")
                /\ Rows(t, "response")' = Rows(t, "response")
            BY <2>3 DEF Rows
          <5>3. QED
            BY <2>3, <4>2, <5>1, <5>2 DEF TraceOf, Lost
        <4>3. QED
          BY <2>3, <4>1, <4>2
      <3>2. QED
        BY <1>1, <2>1, <2>3, <3>1 DEF TraceInv, LogOK
    <2>4. ASSUME NEW t \in Turns, Acts(t), OthersRest(t)
          PROVE  TraceInv'
      <3>1. /\ LogOK'
            /\ log' = log \/ \E row : log' = Append(log, row) /\ row.turn = t
        <4>1. MessageRow(t).turn = t /\ ResponseRow(t).turn = t
          BY DEF MessageRow, ResponseRow
        <4>2. log' = log \/ \E row : log' = Append(log, row) /\ row.turn = t
          BY <2>4, <4>1 DEF Acts
        <4>3. QED
          BY <1>1, <4>2, LogGrows DEF LogOK
      <3>2. ASSUME NEW other \in Turns \ {t}
            PROVE  TraceOf(other)'
        <4>1. turns'[other] = turns[other] /\ TraceOf(other)
          BY <2>4 DEF OthersRest, TraceInv
        <4>2. QED
          BY <1>1, <3>1, <4>1, TraceStays
      <3>3. TraceOf(t)'
        BY <1>1, <2>4, TraceStep DEF TraceInv
      <3>4. QED
        BY <2>1, <3>1, <3>2, <3>3 DEF TraceInv
    <2>5. QED
      BY <1>1, <1>3, <2>2, <2>3, <2>4, StepsAre
  <1>4. QED
    BY <1>2, <1>3

LEMMA AtMostOne ==
    ASSUME NEW S, \A j, k \in S : j = k
    PROVE  Cardinality(S) <= 1
  <1>1. CASE S = {}
    BY <1>1, FS_EmptySet
  <1>2. ASSUME NEW x \in S
        PROVE  Cardinality(S) <= 1
    <2>1. S = {x}
      BY <1>2
    <2>2. QED
      BY <2>1, FS_Singleton
  <1>3. QED
    BY <1>1, <1>2

\* What is stored of a turn is what it did, whatever fails in the database and
\* whenever Brain is restarted (persistence.py): at most one message, at most one
\* response, after it and equal to what the caller gets.
THEOREM TracesAreTrue == Spec => []TraceIsTrue
  <1>1. Init => TraceInv
    <2> SUFFICES ASSUME Init PROVE TraceInv
      OBVIOUS
    <2>1. turns = [t \in Turns |-> Idle] /\ log = <<>>
      BY DEF Init
    <2>2. TurnsOK
      BY <2>1, IdleIsShaped DEF TurnsOK
    <2>3. LogOK
      BY <2>1 DEF LogOK
    <2>4. \A t \in Turns, kind \in {"message", "response"} : Rows(t, kind) = {}
      BY <2>1 DEF Rows
    <2>5. \A t \in Turns : turns[t].stage = "idle" /\ turns[t].stored = FALSE
                           /\ turns[t].response = NoResponse
      BY <2>1 DEF Idle
    <2>6. QED
      BY <2>2, <2>3, <2>4, <2>5 DEF TraceInv, TraceOf
  <1>2. TraceInv /\ [Next]_vars => TraceInv'
    BY TraceInvStep
  <1>3. TraceInv => TraceIsTrue
    <2> SUFFICES ASSUME TraceInv, NEW t \in Turns
                 PROVE  /\ Cardinality(Rows(t, "message")) <= 1
                        /\ Cardinality(Rows(t, "response")) <= 1
                        /\ \A k \in Rows(t, "response") :
                              /\ \E j \in Rows(t, "message") :
                                    j < k /\ log[j].conversation = log[k].conversation
                              /\ At(t, "lost") \/ /\ turns[t].response # NoResponse
                                                  /\ log[k].replied = turns[t].response.replied
                        /\ turns[t].stored => Rows(t, "message") # {}
      BY DEF TraceIsTrue
    <2>1. TraceOf(t)
      BY DEF TraceInv
    <2>2. /\ Cardinality(Rows(t, "message")) <= 1
          /\ Cardinality(Rows(t, "response")) <= 1
      BY <2>1, AtMostOne DEF TraceOf
    <2>3. QED
      BY <2>1, <2>2 DEF TraceOf, At
  <1>4. QED
    BY <1>1, <1>2, <1>3, PTL DEF Spec

-----------------------------------------------------------------------------
(* What a view says.                                                       *)

Past == {i \in Clock : i <= now}

\* It is derived from the messages up to some row and the replies up to a later
\* one, at instants in that order.
Says(c, view) ==
    \E n \in 0..Len(log), s, u \in Past :
        /\ s <= u
        /\ \E k \in n..Len(log) :
                view = Derive(RecentMessages(SubSeq(log, 1, n), c, s),
                              BotStats(SubSeq(log, 1, k), c, u), u)

\* The first half of a refresh: the messages up to some row, at an instant.
Reads(c, rows) ==
    \E n \in 0..Len(log), s \in Past : rows = RecentMessages(SubSeq(log, 1, n), c, s)

\* What a turn has read, and what it has derived.
HoldsReading(t) ==
    /\ turns[t].stage = "stats" => Reads(Conv(t), turns[t].rows)
    /\ turns[t].stage = "view" => Says(Conv(t), turns[t].view)

ViewsOK == views = [c \in Conversations |-> views[c]]

ViewInv ==
    /\ TurnsOK /\ LogOK /\ ViewsOK /\ now \in Clock
    /\ \A t \in Turns : HoldsReading(t)
    /\ \A c \in Conversations : views[c] # NoView => Says(c, views[c])

\* What was said once stays said: rows are only appended, and time only passes.
SaysStill == \A c, view : Says(c, view) => Says(c, view)'
ReadsStill == \A c, rows : Reads(c, rows) => Reads(c, rows)'

LEMMA LogStays ==
    ASSUME LogOK, log' = log \/ \E row : log' = Append(log, row)
    PROVE  /\ LogOK' /\ Len(log) \in Nat /\ Len(log') \in Nat /\ Len(log) <= Len(log')
           /\ \A n \in 0..Len(log) : SubSeq(log', 1, n) = SubSeq(log, 1, n)
  <1>1. Len(log) \in Nat
    BY LogFacts
  <1>2. CASE log' = log
    <2>1. LogOK'
      BY <1>2 DEF LogOK
    <2>2. QED
      BY <1>1, <1>2, <2>1
  <1>3. ASSUME NEW row, log' = Append(log, row)
        PROVE  /\ LogOK' /\ Len(log') = Len(log) + 1
               /\ \A n \in 0..Len(log) : SubSeq(log', 1, n) = SubSeq(log, 1, n)
    BY <1>3, LogGrows
  <1>4. QED
    BY <1>1, <1>2, <1>3

LEMMA PastStays ==
    ASSUME LogOK, now \in Clock, now' \in Clock, now <= now',
           log' = log \/ \E row : log' = Append(log, row)
    PROVE  LogOK' /\ SaysStill /\ ReadsStill
  <1>1. LogOK' /\ Len(log) <= Len(log') /\ Len(log) \in Nat /\ Len(log') \in Nat
        /\ \A n \in 0..Len(log) : SubSeq(log', 1, n) = SubSeq(log, 1, n)
    BY LogStays
  <1>2. ASSUME NEW i \in Past
        PROVE  i \in Past'
    <2>1. now \in Nat /\ now' \in Nat /\ i \in Nat /\ i \in Clock /\ i <= now /\ now <= now'
      BY TurnAssumption DEF Past
    <2>2. i <= now'
      BY <2>1
    <2>3. QED
      BY <2>1, <2>2 DEF Past
  <1>3. ASSUME NEW c, NEW view, Says(c, view)
        PROVE  Says(c, view)'
    <2>1. PICK n \in 0..Len(log), s \in Past, u \in Past :
              /\ s <= u
              /\ \E k \in n..Len(log) :
                    view = Derive(RecentMessages(SubSeq(log, 1, n), c, s),
                                  BotStats(SubSeq(log, 1, k), c, u), u)
      BY <1>3 DEF Says
    <2>2. PICK k \in n..Len(log) :
                view = Derive(RecentMessages(SubSeq(log, 1, n), c, s),
                              BotStats(SubSeq(log, 1, k), c, u), u)
      BY <2>1
    <2>3. /\ n \in 0..Len(log') /\ k \in n..Len(log') /\ s \in Past' /\ u \in Past'
          /\ SubSeq(log', 1, n) = SubSeq(log, 1, n) /\ SubSeq(log', 1, k) = SubSeq(log, 1, k)
      BY <1>1, <1>2
    <2>4. view = Derive(RecentMessages(SubSeq(log', 1, n), c, s),
                        BotStats(SubSeq(log', 1, k), c, u), u)
      BY <2>2, <2>3
    <2>5. QED
      BY <2>1, <2>3, <2>4 DEF Says
  <1>4. ASSUME NEW c, NEW rows, Reads(c, rows)
        PROVE  Reads(c, rows)'
    <2>1. PICK n \in 0..Len(log), s \in Past : rows = RecentMessages(SubSeq(log, 1, n), c, s)
      BY <1>4 DEF Reads
    <2>2. n \in 0..Len(log') /\ s \in Past' /\ SubSeq(log', 1, n) = SubSeq(log, 1, n)
      BY <1>1, <1>2
    <2>3. rows = RecentMessages(SubSeq(log', 1, n), c, s)
      BY <2>1, <2>2
    <2>4. QED
      BY <2>2, <2>3 DEF Reads
  <1>5. QED
    BY <1>1, <1>3, <1>4 DEF SaysStill, ReadsStill

\* A turn that rests, or goes on to another stage, holds what it has read.
LEMMA HoldingStays ==
    ASSUME SaysStill, ReadsStill, NEW t \in Turns, HoldsReading(t),
           turns'[t] = turns[t] \/ turns'[t].stage \notin {"stats", "view"}
    PROVE  HoldsReading(t)'
  <1>1. CASE turns'[t].stage \notin {"stats", "view"}
    BY <1>1 DEF HoldsReading
  <1>2. CASE turns'[t] = turns[t]
    <2>1. Conv(t)' = Conv(t)
      BY <1>2 DEF Conv
    <2>2. turns[t].stage = "view" => Says(Conv(t), turns[t].view)'
      BY <1>2, <2>1 DEF HoldsReading, SaysStill
    <2>3. turns[t].stage = "stats" => Reads(Conv(t), turns[t].rows)'
      BY <1>2, <2>1 DEF HoldsReading, ReadsStill
    <2>4. QED
      BY <1>2, <2>1, <2>2, <2>3 DEF HoldsReading
  <1>3. QED
    BY <1>1, <1>2

\* A turn that acts holds what it has just read.
LEMMA HoldingStep ==
    ASSUME LogOK, SaysStill, ReadsStill, now \in Clock, NEW t \in Turns, HoldsReading(t),
           Acts(t), UNCHANGED now
    PROVE  HoldsReading(t)'
  <1> DEFINE old == turns[t]
             new == turns'[t]
  <1>1. Len(log) \in Nat /\ SubSeq(log, 1, Len(log)) = log
    BY LogFacts DEF LogOK
  <1>2. now \in Past
    <2>1. now \in Nat
      BY TurnAssumption
    <2>2. QED
      BY <2>1 DEF Past
  <1>3. CASE MessagesRead(old, new) /\ UNCHANGED log
    <2>1. /\ new.stage = "stats" /\ new.request = old.request
          /\ new.rows = RecentMessages(log, old.request.conversation, now)
      BY <1>3 DEF MessagesRead, SameRequest
    <2>2. Reads(old.request.conversation, new.rows)
      <3>1. Len(log) \in 0..Len(log)
        BY <1>1
      <3>2. new.rows = RecentMessages(SubSeq(log, 1, Len(log)), old.request.conversation, now)
        BY <1>1, <2>1
      <3>3. QED
        BY <1>2, <3>1, <3>2 DEF Reads
    <2>3. Conv(t)' = old.request.conversation
      BY <2>1 DEF Conv
    <2>4. QED
      BY <2>1, <2>2, <2>3 DEF HoldsReading, ReadsStill
  <1>4. CASE StatsRead(old, new) /\ UNCHANGED log
    <2> DEFINE c == old.request.conversation
    <2>1. /\ old.stage = "stats" /\ new.stage = "view" /\ new.request = old.request
          /\ new.view = Derive(old.rows, BotStats(log, c, now), now)
      BY <1>4 DEF StatsRead, SameRequest
    <2>2. PICK n \in 0..Len(log), s \in Past : old.rows = RecentMessages(SubSeq(log, 1, n), c, s)
      BY <2>1 DEF HoldsReading, Reads, Conv
    <2>3. Says(c, new.view)
      <3>1. s <= now /\ Len(log) \in n..Len(log)
        BY <1>1, <2>2 DEF Past
      <3>2. new.view = Derive(RecentMessages(SubSeq(log, 1, n), c, s),
                              BotStats(SubSeq(log, 1, Len(log)), c, now), now)
        BY <1>1, <2>1, <2>2
      <3> HIDE DEF c, new
      <3>3. \E k \in n..Len(log) :
                new.view = Derive(RecentMessages(SubSeq(log, 1, n), c, s),
                                  BotStats(SubSeq(log, 1, k), c, now), now)
        BY <3>1, <3>2
      <3>4. QED
        BY <1>2, <2>2, <3>1, <3>3 DEF Says
    <2>4. Conv(t)' = c
      BY <2>1 DEF Conv
    <2>5. QED
      BY <2>1, <2>3, <2>4 DEF HoldsReading, SaysStill
  <1>5. ASSUME ~MessagesRead(old, new), ~StatsRead(old, new)
        PROVE  HoldsReading(t)'
    <2>1. new.stage \notin {"stats", "view"}
      BY <1>5 DEF Acts, Received, WentOn, Refreshed, LookedOn, Answered, MessageStored,
                  ResponseStored
    <2>2. QED
      BY <2>1, HoldingStays
  <1>6. QED
    BY <1>3, <1>4, <1>5 DEF Acts, MessageStored, ResponseStored, MessagesRead, StatsRead, WentOn

LEMMA ViewInvStep ==
    ASSUME ViewInv, [Next]_vars
    PROVE  ViewInv'
  <1>1. TurnsOK /\ LogOK /\ ViewsOK /\ now \in Clock /\ now \in Nat
    BY TurnAssumption DEF ViewInv
  <1>2. CASE UNCHANGED vars
    BY <1>2 DEF vars, ViewInv, TurnsOK, LogOK, ViewsOK, HoldsReading, Says, Reads, Past, Conv
  <1>3. CASE Next
    <2>1. TurnsOK'
      BY <1>1, <1>3, StepsAre
    <2>2. CASE Tick
      <3>1. now' \in Clock /\ now <= now' /\ UNCHANGED <<log, views, turns>>
        BY <1>1, <2>2, TurnAssumption DEF Tick
      <3>2. LogOK' /\ SaysStill /\ ReadsStill
        BY <1>1, <3>1, PastStays
      <3>3. \A t \in Turns : HoldsReading(t)'
        BY <3>1, <3>2, HoldingStays DEF ViewInv
      <3>4. \A c \in Conversations : views'[c] # NoView => Says(c, views[c])'
        BY <3>1, <3>2 DEF ViewInv, SaysStill
      <3>5. QED
        BY <1>1, <2>1, <3>1, <3>2, <3>3, <3>4 DEF ViewInv, ViewsOK
    <2>3. CASE /\ UNCHANGED <<log, views, now>>
               /\ \A t \in Turns : turns'[t] = turns[t] \/ Lost(turns[t], turns'[t])
      <3>1. LogOK' /\ SaysStill /\ ReadsStill
        BY <1>1, <2>3, PastStays
      <3>2. \A t \in Turns : HoldsReading(t)'
        BY <2>3, <3>1, HoldingStays DEF ViewInv, Lost
      <3>3. \A c \in Conversations : views'[c] # NoView => Says(c, views[c])'
        BY <2>3, <3>1 DEF ViewInv, SaysStill
      <3>4. QED
        BY <1>1, <2>1, <2>3, <3>1, <3>2, <3>3 DEF ViewInv, ViewsOK
    <2>4. ASSUME NEW t \in Turns, Acts(t), OthersRest(t), UNCHANGED now
          PROVE  ViewInv'
      <3>1. log' = log \/ \E row : log' = Append(log, row)
        BY <2>4 DEF Acts
      <3>2. LogOK' /\ SaysStill /\ ReadsStill
        BY <1>1, <2>4, <3>1, PastStays
      <3>3. \A other \in Turns : HoldsReading(other)'
        BY <1>1, <2>4, <3>2, HoldingStays, HoldingStep DEF ViewInv, OthersRest
      <3>4. ViewsOK' /\ \A c \in Conversations : views'[c] # NoView => Says(c, views[c])'
        <4>1. CASE UNCHANGED views
          BY <1>1, <3>2, <4>1 DEF ViewInv, SaysStill, ViewsOK
        <4>2. CASE turns[t].stage = "view" /\ views' = [views EXCEPT ![Conv(t)] = turns[t].view]
          <5>1. Says(Conv(t), turns[t].view)
            BY <4>2 DEF ViewInv, HoldsReading
          <5>2. ViewsOK'
            BY <1>1, <4>2 DEF ViewsOK
          <5>3. ASSUME NEW c \in Conversations, views'[c] # NoView
                PROVE  Says(c, views'[c])
            BY <1>1, <4>2, <5>1, <5>3 DEF ViewInv, ViewsOK
          <5>4. QED
            BY <3>2, <5>2, <5>3 DEF SaysStill
        <4>3. QED
          BY <2>4, <4>1, <4>2 DEF Acts
      <3>5. QED
        BY <1>1, <2>1, <2>4, <3>2, <3>3, <3>4 DEF ViewInv
    <2>5. QED
      BY <1>1, <1>3, <2>2, <2>3, <2>4, StepsAre
  <1>4. QED
    BY <1>2, <1>3

\* Time starts: a set of naturals has a least element.
\* Every set of numbers has a least one.
LEMMA Smallest ==
    ASSUME NEW S \in SUBSET Nat, S # {}
    PROVE  \E n \in S : \A m \in S : n <= m
  <1> DEFINE R == OpToRel(<, Nat)
  <1>1. IsWellFoundedOn(R, Nat)
    BY NatLessThanWellFounded
  <1>2. \A x, y \in Nat : x < y => <<x, y>> \in R
    BY DEF OpToRel
  <1> HIDE DEF R
  <1>3. PICK n \in S : \A m \in S : ~(<<m, n>> \in R)
    BY <1>1, WFMin
  <1>4. ASSUME NEW m \in S
        PROVE  n <= m
    <2>1. m \in Nat /\ n \in Nat /\ ~(<<m, n>> \in R)
      BY <1>3
    <2>2. ~(m < n)
      BY <1>2, <2>1
    <2>3. QED
      BY <2>1, <2>2
  <1>5. QED
    BY <1>3, <1>4

LEMMA TimeStarts == \E n \in Clock : \A m \in Clock : n <= m
  BY Smallest, TurnAssumption

\* The state of a conversation is never made up (conversation_state.py): whatever
\* turns refresh it at once, whichever of their statements fail, it is what the
\* messages up to some row and the replies up to a later one say, at instants in
\* that order.
THEOREM ViewsAreCoherent == Spec => []ViewIsCoherent
  <1>1. Init => ViewInv
    <2> SUFFICES ASSUME Init PROVE ViewInv
      OBVIOUS
    <2>1. turns = [t \in Turns |-> Idle] /\ log = <<>> /\ views = [c \in Conversations |-> NoView]
      BY DEF Init
    <2>2. TurnsOK /\ LogOK /\ ViewsOK
      BY <2>1, IdleIsShaped DEF TurnsOK, LogOK, ViewsOK
    <2>3. now \in Clock
      BY TimeStarts DEF Init
    <2>4. \A t \in Turns : turns[t].stage = "idle"
      BY <2>1 DEF Idle
    <2>5. QED
      BY <2>1, <2>2, <2>3, <2>4 DEF ViewInv, HoldsReading
  <1>2. ViewInv /\ [Next]_vars => ViewInv'
    BY ViewInvStep
  <1>3. ViewInv => ViewIsCoherent
    BY DEF ViewInv, ViewIsCoherent, Says, Past
  <1>4. QED
    BY <1>1, <1>2, <1>3, PTL DEF Spec

-----------------------------------------------------------------------------
(* How far a search has come.                                              *)

Handlers == 1..(Len(Services) + 2)

\* The handlers in the order of the loop in chat.py: the memory commands, the
\* deterministic module and the services.
Handles(text, group, h, answers) ==
    IF h = 1 THEN text.command = "memory" ELSE Takes(text, group, h - 2, answers)

\* What a turn may end with.
Expected(request, answers, got) == {Documented(request, answers, got)} \cup Departures(request, answers, got)

\* No handler takes a text before the k-th, nor a handler before h that one.
Skipped(texts, group, k, h) ==
    \A j \in DOMAIN texts, g \in Handlers :
        j < k \/ (j = k /\ g < h) => ~Handles(texts[j], group, g, said)

\* A search has come to the k-th text: the texts from there on are still to do.
Searches(turn, k) ==
    LET texts == ModuleTexts(turn.request)
    IN  /\ turn.todo = SubSeq(texts, k, Len(texts))
        /\ Skipped(texts, Selected(turn.request).group, k, turn.handler)

SearchOf(turn) ==
    /\ turn.stage \notin {"idle", "lost"} => turn.request \in Requests
    /\ turn.stage \in {"storing", "routing", "prompting", "asking"} => turn.response = NoResponse
    /\ turn.stage \in {"done", "raised", "answering"} => turn.response # NoResponse
    /\ turn.stage \notin {"idle", "lost"} /\ turn.response = NoResponse =>
            /\ turn.handler \in 1..(Len(Services) + 3)
            /\ \E k \in 1..(Len(ModuleTexts(turn.request)) + 1) : Searches(turn, k)
    /\ turn.stage \in {"prompting", "asking"} =>
            /\ turn.todo = <<>> /\ Selected(turn.request).text.command # "echo"
            /\ Selected(turn.request).text # NoText /\ Trigger(turn.request) # "none"
            /\ AiAvailable(turn.request)
    /\ turn.response # NoResponse => turn.response \in Expected(turn.request, said, turn.got)

SearchInv == TurnsOK /\ \A t \in Turns : SearchOf(turns[t])

LEMMA TextsAreASequence ==
    ASSUME NEW request \in Requests
    PROVE  LET texts == ModuleTexts(request)
           IN  /\ Len(texts) \in Nat /\ DOMAIN texts = 1..Len(texts)
               /\ texts \in Seq(Range(texts))
  <1> DEFINE all == <<Selected(request).text>> \o request.extras
             firsts == {k \in DOMAIN all :
                            all[k] # NoText /\ \A j \in 1..(k - 1) : all[j] # all[k]}
             Place(n) == CHOOSE k \in firsts : Cardinality({j \in firsts : j < k}) = n - 1
             texts == ModuleTexts(request)
  <1>1. texts = [n \in 1..Cardinality(firsts) |-> all[Place(n)]]
    BY DEF ModuleTexts
  <1>2. Len(all) \in Nat /\ DOMAIN all = 1..Len(all)
    <2> DEFINE first == Selected(request).text
               S == Range(request.extras) \cup {first}
    <2> HIDE DEF first
    <2>1. request.extras \in Seq(Range(request.extras))
      BY TurnAssumption
    <2>2. <<first>> \o request.extras = all /\ Len(request.extras) \in Nat
      BY <2>1 DEF first
    <2>3. Len(<<first>> \o request.extras) = 1 + Len(request.extras)
          /\ DOMAIN (<<first>> \o request.extras) = 1..(1 + Len(request.extras))
      BY <2>1
    <2>4. QED
      BY <2>2, <2>3
  <1> HIDE DEF all
  <1>3. Cardinality(firsts) \in Nat
    <2>1. IsFiniteSet(1..Len(all)) /\ firsts \subseteq 1..Len(all)
      BY <1>2, FS_Interval
    <2> HIDE DEF firsts
    <2>2. QED
      BY <2>1, FS_Subset, FS_CardinalityType
  <1> HIDE DEF firsts, Place, texts
  <1>4. DOMAIN texts = 1..Cardinality(firsts) /\ texts = [n \in DOMAIN texts |-> texts[n]]
    BY <1>1
  <1>5. \A n \in DOMAIN texts : texts[n] \in Range(texts)
    BY DEF Range
  <1>6. texts \in Seq(Range(texts))
    BY <1>3, <1>4, <1>5
  <1>7. QED
    BY <1>3, <1>4, <1>6 DEF texts

\* What is left of a sequence.
LEMMA WhatIsLeft ==
    ASSUME NEW S, NEW texts \in Seq(S), NEW k \in 1..(Len(texts) + 1)
    PROVE  LET rest == SubSeq(texts, k, Len(texts))
           IN  /\ (rest = <<>>) <=> k = Len(texts) + 1
               /\ rest # <<>> => /\ k \in 1..Len(texts) /\ Head(rest) = texts[k]
                                 /\ k + 1 \in 1..(Len(texts) + 1)
                                 /\ Tail(rest) = SubSeq(texts, k + 1, Len(texts))
  <1> DEFINE rest == SubSeq(texts, k, Len(texts))
  <1>1. Len(texts) \in Nat /\ rest \in Seq(S)
    OBVIOUS
  <1>2. Len(rest) = Len(texts) + 1 - k
    OBVIOUS
  <1>3. (rest = <<>>) <=> k = Len(texts) + 1
    <2> HIDE DEF rest
    <2>1. (rest = <<>>) <=> Len(rest) = 0
      BY <1>1, EmptySeq
    <2>2. QED
      BY <1>1, <1>2, <2>1
  <1>4. ASSUME rest # <<>>
        PROVE  /\ k \in 1..Len(texts) /\ Head(rest) = texts[k]
               /\ k + 1 \in 1..(Len(texts) + 1)
               /\ Tail(rest) = SubSeq(texts, k + 1, Len(texts))
    <2>1. k \in 1..Len(texts) /\ k + 1 \in 1..(Len(texts) + 1)
      BY <1>1, <1>3, <1>4
    <2>2. Len(texts) \in k..Len(texts)
      BY <1>1, <2>1
    <2> HIDE DEF rest
    <2>3. Head(rest) = texts[k] /\ Tail(rest) = SubSeq(texts, k + 1, Len(texts))
      BY <2>1, <2>2, HeadTailOfSubSeq DEF rest
    <2>4. QED
      BY <2>1, <2>3
  <1>5. QED
    BY <1>3, <1>4

\* What a step of the search leaves of the turn.
LEMMA LookGives ==
    ASSUME TurnsOK, NEW t \in Turns, NEW todo, NEW handler, NEW prompt, NEW stage,
           Look(t, todo, handler, prompt, stage)
    PROVE  LET new == turns'[t]
           IN  /\ new.todo = todo /\ new.handler = handler /\ new.stage = stage
               /\ new.request = turns[t].request /\ new.response = turns[t].response
               /\ new.got = turns[t].got
  <1>1. turns'[t] = [turns[t] EXCEPT !.todo = todo, !.handler = handler,
                                     !.prompt = prompt, !.stage = stage]
    BY DEF Look, TurnsOK
  <1>2. QED
    BY <1>1 DEF TurnsOK, Shaped, Variables

LEMMA FoundGives ==
    ASSUME TurnsOK, NEW t \in Turns, NEW got, NEW prompt, NEW response, NEW stage,
           Found(t, got, prompt, response, stage)
    PROVE  LET new == turns'[t]
           IN  /\ new.got = got /\ new.response = response /\ new.stage = stage
               /\ new.request = turns[t].request
  <1>1. turns'[t] = [turns[t] EXCEPT !.got = got, !.prompt = prompt,
                                     !.response = response, !.stage = stage]
    BY DEF Found, TurnsOK
  <1>2. QED
    BY <1>1 DEF TurnsOK, Shaped, Variables

\* The response of a handler to a text it takes.
Taken(text, group, h) ==
    CASE h = 1 -> Response(TRUE, TRUE, "memory")
      [] h = 2 -> EchoModule(text, group)
      [] OTHER -> Response(TRUE, said[Services[h - 2]][text] = "reply", "remote")

\* A module that takes a text, when none takes a text before it and no module
\* before it takes that one, answers for all the places up to that text.
LEMMA ModuleServes ==
    ASSUME NEW request \in Requests, NEW k \in DOMAIN ModuleTexts(request), NEW h \in Handlers, h # 1,
           Skipped(ModuleTexts(request), Selected(request).group, k, h),
           Handles(ModuleTexts(request)[k], Selected(request).group, h, said),
           NEW places \in SUBSET DOMAIN ModuleTexts(request), k \in places
    PROVE  ByModules(request, places, said)
                = Taken(ModuleTexts(request)[k], Selected(request).group, h)
  <1> DEFINE texts == ModuleTexts(request)
             group == Selected(request).group
             taken == {p \in places \X (0..Len(Services)) : Takes(texts[p[1]], group, p[2], said)}
             first == {p \in taken : \A q \in taken : p[1] < q[1] \/ (p[1] = q[1] /\ p[2] <= q[2])}
             winner == CHOOSE p \in first : TRUE
  <1>1. Len(Services) \in Nat /\ DOMAIN texts \subseteq Nat /\ h - 2 \in 0..Len(Services)
    BY TurnAssumption, TextsAreASequence DEF Handlers
  <1>2. ASSUME NEW q \in taken
        PROVE  /\ q = <<q[1], q[2]>> /\ q[1] \in DOMAIN texts /\ q[1] \in Nat /\ q[2] \in Nat
               /\ k < q[1] \/ (k = q[1] /\ h - 2 <= q[2])
    <2>1. q = <<q[1], q[2]>> /\ q[1] \in places /\ q[2] \in 0..Len(Services)
          /\ Takes(texts[q[1]], group, q[2], said)
      OBVIOUS
    <2>2. q[2] + 2 \in Handlers /\ q[2] + 2 # 1 /\ (q[2] + 2) - 2 = q[2] /\ q[2] \in Nat
      BY <1>1, <2>1 DEF Handlers
    <2>3. Handles(texts[q[1]], group, q[2] + 2, said)
      BY <2>1, <2>2 DEF Handles
    <2>4. ~(q[1] < k \/ (q[1] = k /\ q[2] + 2 < h))
      BY <2>1, <2>2, <2>3 DEF Skipped
    <2>5. k \in Nat /\ h \in Nat /\ q[1] \in Nat
      BY <1>1, <2>1 DEF Handlers
    <2>6. k < q[1] \/ (k = q[1] /\ h - 2 <= q[2])
      BY <2>2, <2>4, <2>5
    <2>7. QED
      BY <2>1, <2>2, <2>5, <2>6
  <1>3. <<k, h - 2>> \in taken
    BY <1>1 DEF Handles
  <1>4. <<k, h - 2>> \in first
    BY <1>2, <1>3
  <1>5. ASSUME NEW p \in first
        PROVE  p = <<k, h - 2>>
    <2>1. p \in taken /\ (p[1] < k \/ (p[1] = k /\ p[2] <= h - 2))
      BY <1>3
    <2>2. p = <<p[1], p[2]>> /\ p[1] \in Nat /\ p[2] \in Nat
          /\ (k < p[1] \/ (k = p[1] /\ h - 2 <= p[2]))
      BY <1>2, <2>1
    <2>3. k \in Nat /\ h \in Nat
      BY <1>1 DEF Handlers
    <2>4. p[1] = k /\ p[2] = h - 2
      BY <2>1, <2>2, <2>3
    <2>5. QED
      BY <2>2, <2>4
  <1> HIDE DEF taken
  <1>6. first = {<<k, h - 2>>}
    BY <1>4, <1>5
  <1>7. winner = <<k, h - 2>> /\ first # {}
    BY <1>6
  <1>8. winner[1] = k /\ winner[2] = h - 2
    <2> HIDE DEF winner
    <2>1. QED
      BY <1>7
  <1>9. ByModules(request, places, said) =
            IF winner[2] = 0 THEN EchoModule(texts[winner[1]], group)
            ELSE Response(TRUE, said[Services[winner[2]]][texts[winner[1]]] = "reply", "remote")
    BY <1>7 DEF ByModules, taken
  <1> HIDE DEF winner, texts, group
  <1>10. h - 2 = 0 <=> h = 2
    BY DEF Handlers
  <1>11. QED
    BY <1>8, <1>9, <1>10 DEF Taken, texts, group

\* A turn that ends with the first handler of the first text that is taken ends
\* as expected: a memory command is what the documents rank first, and a module
\* answers as documented when no memory command follows, or departs.
LEMMA TakenIsExpected ==
    ASSUME NEW request \in Requests, NEW got, NEW k \in DOMAIN ModuleTexts(request),
           NEW h \in Handlers,
           Skipped(ModuleTexts(request), Selected(request).group, k, h),
           Handles(ModuleTexts(request)[k], Selected(request).group, h, said)
    PROVE  Taken(ModuleTexts(request)[k], Selected(request).group, h) \in Expected(request, said, got)
  <1> DEFINE texts == ModuleTexts(request)
             group == Selected(request).group
             response == Taken(texts[k], group, h)
  <1>1. CASE h = 1
    <2>1. k \in MemoryAt(request)
      BY <1>1 DEF Handles, MemoryAt
    <2>2. Documented(request, said, got) = Response(TRUE, TRUE, "memory")
      BY <2>1 DEF Documented
    <2>3. QED
      BY <1>1, <2>2 DEF Taken, Expected
  <1>2. CASE h # 1
    <2>1. response # NoResponse
      <3>1. CASE h = 2
        BY <1>2, <3>1, ResponsesAreNamed DEF Taken
      <3>2. CASE h # 2
        <4> DEFINE replied == said[Services[h - 2]][texts[k]] = "reply"
        <4>1. response = Response(TRUE, replied, "remote")
          BY <1>2, <3>2 DEF Taken
        <4> HIDE DEF replied, response
        <4>2. QED
          BY <4>1, ResponsesAreNamed
      <3>3. QED
        BY <3>1, <3>2
    <2>2. ASSUME NEW m \in MemoryAt(request)
          PROVE  k < m
      <3>1. m \in DOMAIN texts /\ 1 \in Handlers /\ Handles(texts[m], group, 1, said)
        BY TurnAssumption DEF MemoryAt, Handles, Handlers
      <3>2. ~(m < k \/ (m = k /\ 1 < h))
        BY <3>1 DEF Skipped
      <3>3. m \in Nat /\ k \in Nat /\ h \in Nat /\ h > 1
        BY <1>2, <3>1, TextsAreASequence DEF Handlers
      <3>4. QED
        BY <3>2, <3>3
    <2>3. CASE MemoryAt(request) = {}
      <3>1. ByModules(request, DOMAIN texts, said) = response
        BY <1>2, ModuleServes
      <3>2. Documented(request, said, got) = response
        BY <2>1, <2>3, <3>1 DEF Documented
      <3>3. QED
        BY <3>2 DEF Expected
    <2>4. CASE MemoryAt(request) # {}
      <3>1. k \in BeforeMemory(request) /\ BeforeMemory(request) \subseteq DOMAIN texts
        BY <2>2 DEF BeforeMemory
      <3>2. ByModules(request, BeforeMemory(request), said) = response
        BY <1>2, <3>1, ModuleServes
      <3> HIDE DEF response
      <3>3. response \in Departures(request, said, got)
        BY <2>1, <2>4, <3>2 DEF Departures
      <3>4. QED
        BY <3>3 DEF Expected, response
    <2>5. QED
      BY <2>3, <2>4
  <1>3. QED
    BY <1>1, <1>2

\* What the code answers when nobody takes any text.
Untaken(request, got) ==
    LET selected == Selected(request).text
    IN  IF selected.command = "echo" THEN Response(TRUE, selected.argument, "planner")
        ELSE IF selected = NoText \/ Trigger(request) = "none"
             THEN Response(FALSE, FALSE, "no_route")
        ELSE IF AiAvailable(request) THEN AiResponse(request, got)
        ELSE AiDeclines(request)

LEMMA UntakenIsExpected ==
    ASSUME NEW request \in Requests, NEW got, NEW h,
           Skipped(ModuleTexts(request), Selected(request).group,
                   Len(ModuleTexts(request)) + 1, h)
    PROVE  Untaken(request, got) \in Expected(request, said, got)
  <1> DEFINE texts == ModuleTexts(request)
             group == Selected(request).group
             taken == {p \in (DOMAIN texts) \X (0..Len(Services)) :
                            Takes(texts[p[1]], group, p[2], said)}
  <1>1. \A j \in DOMAIN texts, g \in Handlers : ~Handles(texts[j], group, g, said)
    <2>1. Len(texts) \in Nat /\ DOMAIN texts = 1..Len(texts)
      BY TextsAreASequence
    <2>2. \A j \in DOMAIN texts : j < Len(texts) + 1
      BY <2>1
    <2> HIDE DEF texts
    <2>3. QED
      BY <2>2 DEF Skipped, texts
  <1>2. MemoryAt(request) = {}
    <2>1. 1 \in Handlers
      BY TurnAssumption DEF Handlers
    <2>2. QED
      BY <1>1, <2>1 DEF MemoryAt, Handles
  <1>3. taken = {}
    <2>1. ASSUME NEW j \in DOMAIN texts, NEW n \in 0..Len(Services)
          PROVE  ~Takes(texts[j], group, n, said)
      <3>1. n + 2 \in Handlers /\ n + 2 # 1 /\ (n + 2) - 2 = n
        BY TurnAssumption DEF Handlers
      <3>2. QED
        BY <1>1, <3>1 DEF Handles
    <2>2. QED
      BY <2>1
  <1>4. ByModules(request, DOMAIN texts, said) = NoResponse
    BY <1>3 DEF ByModules
  <1>5. CASE got = "shape" /\ Untaken(request, got) = AiResponse(request, got)
    <2>1. Untaken(request, got) = Response(FALSE, FALSE, "raised")
      BY <1>5 DEF AiResponse
    <2>2. QED
      BY <1>5, <2>1 DEF Departures, Expected
  <1>6. CASE ~(got = "shape" /\ Untaken(request, got) = AiResponse(request, got))
    <2>1. Documented(request, said, got) = Untaken(request, got)
      BY <1>2, <1>4, <1>6 DEF Documented, Untaken
    <2>2. QED
      BY <2>1 DEF Expected
  <1>7. QED
    BY <1>5, <1>6

\* A step that does not search keeps the search where it is.
LEMMA SearchRests ==
    ASSUME NEW old, NEW new, SearchOf(old), new.request = old.request, SameSearch(old, new),
           old.stage \notin {"idle", "lost"},
           new.stage \notin {"idle", "lost", "prompting", "asking"},
           new.stage \in {"storing", "routing"} => old.response = NoResponse,
           new.stage \in {"done", "raised", "answering"} => old.response # NoResponse
    PROVE  SearchOf(new)
  BY DEF SearchOf, SameSearch, Searches

\* Where a search is while it looks at a text.
LEMMA AskingIs ==
    ASSUME TurnsOK, NEW t \in Turns, SearchOf(turns[t]), NEW h, Asks(t, h)
    PROVE  LET texts == ModuleTexts(turns[t].request)
           IN  /\ turns[t].request \in Requests /\ turns[t].response = NoResponse
               /\ turns[t].stage = "routing"
               /\ \E k \in DOMAIN texts :
                    /\ k + 1 \in 1..(Len(texts) + 1) /\ k \in 1..(Len(texts) + 1)
                    /\ Text(t) = texts[k]
                    /\ turns[t].todo = SubSeq(texts, k, Len(texts))
                    /\ Tail(turns[t].todo) = SubSeq(texts, k + 1, Len(texts))
                    /\ Skipped(texts, Group(t), k, h)
  <1> DEFINE texts == ModuleTexts(turns[t].request)
  <1>1. turns[t].stage = "routing" /\ turns[t].todo # <<>> /\ turns[t].handler = h
    BY DEF Asks, At
  <1>2. turns[t].request \in Requests /\ turns[t].response = NoResponse
    BY <1>1 DEF SearchOf
  <1>3. PICK k \in 1..(Len(texts) + 1) : Searches(turns[t], k)
    BY <1>1, <1>2 DEF SearchOf
  <1>4. texts \in Seq(Range(texts)) /\ DOMAIN texts = 1..Len(texts)
    BY <1>2, TextsAreASequence
  <1>5. turns[t].todo = SubSeq(texts, k, Len(texts)) /\ Skipped(texts, Group(t), k, h)
    BY <1>1, <1>3 DEF Searches, Group
  <1> HIDE DEF texts
  <1>6. /\ k \in 1..Len(texts) /\ Head(turns[t].todo) = texts[k]
        /\ k + 1 \in 1..(Len(texts) + 1)
        /\ Tail(turns[t].todo) = SubSeq(texts, k + 1, Len(texts))
    BY <1>1, <1>4, <1>5, WhatIsLeft
  <1>7. QED
    BY <1>1, <1>2, <1>4, <1>5, <1>6 DEF Text, texts

\* The handler leaves the text to the next.
LEMMA PassSearches ==
    ASSUME TurnsOK, NEW t \in Turns, SearchOf(turns[t]), NEW h \in Handlers, Asks(t, h),
           ~Handles(Text(t), Group(t), h, said),
           turns' = [turns EXCEPT ![t].handler = h + 1]
    PROVE  SearchOf(turns'[t])
  <1> DEFINE old == turns[t]
             new == turns'[t]
             texts == ModuleTexts(old.request)
  <1>1. /\ old.request \in Requests /\ old.response = NoResponse /\ old.stage = "routing"
    BY AskingIs
  <1>2. PICK k \in DOMAIN texts :
            /\ k \in 1..(Len(texts) + 1) /\ Text(t) = texts[k]
            /\ old.todo = SubSeq(texts, k, Len(texts)) /\ Skipped(texts, Group(t), k, h)
    BY AskingIs
  <1>3. /\ new.todo = old.todo /\ new.handler = h + 1 /\ new.stage = "routing"
        /\ new.request = old.request /\ new.response = NoResponse
    <2>1. Look(t, old.todo, h + 1, old.prompt, old.stage)
      BY PassIsLook
    <2>2. QED
      BY <1>1, <2>1, LookGives
  <1>4. Skipped(texts, Group(t), k, h + 1)
    <2>1. DOMAIN texts \subseteq Nat
      BY <1>1, TextsAreASequence
    <2>2. ASSUME NEW j \in DOMAIN texts, NEW g \in Handlers, j < k \/ (j = k /\ g < h + 1)
          PROVE  ~Handles(texts[j], Group(t), g, said)
      <3>1. CASE j < k \/ (j = k /\ g < h)
        BY <1>2, <3>1 DEF Skipped
      <3>2. CASE j = k /\ g = h
        BY <1>2, <3>2
      <3>3. Len(Services) \in Nat
        BY TurnAssumption
      <3>4. QED
        BY <2>1, <2>2, <3>1, <3>2, <3>3 DEF Handlers
    <2>3. QED
      BY <2>2 DEF Skipped
  <1>5. h + 1 \in 1..(Len(Services) + 3)
    BY TurnAssumption DEF Handlers
  <1>6. Searches(new, k)
    BY <1>2, <1>3, <1>4 DEF Searches, Group
  <1> HIDE DEF old, new
  <1>7. SearchOf(new)
    BY <1>1, <1>2, <1>3, <1>5, <1>6 DEF SearchOf
  <1>8. QED
    BY <1>7 DEF new

\* The handler takes the text.
LEMMA TakeSearches ==
    ASSUME TurnsOK, NEW t \in Turns, SearchOf(turns[t]), NEW h \in Handlers, Asks(t, h),
           NEW response, response # NoResponse, Respond(t, response),
           Handles(Text(t), Group(t), h, said), response = Taken(Text(t), Group(t), h)
    PROVE  SearchOf(turns'[t])
  <1> DEFINE old == turns[t]
             new == turns'[t]
             texts == ModuleTexts(old.request)
  <1>1. /\ old.request \in Requests /\ old.response = NoResponse /\ old.stage = "routing"
    BY AskingIs
  <1>2. PICK k \in DOMAIN texts : Text(t) = texts[k] /\ Skipped(texts, Group(t), k, h)
    BY AskingIs
  <1>3. Found(t, old.got, old.prompt, response, Onward(t, response))
    BY RespondIsFound
  <1>4. /\ new.got = old.got /\ new.response = response /\ new.stage = Onward(t, response)
        /\ new.request = old.request
    BY <1>3, FoundGives
  <1>5. new.stage \in {"raised", "answering", "done"}
    BY <1>4 DEF Onward
  <1>6. response \in Expected(old.request, said, new.got)
    BY <1>1, <1>2, TakenIsExpected DEF Group
  <1> HIDE DEF old, new
  <1>7. SearchOf(new)
    BY <1>1, <1>4, <1>5, <1>6 DEF SearchOf
  <1>8. QED
    BY <1>7 DEF new

\* The handlers by their numbers.
LEMMA HandlersAre ==
    ASSUME NEW text, NEW group
    PROVE  /\ Handles(text, group, 1, said) <=> text.command = "memory"
           /\ Handles(text, group, 2, said) <=> text.command = "tool-echo"
           /\ Taken(text, group, 1) = Response(TRUE, TRUE, "memory")
           /\ Taken(text, group, 2) = EchoModule(text, group)
           /\ 1 \in Handlers /\ 2 \in Handlers
           /\ \A j \in DOMAIN Services :
                /\ j + 2 \in Handlers
                /\ Handles(text, group, j + 2, said) <=>
                        /\ GroupAllowed(Services[j], group)
                        /\ said[Services[j]][text] # "nothing"
                /\ Taken(text, group, j + 2)
                        = Response(TRUE, said[Services[j]][text] = "reply", "remote")
  <1>1. Len(Services) \in Nat /\ DOMAIN Services = 1..Len(Services)
    BY TurnAssumption
  <1>2. 1 \in Handlers /\ 2 \in Handlers
    BY <1>1 DEF Handlers
  <1>3. ASSUME NEW j \in DOMAIN Services
        PROVE  /\ j + 2 \in Handlers
               /\ Handles(text, group, j + 2, said) <=>
                        /\ GroupAllowed(Services[j], group)
                        /\ said[Services[j]][text] # "nothing"
               /\ Taken(text, group, j + 2)
                        = Response(TRUE, said[Services[j]][text] = "reply", "remote")
    <2>1. j + 2 \in Handlers /\ j + 2 # 1 /\ j + 2 # 2 /\ (j + 2) - 2 = j
      BY <1>1 DEF Handlers
    <2>2. j # 0
      BY <1>1
    <2>3. Handles(text, group, j + 2, said) <=> Takes(text, group, j, said)
      BY <2>1 DEF Handles
    <2>4. Taken(text, group, j + 2) = Response(TRUE, said[Services[j]][text] = "reply", "remote")
      BY <2>1 DEF Taken
    <2>5. QED
      BY <2>1, <2>2, <2>3, <2>4 DEF Takes
  <1>4. /\ Handles(text, group, 1, said) <=> text.command = "memory"
        /\ Handles(text, group, 2, said) <=> text.command = "tool-echo"
    BY DEF Handles, Takes
  <1>5. /\ Taken(text, group, 1) = Response(TRUE, TRUE, "memory")
        /\ Taken(text, group, 2) = EchoModule(text, group)
    BY DEF Taken
  <1>6. QED
    BY <1>2, <1>3, <1>4, <1>5

LEMMA TryMemorySearches ==
    ASSUME TurnsOK, NEW t \in Turns, SearchOf(turns[t]), TryMemory(t)
    PROVE  SearchOf(turns'[t])
  <1>1. Asks(t, 1) /\ 1 \in Handlers
    BY HandlersAre DEF TryMemory
  <1>2. CASE Text(t).command = "memory"
    <2>1. Respond(t, Response(TRUE, TRUE, "memory"))
      BY <1>2 DEF TryMemory
    <2>2. Response(TRUE, TRUE, "memory") # NoResponse
      BY ResponsesAreNamed
    <2>3. /\ Handles(Text(t), Group(t), 1, said)
          /\ Response(TRUE, TRUE, "memory") = Taken(Text(t), Group(t), 1)
      BY <1>2, HandlersAre
    <2>4. QED
      BY <1>1, <2>1, <2>2, <2>3, TakeSearches
  <1>3. CASE Text(t).command # "memory"
    <2>1. turns' = [turns EXCEPT ![t].handler = 1 + 1]
      BY <1>3 DEF TryMemory
    <2>2. ~Handles(Text(t), Group(t), 1, said)
      BY <1>3, HandlersAre
    <2>3. QED
      BY <1>1, <2>1, <2>2, PassSearches
  <1>4. QED
    BY <1>2, <1>3

LEMMA TryModuleSearches ==
    ASSUME TurnsOK, NEW t \in Turns, SearchOf(turns[t]), TryModule(t)
    PROVE  SearchOf(turns'[t])
  <1>1. Asks(t, 2) /\ 2 \in Handlers
    BY HandlersAre DEF TryModule
  <1>2. CASE Text(t).command = "tool-echo"
    <2>1. Respond(t, EchoModule(Text(t), Group(t)))
      BY <1>2 DEF TryModule
    <2>2. EchoModule(Text(t), Group(t)) # NoResponse
      BY ResponsesAreNamed
    <2>3. /\ Handles(Text(t), Group(t), 2, said)
          /\ EchoModule(Text(t), Group(t)) = Taken(Text(t), Group(t), 2)
      BY <1>2, HandlersAre
    <2>4. QED
      BY <1>1, <2>1, <2>2, <2>3, TakeSearches
  <1>3. CASE Text(t).command # "tool-echo"
    <2>1. turns' = [turns EXCEPT ![t].handler = 2 + 1]
      BY <1>3 DEF TryModule
    <2>2. ~Handles(Text(t), Group(t), 2, said)
      BY <1>3, HandlersAre
    <2>3. QED
      BY <1>1, <2>1, <2>2, PassSearches
  <1>4. QED
    BY <1>2, <1>3

LEMMA TryServiceSearches ==
    ASSUME TurnsOK, NEW t \in Turns, SearchOf(turns[t]), NEW j \in DOMAIN Services,
           TryService(t, j)
    PROVE  SearchOf(turns'[t])
  <1> DEFINE h == j + 2
             replied == said[Services[j]][Text(t)] = "reply"
             response == Response(TRUE, replied, "remote")
  <1>1. Asks(t, h) /\ h \in Handlers
    BY HandlersAre DEF TryService
  <1>2. CASE GroupAllowed(Services[j], Group(t)) /\ said[Services[j]][Text(t)] # "nothing"
    <2>1. Respond(t, response)
      BY <1>2 DEF TryService
    <2>2. response # NoResponse
      <3> HIDE DEF replied
      <3>1. QED
        BY ResponsesAreNamed
    <2>3. Handles(Text(t), Group(t), h, said) /\ response = Taken(Text(t), Group(t), h)
      BY <1>2, HandlersAre
    <2> HIDE DEF h, response
    <2>4. QED
      BY <1>1, <2>1, <2>2, <2>3, TakeSearches
  <1>3. CASE ~(GroupAllowed(Services[j], Group(t)) /\ said[Services[j]][Text(t)] # "nothing")
    <2>1. turns' = [turns EXCEPT ![t].handler = j + 3]
      BY <1>3 DEF TryService
    <2>2. ~Handles(Text(t), Group(t), h, said)
      BY <1>3, HandlersAre
    <2>3. h + 1 = j + 3
      BY TurnAssumption
    <2> HIDE DEF h
    <2>4. QED
      BY <1>1, <2>1, <2>2, <2>3, PassSearches
  <1>4. QED
    BY <1>2, <1>3

LEMMA NextTextSearches ==
    ASSUME TurnsOK, NEW t \in Turns, SearchOf(turns[t]), NextText(t)
    PROVE  SearchOf(turns'[t])
  <1> DEFINE old == turns[t]
             new == turns'[t]
             texts == ModuleTexts(old.request)
             end == Len(Services) + 3
  <1>1. Asks(t, end) /\ end \in Nat
    BY TurnAssumption DEF NextText
  <1>2. old.request \in Requests /\ old.response = NoResponse /\ old.stage = "routing"
    BY <1>1, AskingIs
  <1>3. PICK k \in DOMAIN texts :
            /\ k + 1 \in 1..(Len(texts) + 1)
            /\ Tail(old.todo) = SubSeq(texts, k + 1, Len(texts))
            /\ Skipped(texts, Group(t), k, end)
    BY <1>1, AskingIs
  <1>4. Look(t, Tail(old.todo), 1, old.prompt, old.stage)
    BY NextTextIsLook
  <1>5. /\ new.todo = Tail(old.todo) /\ new.handler = 1 /\ new.stage = "routing"
        /\ new.request = old.request /\ new.response = NoResponse
    BY <1>2, <1>4, LookGives
  <1>6. Skipped(texts, Group(t), k + 1, 1)
    <2>1. DOMAIN texts \subseteq Nat
      BY <1>2, TextsAreASequence
    <2>2. \A g \in Handlers : g < end /\ ~(g < 1)
      BY TurnAssumption DEF Handlers
    <2>3. \A j \in DOMAIN texts : j < k + 1 => j < k \/ j = k
      BY <2>1
    <2> HIDE DEF texts, end
    <2>4. QED
      BY <1>3, <2>2, <2>3 DEF Skipped
  <1>7. Searches(new, k + 1)
    BY <1>3, <1>5, <1>6 DEF Searches, Group
  <1>8. 1 \in 1..(Len(Services) + 3)
    BY <1>1
  <1> HIDE DEF old, new
  <1>9. SearchOf(new)
    BY <1>2, <1>3, <1>5, <1>7, <1>8 DEF SearchOf
  <1>10. QED
    BY <1>9 DEF new

\* All texts are done, or are not needed any more: nobody takes any of them.
LEMMA NothingLeft ==
    ASSUME NEW turn, SearchOf(turn), turn.stage \in {"routing", "prompting", "asking"},
           turn.todo = <<>>, NEW got
    PROVE  /\ turn.request \in Requests /\ turn.response = NoResponse
           /\ Untaken(turn.request, got) \in Expected(turn.request, said, got)
  <1> DEFINE texts == ModuleTexts(turn.request)
  <1>1. turn.request \in Requests /\ turn.response = NoResponse
    BY DEF SearchOf
  <1>2. PICK k \in 1..(Len(texts) + 1) : Searches(turn, k)
    BY <1>1 DEF SearchOf
  <1>3. texts \in Seq(Range(texts))
    BY <1>1, TextsAreASequence
  <1>4. SubSeq(texts, k, Len(texts)) = <<>>
        /\ Skipped(texts, Selected(turn.request).group, k, turn.handler)
    BY <1>2 DEF Searches
  <1>5. k = Len(texts) + 1
    <2> HIDE DEF texts
    <2>1. QED
      BY <1>3, <1>4, WhatIsLeft
  <1>6. QED
    BY <1>1, <1>4, <1>5, UntakenIsExpected

\* A turn that ends with what is expected.
LEMMA EndSearches ==
    ASSUME TurnsOK, NEW t \in Turns, NEW got, NEW prompt, NEW response,
           turns[t].request \in Requests, response # NoResponse,
           response \in Expected(turns[t].request, said, got),
           Found(t, got, prompt, response, Onward(t, response))
    PROVE  SearchOf(turns'[t])
  <1> DEFINE new == turns'[t]
  <1>1. /\ new.got = got /\ new.response = response /\ new.stage = Onward(t, response)
        /\ new.request = turns[t].request
    BY FoundGives
  <1>2. new.stage \in {"raised", "answering", "done"}
    BY <1>1 DEF Onward
  <1> HIDE DEF new
  <1>3. SearchOf(new)
    BY <1>1, <1>2 DEF SearchOf
  <1>4. QED
    BY <1>3 DEF new

LEMMA FallbackSearches ==
    ASSUME TurnsOK, NEW t \in Turns, SearchOf(turns[t]), Fallback(t)
    PROVE  SearchOf(turns'[t])
  <1> DEFINE old == turns[t]
             new == turns'[t]
             request == turns[t].request
             text == Selected(request).text
  <1>0. NoText.command # "echo"
    BY DEF NoText
  <1>1. old.stage = "routing" /\ old.todo = <<>>
    BY DEF Fallback, At
  <1>2. /\ request \in Requests /\ old.response = NoResponse
        /\ Untaken(request, old.got) \in Expected(request, said, old.got)
    BY <1>1, NothingLeft
  <1>3. ASSUME NEW response, Respond(t, response), response # NoResponse,
               response = Untaken(request, old.got)
        PROVE  SearchOf(turns'[t])
    BY <1>2, <1>3, RespondIsFound, EndSearches
  <1>4. CASE text.command = "echo"
    <2>1. Respond(t, Response(TRUE, text.argument, "planner"))
      BY <1>0, <1>4 DEF Fallback
    <2>2. Response(TRUE, text.argument, "planner") = Untaken(request, old.got)
      BY <1>4 DEF Untaken
    <2>3. QED
      BY <2>1, <2>2, <1>3, ResponsesAreNamed
  <1>5. CASE text = NoText \/ (text.command # "echo" /\ Trigger(request) = "none")
    <2>1. text.command # "echo"
      BY <1>0, <1>5
    <2>2. Respond(t, Response(FALSE, FALSE, "no_route"))
      BY <1>5, <2>1 DEF Fallback
    <2>3. Response(FALSE, FALSE, "no_route") = Untaken(request, old.got)
      BY <1>5, <2>1 DEF Untaken
    <2>4. QED
      BY <2>2, <2>3, <1>3, ResponsesAreNamed
  <1>6. CASE text # NoText /\ text.command # "echo" /\ Trigger(request) # "none"
    <2>1. IF AiAvailable(request) THEN Go(t, "prompting") ELSE Respond(t, AiDeclines(request))
      BY <1>6 DEF Fallback
    <2>2. CASE ~AiAvailable(request)
      <3>1. AiDeclines(request) = Untaken(request, old.got)
        BY <1>6, <2>2 DEF Untaken
      <3>2. QED
        BY <2>1, <2>2, <3>1, <1>3, ResponsesAreNamed
    <2>3. CASE AiAvailable(request)
      <3>1. Look(t, old.todo, old.handler, old.prompt, "prompting")
        BY <2>1, <2>3, GoIsLook
      <3>2. /\ new.todo = old.todo /\ new.handler = old.handler /\ new.stage = "prompting"
            /\ new.request = request /\ new.response = old.response
        BY <3>1, LookGives
      <3> HIDE DEF old, new
      <3>3. SearchOf(old)
        BY DEF old
      <3>4. SearchOf(new)
        BY <1>1, <1>2, <1>6, <2>3, <3>2, <3>3 DEF SearchOf, Searches, old
      <3>5. QED
        BY <3>4 DEF new
    <2>4. QED
      BY <2>2, <2>3
  <1>7. QED
    BY <1>4, <1>5, <1>6

LEMMA PromptSearches ==
    ASSUME TurnsOK, NEW t \in Turns, SearchOf(turns[t]), Prompt(t)
    PROVE  SearchOf(turns'[t])
  <1> DEFINE old == turns[t]
             new == turns'[t]
  <1>1. PICK view : Look(t, old.todo, old.handler, view, "asking")
    BY PromptIsLook
  <1>2. /\ new.todo = old.todo /\ new.handler = old.handler /\ new.stage = "asking"
        /\ new.request = old.request /\ new.response = old.response
    BY <1>1, LookGives
  <1>3. old.stage = "prompting" /\ SearchOf(old)
    BY DEF Prompt, At
  <1> HIDE DEF old, new
  <1>4. SearchOf(new)
    BY <1>2, <1>3 DEF SearchOf, Searches
  <1>5. QED
    BY <1>4 DEF new

LEMMA AskSearches ==
    ASSUME TurnsOK, NEW t \in Turns, SearchOf(turns[t]), NEW got \in AiSays, AskModel(t, got)
    PROVE  SearchOf(turns'[t])
  <1> DEFINE request == turns[t].request
             response == AiResponse(request, got)
  <1>1. turns[t].stage = "asking"
    BY DEF AskModel, At
  <1>2. /\ turns[t].todo = <<>> /\ Selected(request).text.command # "echo"
        /\ Selected(request).text # NoText /\ Trigger(request) # "none" /\ AiAvailable(request)
    BY <1>1 DEF SearchOf
  <1>3. request \in Requests /\ Untaken(request, got) \in Expected(request, said, got)
    BY <1>1, <1>2, NothingLeft
  <1>4. response \in Expected(request, said, got)
    BY <1>2, <1>3 DEF Untaken
  <1>5. response # NoResponse /\ Found(t, got, NoView, response, Onward(t, response))
    BY AskIsFound, ResponsesAreNamed
  <1> HIDE DEF response
  <1>6. QED
    BY <1>3, <1>4, <1>5, EndSearches

LEMMA SearchStep ==
    ASSUME TurnsOK, NEW t \in Turns, SearchOf(turns[t]), Acts(t)
    PROVE  SearchOf(turns'[t])
  <1> DEFINE old == turns[t]
             new == turns'[t]
  <1>1. CASE Routes(t)
    BY <1>1, TryMemorySearches, TryModuleSearches, TryServiceSearches, NextTextSearches,
       FallbackSearches, PromptSearches, AskSearches DEF Routes
  <1>2. CASE Received(old, new)
    <2>1. PICK request \in Requests : new.request = request /\ new.todo = ModuleTexts(request)
      BY <1>2 DEF Received
    <2>2. new.stage \in {"routing", "storing"} /\ new.handler = 1 /\ new.response = NoResponse
      BY <1>2 DEF Received
    <2> DEFINE texts == ModuleTexts(request)
    <2>3. /\ texts \in Seq(Range(texts)) /\ Len(texts) \in Nat /\ DOMAIN texts = 1..Len(texts)
      BY TextsAreASequence
    <2>4. texts = SubSeq(texts, 1, Len(texts)) /\ 1 \in 1..(Len(texts) + 1)
      <3> HIDE DEF texts
      <3>1. QED
        BY <2>3
    <2>5. \A j \in DOMAIN texts, g \in Handlers : ~(j < 1) /\ ~(g < 1)
      BY <2>3, TurnAssumption DEF Handlers
    <2>6. 1 \in 1..(Len(Services) + 3)
      BY TurnAssumption
    <2> HIDE DEF new
    <2>7. Searches(new, 1)
      BY <2>1, <2>2, <2>4, <2>5 DEF Searches, Skipped
    <2>8. SearchOf(new)
      BY <2>1, <2>2, <2>4, <2>6, <2>7 DEF SearchOf
    <2>9. QED
      BY <2>8 DEF new
  <1>3. CASE MessageStored(old, new)
    <2>1. /\ new.request = old.request /\ SameSearch(old, new)
          /\ old.stage = "storing" /\ new.stage = "messages"
      BY <1>3 DEF MessageStored
    <2>2. QED
      BY <2>1, SearchRests
  <1>4. CASE MessagesRead(old, new) \/ StatsRead(old, new)
    <2>1. /\ new.request = old.request /\ SameSearch(old, new)
          /\ old.stage \in {"messages", "stats"} /\ new.stage \in {"stats", "view"}
      BY <1>4 DEF MessagesRead, StatsRead, SameRequest
    <2>2. QED
      BY <2>1, SearchRests
  <1>5. CASE WentOn(old, new)
    <2>1. new.request = old.request /\ SameSearch(old, new)
      BY <1>5 DEF WentOn, SameRequest
    <2>2. CASE old.stage = "storing" /\ new.stage = "routing"
      <3>1. old.response = NoResponse
        BY <2>2 DEF SearchOf
      <3>2. QED
        BY <2>1, <2>2, <3>1, SearchRests
    <2>3. CASE /\ old.stage \in {"messages", "stats", "view"}
               /\ new.stage = IF old.response = NoResponse THEN "routing" ELSE "done"
      BY <2>1, <2>3, SearchRests
    <2>4. CASE old.stage = "answering" /\ new.stage = "done"
      <3>1. old.response # NoResponse
        BY <2>4 DEF SearchOf
      <3>2. QED
        BY <2>1, <2>4, <3>1, SearchRests
    <2>5. QED
      BY <1>5, <2>2, <2>3, <2>4 DEF WentOn, Refreshed
  <1>6. CASE ResponseStored(old, new)
    <2>1. /\ new.request = old.request /\ SameSearch(old, new)
          /\ old.stage = "answering" /\ new.stage \in {"messages", "done"}
      BY <1>6 DEF ResponseStored, SameRequest
    <2>2. old.response # NoResponse
      BY <2>1 DEF SearchOf
    <2>3. QED
      BY <2>1, <2>2, SearchRests
  <1>7. QED
    BY <1>1, <1>2, <1>3, <1>4, <1>5, <1>6 DEF Acts

LEMMA SearchInvStep ==
    ASSUME SearchInv, [Next]_vars
    PROVE  SearchInv'
  <1>1. ASSUME UNCHANGED said, NEW turn, SearchOf(turn)
        PROVE  SearchOf(turn)'
    BY <1>1 DEF SearchOf, Searches, Skipped
  <1>2. TurnsOK /\ \A t \in Turns : SearchOf(turns[t])
    BY DEF SearchInv
  <1>3. UNCHANGED said /\ TurnsOK' /\ \A t \in Turns : SearchOf(turns'[t])
    <2>1. CASE UNCHANGED vars
      BY <1>2, <2>1 DEF vars, TurnsOK
    <2>2. CASE Next
      <3>1. TurnsOK' /\ UNCHANGED said
        BY <1>2, <2>2, StepsAre
      <3>2. CASE Tick
        BY <1>2, <3>1, <3>2 DEF Tick
      <3>3. CASE \A t \in Turns : turns'[t] = turns[t] \/ Lost(turns[t], turns'[t])
        <4>1. ASSUME NEW t \in Turns
              PROVE  SearchOf(turns'[t])
          BY <1>2, <3>3 DEF Lost, SearchOf
        <4>2. QED
          BY <3>1, <4>1
      <3>4. ASSUME NEW t \in Turns, Acts(t), OthersRest(t)
            PROVE  \A other \in Turns : SearchOf(turns'[other])
        BY <1>2, <3>4, SearchStep DEF OthersRest
      <3>5. QED
        BY <1>2, <2>2, <3>1, <3>2, <3>3, <3>4, StepsAre
    <2>3. QED
      BY <2>1, <2>2
  <1>4. \A t \in Turns : SearchOf(turns[t])'
    BY <1>1, <1>3
  <1>5. QED
    BY <1>3, <1>4 DEF SearchInv

\* The caller gets the answer that the documents rank first, or departs from them
\* in one of two ways (chat.py, _build_chat_response: a module that takes a text
\* wins over a memory command in a later one; ai_runtime.py: an odd answer of the
\* model raises), whatever fails in the database and whatever the other turns do.
THEOREM RoutesAreExpected == Spec => []RouteIsExpected
  <1>1. Init => SearchInv
    <2> SUFFICES ASSUME Init PROVE SearchInv
      OBVIOUS
    <2>1. turns = [t \in Turns |-> Idle]
      BY DEF Init
    <2>2. TurnsOK
      BY <2>1, IdleIsShaped DEF TurnsOK
    <2>3. Idle.stage = "idle" /\ Idle.response = NoResponse
      BY DEF Idle
    <2>4. QED
      BY <2>1, <2>2, <2>3 DEF SearchInv, SearchOf
  <1>2. SearchInv /\ [Next]_vars => SearchInv'
    BY SearchInvStep
  <1>3. SearchInv => RouteIsExpected
    BY DEF SearchInv, SearchOf, RouteIsExpected, Expected
  <1>4. QED
    BY <1>1, <1>2, <1>3, PTL DEF Spec

-----------------------------------------------------------------------------
(* Exchanges with the Gateway.                                             *)

\* Whatever the Gateway does, Brain sees requests that come and go.
LEMMA BrainGoesOn ==
    ASSUME [ExchangeNext]_allVars
    PROVE  [Next]_vars
  <1>1. ASSUME NEW t \in Turns, NEW event \in Events, Dispatch(t, event)
        PROVE  [Next]_vars
    BY <1>1, ExchangeAssumption DEF Dispatch, Next
  <1>2. ASSUME NEW t \in Turns, NEW request \in Requests, Direct(t, request)
        PROVE  Next
    BY <1>2 DEF Direct, Next
  <1>3. BrainStep => Next
    BY DEF BrainStep, Next
  <1>4. ASSUME NEW t, RequestFails(t) \/ NoReplyWanted(t) \/ \E reply : Convert(t, reply)
        PROVE  UNCHANGED vars
    BY <1>4 DEF RequestFails, NoReplyWanted, Convert
  <1>5. QED
    BY <1>1, <1>2, <1>3, <1>4 DEF ExchangeNext, GatewayStarts, allVars

\* An event takes its part among the chat requests of ChatTurn: all that holds
\* of these holds of exchanges, whenever the Gateway gives up, is started again
\* or other clients call (Dispatch in router.go, POST /chat).
THEOREM ExchangesAreTurns == ExchangeSpec => Spec
  <1>1. ExchangeInit => Init
    BY DEF ExchangeInit
  <1>2. [ExchangeNext]_allVars => [Next]_vars
    BY BrainGoesOn
  <1>3. QED
    BY <1>1, <1>2, PTL DEF ExchangeSpec, Spec

\* A turn that is over stays; one that has begun keeps its request, or is lost.
LEMMA TurnsLast ==
    ASSUME TurnsOK, [Next]_vars, NEW t \in Turns
    PROVE  /\ At(t, "done") => turns'[t] = turns[t]
           /\ ~At(t, "idle") => /\ turns'[t].stage # "idle"
                                /\ \/ turns'[t].stage = "lost"
                                   \/ ~At(t, "lost") /\ turns'[t].request = turns[t].request
  <1> DEFINE old == turns[t]
             new == turns'[t]
             Lasts == /\ old.stage = "done" => new = old
                      /\ old.stage # "idle" =>
                            /\ new.stage # "idle"
                            /\ \/ new.stage = "lost"
                               \/ old.stage # "lost" /\ new.request = old.request
  <1>1. new = old => Lasts
    OBVIOUS
  <1>2. Lost(old, new) => Lasts
    BY DEF Lost
  <1>3. Received(old, new) => Lasts
    BY DEF Received
  <1>4. MessagesRead(old, new) \/ StatsRead(old, new) \/ MessageStored(old, new)
            \/ ResponseStored(old, new) => Lasts
    BY DEF MessagesRead, StatsRead, MessageStored, ResponseStored, SameRequest
  <1>5. WentOn(old, new) => Lasts
    BY DEF WentOn, SameRequest, Refreshed
  <1>6. LookedOn(old, new) \/ Answered(old, new) => Lasts
    BY DEF LookedOn, Answered, SameRequest
  <1>7. Acts(t) => Lasts
    BY <1>3, <1>4, <1>5, <1>6 DEF Acts
  <1>8. Lasts
    <2>1. CASE UNCHANGED vars
      BY <1>1, <2>1 DEF vars
    <2>2. CASE Next
      <3>1. CASE Tick
        BY <1>1, <3>1 DEF Tick
      <3>2. CASE \A other \in Turns : turns'[other] = turns[other] \/ Lost(turns[other], turns'[other])
        BY <1>1, <1>2, <3>2
      <3>3. ASSUME NEW other \in Turns, Acts(other), OthersRest(other)
            PROVE  Lasts
        <4>1. CASE other = t
          BY <1>7, <3>3, <4>1
        <4>2. CASE other # t
          BY <1>1, <3>3, <4>2 DEF OthersRest
        <4>3. QED
          BY <4>1, <4>2
      <3> HIDE DEF Lasts
      <3>4. QED
        BY <2>2, <3>1, <3>2, <3>3, StepsAre
    <2>3. QED
      BY <2>1, <2>2
  <1>9. QED
    BY <1>8 DEF At

\* An exchange has all its variables.
Formed(x) == x = [stage |-> x.stage, event |-> x.event, reply |-> x.reply, actions |-> x.actions]
ExchangesOK ==
    exchanges = [t \in Turns |-> exchanges[t]] /\ \A t \in Turns : Formed(exchanges[t])

Replied == {"answered", "unsent", "crashed"}

\* What a step does to an exchange.
Asked(t) ==
    /\ exchanges'[t].stage = "waiting" /\ exchanges'[t].event \in Events
    /\ Envelope(exchanges'[t].event) \in Requests /\ Receive(t, Envelope(exchanges'[t].event))
\* What became of an exchange that got a reply and made actions of it.
Outcome(x, reply, actions) ==
    /\ x.reply = reply
    /\ \/ actions = Panics /\ x.stage = "crashed"
       \/ actions # Panics /\ actions = <<>> /\ x.stage = "unsent"
       \/ actions # Panics /\ actions # <<>> /\ x.stage = "answered" /\ x.actions = actions

Ended(t) == exchanges'[t].stage \in {"direct", "ignored", "failed"}
Decided(t) ==
    /\ Is(t, "waiting") /\ At(t, "done") /\ UNCHANGED turns
    /\ exchanges'[t].event = exchanges[t].event
    /\ IF turns[t].response.handled /\ turns[t].response.replied
       THEN \E reply \in RepliesTo(t) :
                Outcome(exchanges'[t], reply, BrainResponseActions(Target(exchanges[t].event), reply))
       ELSE exchanges'[t].stage = "silent"

Fares(t) == exchanges'[t] = exchanges[t] \/ Asked(t) \/ Ended(t) \/ Decided(t)

\* One exchange gets a new value.
LEMMA OneExchange ==
    ASSUME ExchangesOK, NEW t \in Turns, NEW x, Formed(x), exchanges' = [exchanges EXCEPT ![t] = x]
    PROVE  /\ ExchangesOK' /\ exchanges'[t] = x
           /\ \A u \in Turns \ {t} : exchanges'[u] = exchanges[u]
  BY DEF ExchangesOK

LEMMA BecomesOne ==
    ASSUME ExchangesOK, NEW t \in Turns, NEW stage, Becomes(t, stage)
    PROVE  /\ ExchangesOK' /\ exchanges'[t].stage = stage
           /\ exchanges'[t].event = exchanges[t].event
           /\ \A u \in Turns \ {t} : exchanges'[u] = exchanges[u]
  <1> DEFINE x == [exchanges[t] EXCEPT !.stage = stage]
  <1>1. exchanges' = [exchanges EXCEPT ![t] = x]
    BY DEF Becomes, ExchangesOK
  <1>2. Formed(x) /\ x.stage = stage /\ x.event = exchanges[t].event
    BY DEF ExchangesOK, Formed
  <1> HIDE DEF x
  <1>3. QED
    BY <1>1, <1>2, OneExchange

LEMMA BeginsOne ==
    ASSUME ExchangesOK, NEW t \in Turns, NEW stage, NEW event,
           exchanges' = [exchanges EXCEPT ![t] = Exchange(stage, event)]
    PROVE  /\ ExchangesOK' /\ exchanges'[t].stage = stage /\ exchanges'[t].event = event
           /\ \A u \in Turns \ {t} : exchanges'[u] = exchanges[u]
  <1> DEFINE x == Exchange(stage, event)
  <1>1. Formed(x) /\ x.stage = stage /\ x.event = event
    BY DEF Exchange, Formed
  <1> HIDE DEF x
  <1>2. QED
    BY <1>1, OneExchange DEF x

\* A reply is converted, and a panic fails the others that wait.
LEMMA SendsOne ==
    ASSUME ExchangesOK, NEW t \in Turns, NEW reply, NEW actions, Sends(t, reply, actions)
    PROVE  /\ ExchangesOK' /\ Outcome(exchanges'[t], reply, actions)
           /\ exchanges'[t].event = exchanges[t].event
           /\ \A u \in Turns \ {t} :
                    exchanges'[u] = exchanges[u] \/ exchanges'[u].stage = "failed"
  <1> DEFINE converted == [exchanges EXCEPT ![t].reply = reply]
             y == [exchanges[t] EXCEPT !.reply = reply]
  <1>1. Formed(y) /\ y.event = exchanges[t].event /\ y.reply = reply
    BY DEF ExchangesOK, Formed
  <1>2. /\ converted = [u \in Turns |-> converted[u]] /\ converted[t] = y
        /\ \A u \in Turns \ {t} : converted[u] = exchanges[u]
    BY DEF ExchangesOK
  <1>3. CASE actions = Panics
    <2> DEFINE crashed == [converted[t] EXCEPT !.stage = "crashed"]
               After(u) == IF u = t THEN crashed
                           ELSE IF Is(u, "waiting") THEN [exchanges[u] EXCEPT !.stage = "failed"]
                           ELSE exchanges[u]
    <2>1. exchanges' = [u \in Turns |-> After(u)]
      BY <1>3 DEF Sends
    <2>2. /\ Formed(crashed) /\ crashed.event = exchanges[t].event
          /\ crashed.stage = "crashed" /\ crashed.reply = reply
      BY <1>1, <1>2 DEF Formed
    <2>3. ASSUME NEW u \in Turns
          PROVE  LET failed == [exchanges[u] EXCEPT !.stage = "failed"]
                 IN  Formed(failed) /\ failed.stage = "failed"
      BY DEF ExchangesOK, Formed
    <2>4. \A u \in Turns : Formed(exchanges[u])
      BY DEF ExchangesOK
    <2> HIDE DEF crashed
    <2>5. ASSUME NEW u \in Turns
          PROVE  Formed(After(u)) /\ (u # t => After(u) = exchanges[u] \/ After(u).stage = "failed")
      <3> DEFINE failed == [exchanges[u] EXCEPT !.stage = "failed"]
      <3>1. Formed(failed) /\ failed.stage = "failed"
        BY <2>3
      <3>2. After(u) \in {crashed, failed, exchanges[u]}
        OBVIOUS
      <3>3. u # t => After(u) \in {failed, exchanges[u]}
        OBVIOUS
      <3> HIDE DEF failed, After
      <3>4. QED
        BY <2>2, <2>4, <3>1, <3>2, <3>3
    <2>6. After(t) = crashed
      OBVIOUS
    <2> HIDE DEF After
    <2>7. ExchangesOK'
      BY <2>1, <2>5 DEF ExchangesOK
    <2>8. QED
      BY <1>3, <2>1, <2>2, <2>5, <2>6, <2>7 DEF Outcome
  <1>4. CASE actions # Panics
    <2> DEFINE stage == IF actions = <<>> THEN "unsent" ELSE "answered"
               x == [[y EXCEPT !.actions = actions] EXCEPT !.stage = stage]
    <2>1. exchanges' = [converted EXCEPT ![t].actions = actions, ![t].stage = stage]
      BY <1>4 DEF Sends
    <2>2. exchanges' = [converted EXCEPT ![t] = x]
      <3> HIDE DEF converted, stage, y
      <3>1. QED
        BY <1>2, <2>1
    <2>3. /\ Formed(x) /\ x.event = exchanges[t].event /\ x.reply = reply
          /\ x.actions = actions /\ x.stage = stage
      <3> DEFINE z == [y EXCEPT !.actions = actions]
      <3>1. Formed(z) /\ z.event = exchanges[t].event /\ z.reply = reply /\ z.actions = actions
        <4> HIDE DEF y
        <4>1. QED
          BY <1>1 DEF Formed
      <3> HIDE DEF y, stage, z
      <3>2. LET w == [z EXCEPT !.stage = stage]
            IN  /\ Formed(w) /\ w.event = exchanges[t].event /\ w.reply = reply
                /\ w.actions = actions /\ w.stage = stage
        BY <3>1 DEF Formed
      <3>3. QED
        BY <3>2 DEF z
    <2>4. exchanges' = [exchanges EXCEPT ![t] = x]
      <3> HIDE DEF x
      <3>1. QED
        BY <2>2 DEF ExchangesOK
    <2>5. Outcome(x, reply, actions)
      <3> HIDE DEF x
      <3>1. QED
        BY <1>4, <2>3 DEF Outcome
    <2> HIDE DEF x
    <2>6. QED
      BY <2>3, <2>4, <2>5, OneExchange
  <1>5. QED
    BY <1>3, <1>4

LEMMA ExchangesFare ==
    ASSUME ExchangesOK, [ExchangeNext]_allVars
    PROVE  ExchangesOK' /\ \A u \in Turns : Fares(u)
  <1> DEFINE Goal == ExchangesOK' /\ \A u \in Turns : Fares(u)
  <1>1. ASSUME UNCHANGED exchanges
        PROVE  Goal
    BY <1>1 DEF ExchangesOK, Fares
  <1>2. ASSUME NEW t \in Turns, NEW request, Direct(t, request)
        PROVE  Goal
    BY <1>2, BeginsOne DEF Direct, Fares, Ended
  <1>3. ASSUME NEW t \in Turns, NEW event \in Events, Dispatch(t, event)
        PROVE  Goal
    <2>1. CASE /\ ~Ignored(event) /\ Receive(t, Envelope(event))
               /\ exchanges' = [exchanges EXCEPT ![t] = Exchange("waiting", event)]
      <3>1. Envelope(event) \in Requests
        BY <2>1, ExchangeAssumption
      <3>2. /\ ExchangesOK' /\ exchanges'[t].stage = "waiting" /\ exchanges'[t].event = event
            /\ \A u \in Turns \ {t} : exchanges'[u] = exchanges[u]
        BY <2>1, BeginsOne
      <3>3. Asked(t)
        BY <1>3, <2>1, <3>1, <3>2 DEF Asked
      <3>4. QED
        BY <3>2, <3>3 DEF Fares
    <2>2. CASE exchanges' = [exchanges EXCEPT ![t] = Exchange("ignored", event)]
      BY <2>2, BeginsOne DEF Fares, Ended
    <2>3. CASE exchanges' = [exchanges EXCEPT ![t] = Exchange("failed", event)]
      BY <2>3, BeginsOne DEF Fares, Ended
    <2>4. QED
      BY <1>3, <2>1, <2>2, <2>3 DEF Dispatch
  <1>4. ASSUME NEW t \in Turns, RequestFails(t)
        PROVE  Goal
    BY <1>4, BecomesOne DEF RequestFails, Fares, Ended
  <1>5. ASSUME NEW t \in Turns, NoReplyWanted(t)
        PROVE  Goal
    BY <1>5, BecomesOne DEF NoReplyWanted, Fares, Decided, vars
  <1>6. ASSUME NEW t \in Turns, NEW reply \in RepliesTo(t), Convert(t, reply)
        PROVE  Goal
    <2> DEFINE actions == BrainResponseActions(Target(exchanges[t].event), reply)
    <2>1. Sends(t, reply, actions)
      BY <1>6 DEF Convert
    <2> HIDE DEF actions
    <2>2. /\ ExchangesOK' /\ Outcome(exchanges'[t], reply, actions)
          /\ exchanges'[t].event = exchanges[t].event
          /\ \A u \in Turns \ {t} :
                    exchanges'[u] = exchanges[u] \/ exchanges'[u].stage = "failed"
      BY <2>1, SendsOne
    <2>3. Decided(t)
      BY <1>6, <2>2 DEF Convert, Decided, vars, actions
    <2>4. QED
      BY <2>2, <2>3 DEF Fares, Ended
  <1>7. BrainStep \/ GatewayStarts \/ UNCHANGED allVars => UNCHANGED exchanges
    BY DEF BrainStep, GatewayStarts, allVars, exchangeVars
  <1> HIDE DEF Goal
  <1>8. Goal
    BY <1>1, <1>2, <1>3, <1>4, <1>5, <1>6, <1>7 DEF ExchangeNext
  <1>9. QED
    BY <1>8 DEF Goal

\* An exchange that waits works for its event, or Brain has forgotten it; one
\* that is decided was decided by the response its own event got.
ExchangeOf(t) ==
    LET x == exchanges[t]
        turn == turns[t]
        Ends(wanted) == /\ turn.stage = "done" /\ turn.request = Envelope(x.event)
                        /\ wanted <=> turn.response.handled /\ turn.response.replied
    IN  /\ x.stage = "waiting" =>
                /\ turn.stage # "idle"
                /\ turn.stage = "lost" \/ turn.request = Envelope(x.event)
        /\ x.stage \in Replied => Ends(TRUE)
        /\ x.stage = "silent" => Ends(FALSE)

ExchangeInv == TurnsOK /\ ExchangesOK /\ \A t \in Turns : ExchangeOf(t)

LEMMA ExchangeInvStep ==
    ASSUME ExchangeInv, [ExchangeNext]_allVars
    PROVE  ExchangeInv'
  <1>1. [Next]_vars /\ TurnsOK /\ ExchangesOK
    BY BrainGoesOn DEF ExchangeInv
  <1>2. ExchangesOK' /\ \A t \in Turns : Fares(t)
    BY <1>1, ExchangesFare
  <1>3. ASSUME NEW t \in Turns
        PROVE  ExchangeOf(t)'
    <2>1. ExchangeOf(t)
      BY DEF ExchangeInv
    <2>2. CASE exchanges'[t] = exchanges[t]
      BY <1>1, <2>1, <2>2, TurnsLast DEF ExchangeOf, At
    <2>3. CASE Asked(t)
      <3> DEFINE event == exchanges'[t].event
      <3>1. Envelope(event) \in Requests /\ Receive(t, Envelope(event))
        BY <2>3 DEF Asked
      <3>2. PICK turn : Moves(t, turn) /\ Received(turns[t], turn) /\ turn.request = Envelope(event)
        BY <1>1, <3>1, ReceiveMoves
      <3>3. turns'[t] = turn
        BY <1>1, <3>2, MovesOne
      <3>4. turn.stage # "idle"
        BY <3>2 DEF Received
      <3>5. exchanges'[t].stage = "waiting"
        BY <2>3 DEF Asked
      <3>6. QED
        BY <3>2, <3>3, <3>4, <3>5 DEF ExchangeOf, Replied
    <2>4. CASE Ended(t)
      BY <2>4 DEF Ended, ExchangeOf, Replied
    <2>5. CASE Decided(t)
      <3>1. /\ Is(t, "waiting") /\ At(t, "done") /\ UNCHANGED turns
            /\ exchanges'[t].event = exchanges[t].event
        BY <2>5 DEF Decided
      <3>2. IF turns[t].response.handled /\ turns[t].response.replied
            THEN exchanges'[t].stage \in Replied ELSE exchanges'[t].stage = "silent"
        BY <2>5 DEF Decided, Outcome, Replied
      <3>3. QED
        BY <2>1, <3>1, <3>2 DEF ExchangeOf, Is, At, Replied
    <2>6. QED
      BY <1>2, <2>2, <2>3, <2>4, <2>5 DEF Fares
  <1>4. TurnsOK'
    <2>1. CASE UNCHANGED vars
      BY <1>1, <2>1 DEF vars, TurnsOK
    <2>2. QED
      BY <1>1, <2>1, StepsAre
  <1>5. QED
    BY <1>2, <1>3, <1>4 DEF ExchangeInv

\* Whatever fails or is started again in between, an event is answered only with
\* a response that the texts of that very event route to and that wants a reply,
\* and is left in silence only with one that wants none (DispatchBrain in router.go).
THEOREM AnsweredWhenWanted == ExchangeSpec => []RepliesAreWanted
  <1>1. ExchangeInit => ExchangeInv
    <2> SUFFICES ASSUME ExchangeInit PROVE ExchangeInv
      OBVIOUS
    <2>1. turns = [t \in Turns |-> Idle] /\ exchanges = [t \in Turns |-> Exchange("none", NoEvent)]
      BY DEF ExchangeInit, Init
    <2>2. TurnsOK
      BY <2>1, IdleIsShaped DEF TurnsOK
    <2>3. Formed(Exchange("none", NoEvent)) /\ Exchange("none", NoEvent).stage = "none"
      BY DEF Exchange, Formed
    <2>4. QED
      BY <2>1, <2>2, <2>3 DEF ExchangeInv, ExchangesOK, ExchangeOf, Replied
  <1>2. ExchangeInv /\ [ExchangeNext]_allVars => ExchangeInv'
    BY ExchangeInvStep
  <1>3. ExchangeInv /\ RouteIsExpected => RepliesAreWanted
    BY DEF ExchangeInv, ExchangeOf, RouteIsExpected, RepliesAreWanted, Replied
  <1>4. ExchangeSpec => []RouteIsExpected
    BY ExchangesAreTurns, RoutesAreExpected
  <1>5. QED
    BY <1>1, <1>2, <1>3, <1>4, PTL DEF ExchangeSpec

=============================================================================
