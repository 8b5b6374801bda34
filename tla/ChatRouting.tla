---------------------------- MODULE ChatRouting -----------------------------
(***************************************************************************)
(* What answers a chat request in Brain (brain-python/services/chat.py,    *)
(* modules/registry.py and the triggers of services/ai_runtime.py): the    *)
(* texts of a request, the responses of its handlers, and the order in     *)
(* which the documents rank the handlers. Text is abstracted to what       *)
(* routing sees of it: the command it invokes and whether it has an        *)
(* argument. ChatTurn takes the decisions as the code does, step by step.  *)
(***************************************************************************)
EXTENDS ConversationView

CONSTANTS
    Services,       \* the remote module services, in their configured order
    Policy,         \* module -> [blocked, only]: its group lists ("ai" and "tool_echo" too)
    Ai              \* "on", "disabled" (AI_ENABLED) or "unconfigured"

NoText == [name |-> "", command |-> "", argument |-> FALSE]

Response(handled, replied, route) == [handled |-> handled, replied |-> replied, route |-> route]
NoResponse == Response(FALSE, FALSE, "")

\* _request_text_and_context: the last body with a text, and its group.
Selected(request) ==
    LET bodies == {k \in DOMAIN request.bodies : request.bodies[k].text # NoText}
    IN  IF bodies = {} THEN [text |-> NoText, group |-> request.group]
        ELSE LET body == request.bodies[CHOOSE k \in bodies : \A j \in bodies : j <= k]
             IN  [text |-> body.text, group |-> IF body.group = "" THEN request.group ELSE body.group]

\* _request_module_texts: the selected text, the text segments and the texts
\* in JSON messages, each once.
ModuleTexts(request) ==
    LET texts == <<Selected(request).text>> \o request.extras
        firsts == {k \in DOMAIN texts :
                        texts[k] # NoText /\ \A j \in 1..(k - 1) : texts[j] # texts[k]}
        Place(n) == CHOOSE k \in firsts : Cardinality({j \in firsts : j < k}) = n - 1
    IN  [n \in 1..Cardinality(firsts) |-> texts[Place(n)]]

\* _module_group_allowed and _group_allowed; a private chat has no group.
GroupAllowed(module, group) ==
    \/ group = ""
    \/ /\ group \notin Policy[module].blocked
       /\ Policy[module].only = {} \/ group \in Policy[module].only

\* The deterministic module /tool-echo.
EchoModule(text, group) ==
    IF GroupAllowed("tool_echo", group) THEN Response(TRUE, text.argument, "module")
    ELSE Response(TRUE, FALSE, "blocked")

\* _detect_trigger.
Trigger(request) ==
    IF Selected(request).text.command = "ai" THEN "command"
    ELSE IF request.mentioned THEN "mention" ELSE "none"

\* What the AI stage says without asking a model: a command gets a text, a
\* mention is left to no route.
AiDeclines(request) ==
    IF Trigger(request) = "command" THEN Response(TRUE, TRUE, "ai") ELSE Response(FALSE, FALSE, "no_route")

AiAvailable(request) == GroupAllowed("ai", Selected(request).group) /\ Ai = "on"

\* What a model's answer becomes. An answer that is JSON but no object raises
\* an AttributeError, which nobody catches.
AiAnswers == {"text", "empty", "fails", "shape"}
AiResponse(request, got) ==
    CASE got = "text" -> Response(TRUE, TRUE, "ai")
      [] got = "empty" -> Response(TRUE, FALSE, "ai")
      [] got = "fails" -> AiDeclines(request)
      [] got = "shape" -> Response(FALSE, FALSE, "raised")

-----------------------------------------------------------------------------
(* The order of the documents (docs/api/brain-api.md, "Routing Order" and  *)
(* "Memory And AI"; docs/api/ai-runtime-api.md, "Error Responses"), for one *)
(* answer of every service to every text ("reply", "silent" or "nothing":  *)
(* not handled, unreachable, malformed) and one of the model.              *)

\* Module 0 is /tool-echo, the others are the services.
Takes(text, group, module, said) ==
    IF module = 0 THEN text.command = "tool-echo"
    ELSE GroupAllowed(Services[module], group) /\ said[Services[module]][text] # "nothing"

\* Steps 4 and 5: "For each candidate text, try deterministic in-core modules
\* first. If no in-core module matches that candidate, try configured remote
\* modules", over the texts at the given places.
ByModules(request, places, said) ==
    LET texts == ModuleTexts(request)
        group == Selected(request).group
        taken == {p \in places \X (0..Len(Services)) : Takes(texts[p[1]], group, p[2], said)}
        first == {p \in taken : \A q \in taken : p[1] < q[1] \/ (p[1] = q[1] /\ p[2] <= q[2])}
        winner == CHOOSE p \in first : TRUE
        text == texts[winner[1]]
    IN  IF first = {} THEN NoResponse
        ELSE IF winner[2] = 0 THEN EchoModule(text, group)
        ELSE Response(TRUE, said[Services[winner[2]]][text] = "reply", "remote")

MemoryAt(request) ==
    {k \in DOMAIN ModuleTexts(request) : ModuleTexts(request)[k].command = "memory"}
BeforeMemory(request) ==
    {k \in DOMAIN ModuleTexts(request) : \A m \in MemoryAt(request) : k < m}

\* Step 3 comes first: "For each candidate text, try memory admin commands."
\* Steps 6 to 8 follow when no module has taken any text, and a model's answer
\* of an invalid shape is one of the failures a command is told of.
Documented(request, said, got) ==
    LET served == ByModules(request, DOMAIN ModuleTexts(request), said)
        selected == Selected(request).text
    IN  IF MemoryAt(request) # {} THEN Response(TRUE, TRUE, "memory")
        ELSE IF served # NoResponse THEN served
        ELSE IF selected.command = "echo" THEN Response(TRUE, selected.argument, "planner")
        ELSE IF selected = NoText \/ Trigger(request) = "none" THEN Response(FALSE, FALSE, "no_route")
        ELSE IF AiAvailable(request) /\ got # "shape" THEN AiResponse(request, got)
        ELSE AiDeclines(request)

\* The two ways in which the code departs from that. Its loop asks the modules
\* for a text before it looks for a memory command in the next (chat.py:45), and
\* a model's answer that is JSON but no object raises (ai_runtime.py:77).
Departures(request, said, got) ==
    {response \in {ByModules(request, BeforeMemory(request), said)} :
        MemoryAt(request) # {} /\ response # NoResponse}
    \cup {response \in {Response(FALSE, FALSE, "raised")} : got = "shape"}

=============================================================================
