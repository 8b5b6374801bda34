--------------------------- MODULE MCChatExchange ---------------------------
EXTENDS ExchangePromise, MCChatTurn

Segm(type, text, id) == [type |-> type, text |-> text, id |-> id]
Event(kind, user, group, segments) ==
    [post |-> "message", kind |-> kind, self |-> "bot", user |-> user, group |-> group,
     topics |-> {1, 2}, segments |-> segments]

AiAlone == Say("ai", "ai", FALSE)

\* A mention, a command in two segments, a card, a stray segment, a text with a
\* memory command in its card, a private chat, a private chat by way of a group;
\* the bot itself and a notice.
RoutedEvents == {
    Event("group", "alice", "g1", <<Segm("at", NoText, "bot"), Segm("text", Hello, "")>>),
    Event("group", "alice", "g2", <<Segm("text", AskAi, ""), Segm("image", NoText, ""), Segm("text", Hello, "")>>),
    Event("group", "bob", "g1", <<Segm("text", AiAlone, ""), Segm("text", Hello, ""), Segm("at", NoText, "all")>>),
    Event("group", "bob", "g2", <<Segm("reply", NoText, "7"), Segm("json", Link, "")>>),
    Event("group", "carol", "g1", <<Segm("text", Hello, ""), Segm("json", Memory, "")>>),
    Event("private", "carol", "", <<Segm("text", Link, "")>>),
    Event("private", "bob", "g1", <<Segm("text", Memory, ""), Segm("at", NoText, "alice")>>),
    Event("group", "bot", "g1", <<Segm("text", Hello, "")>>),
    [Event("group", "alice", "g1", <<>>) EXCEPT !.post = "notice"]}

EventRequests == RoutedRequests \cup {Envelope(event) : event \in {e \in RoutedEvents : ~Ignored(e)}}

RoutedTexts == UNION {ToSet(ModuleTexts(request)) : request \in EventRequests}
EventBehaviours == {[s \in {"one", "two"} |-> [t \in RoutedTexts |->
                        IF t \in {Hello, Link} THEN f[s][t] ELSE "nothing"]]
                    : f \in Answering({Hello, Link})}

\* One of them is answered by a module where the documents have the memory
\* command answer.
ASSUME DepartureAssumption ==
    \E event \in {e \in RoutedEvents : ~Ignored(e)}, answers \in EventBehaviours :
        \E response \in Departures(Envelope(event), answers, "text") :
            response # Documented(Envelope(event), answers, "text")

Messages(items) == [messages |-> items, reply |-> "legacy"]
TextItem(text) == Item("text", text, "", <<>>)
Bearing(type, key) == Item(type, "", "", key :> Lit("v"))
Node(text, data) == Item("node", text, "", data)
Forward(key, nodes) == Item("forward", "", "", (key :> List(nodes)) @@ ("summary" :> Lit("s")))
User == "user_id" :> Lit("7")

Reference == Node("", ("id" :> Lit("1")) @@ ("messages" :> List(<<TextItem("a"), TextItem("")>>)))

OneText == [messages |-> <<TextItem("own text")>>, reply |-> "own text"]

\* Whole replies of every item type, forward messages in every form, and what
\* does not convert in the middle of what does.
MixedReplies == {
    Messages(<<>>),
    [messages |-> <<>>, reply |-> ""],
    Messages(<<TextItem("a"), Item("image", "", "f", <<>>), TextItem("b")>>),
    Messages(<<Item("audio", "", "", "url" :> Lit("u")), Item("video", "", "v", <<>>),
               Item("file", "", "f", "name" :> Lit("n")), Bearing("reply", "message_id"), Bearing("at", "qq"),
               Bearing("face", "id"), Bearing("json", "content"), Item("dice", "", "", <<>>),
               Bearing("music", "song")>>),
    Messages(<<TextItem("a"), Item("image", "no file", "", <<>>), TextItem("b")>>),
    Messages(<<TextItem("a"), Item("poke", "", "", <<>>)>>),
    Messages(<<TextItem("a"), Item("sticker", "a", "", <<>>)>>),
    Messages(<<Node("", User @@ ("messages" :> List(<<TextItem("a"), TextItem("b")>>))), Bearing("node", "id")>>),
    Messages(<<Node("", "messages" :> List(<<TextItem("")>>)), TextItem("a")>>),
    Messages(<<Node("", ("messages" :> List(<<TextItem("")>>)) @@ ("content" :> Lit("c"))), Node("a", User)>>),
    Messages(<<Forward("nodes", <<[Node("a", <<>>) EXCEPT !.extra = User], Bearing("node", "id")>>)>>),
    Messages(<<Forward("content", <<Bearing("node", "id"), TextItem("a")>>)>>),
    Messages(<<Forward("messages", <<Bearing("node", "id")>>), TextItem("a")>>),
    Messages(<<Node("", User)>>),
    Messages(<<Reference, Node("", User @@ ("text" :> Lit("a")))>>),
    Messages(<<TextItem("a"), Node("a", <<>>)>>),
    Messages(<<Forward("nodes", <<Node("", "messages" :> List(<<Node("a", <<>>)>>))>>)>>),
    Messages(<<Forward("nodes", <<Node("", User @@ ("messages" :> List(
                   <<TextItem("a"), Node("", User @@ ("messages" :> List(<<TextItem("b")>>)))>>)))>>)>>),
    Messages(<<Node("a", <<>>), Node("b", User)>>)}

\* Two events at once and a service that answers with nodes.
TwoEvents == {Event("group", "alice", "g1", <<Segm("text", Hello, "")>>),
              Event("group", "bob", "g1", <<Segm("text", Link, "")>>)}
TwoRequests == {Envelope(event) : event \in TwoEvents}
OneService == <<"one">>
NodeBehaviours == {[s \in {"one"} |-> [t \in {Hello, Link} |-> "reply"]]}
NodeReplies == {Messages(<<Node("a", <<>>)>>), Messages(<<Node("a", User)>>)}

\* The items of the replies and all that is nested in them, with their depths.
RECURSIVE AllItems(_), DepthOf(_)
Held(item) == UNION {ToSet(Nested(item.data[key].items)) : key \in DOMAIN item.data}
AllItems(items) == IF items = {} THEN {} ELSE items \cup AllItems(UNION {Held(item) : item \in items})
DepthOf(item) == IF Held(item) = {} THEN 0 ELSE 1 + Max({DepthOf(held) : held \in Held(item)})

ReplyItems == AllItems(UNION {ToSet(reply.messages) : reply \in MixedReplies \cup NodeReplies \cup {OneText}})
ItemDepths == [item \in ReplyItems |-> DepthOf(item)]
=============================================================================
