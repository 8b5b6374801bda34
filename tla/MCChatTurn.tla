----------------------------- MODULE MCChatTurn -----------------------------
EXTENDS ChatTurn, TLC

TurnSymmetry == Permutations(Turns)

CodeLimits == [message |-> 80, topic |-> 8, speaker |-> 12, window |-> 10, normal |-> 4,
               active |-> 12, burst |-> 25, crowd |-> 4, talkative |-> 5, reply |-> 3,
               hour |-> 60, day |-> 1440]

\* Every threshold within reach of a few messages.
SmallLimits == [message |-> 2, topic |-> 1, speaker |-> 1, window |-> 10, normal |-> 1,
                active |-> 2, burst |-> 3, crowd |-> 2, talkative |-> 2, reply |-> 3,
                hour |-> 60, day |-> 1440]

Say(name, command, argument) == [name |-> name, command |-> command, argument |-> argument]
Hello == Say("hello", "", FALSE)
Link == Say("link", "", FALSE)
Memory == Say("memory", "memory", TRUE)
ToolEcho == Say("tool-echo", "tool-echo", TRUE)
Echo == Say("echo", "echo", FALSE)
AskAi == Say("ai", "ai", TRUE)

Free == [blocked |-> {}, only |-> {}]
MixedPolicy == [one |-> [blocked |-> {"g1"}, only |-> {}], two |-> [blocked |-> {}, only |-> {"g1"}],
                tool_echo |-> [blocked |-> {"g2"}, only |-> {}], ai |-> Free]
FreePolicy == [one |-> Free, two |-> Free, tool_echo |-> Free, ai |-> Free]

TwoServices == <<"one", "two">>
NoServices == <<>>
Answering(texts) == [{"one", "two"} -> [texts -> {"reply", "silent", "nothing"}]]

Body(text, group) == [text |-> text, group |-> group]
Req(conversation, speaker, group, bodies, extras, mentioned) ==
    [conversation |-> conversation, speaker |-> speaker, topics |-> {1, 2}, group |-> group,
     bodies |-> bodies, extras |-> extras, mentioned |-> mentioned]

RoutedRequests == {
    Req("c1", "alice", "g1", <<Body(Hello, ""), Body(NoText, "")>>, <<Link, Hello>>, FALSE),
    Req("c1", "alice", "g1", <<Body(Hello, "")>>, <<>>, TRUE),
    Req("c1", "alice", "g1", <<Body(Link, "g2")>>, <<Memory>>, FALSE),
    Req("c1", "alice", "g1", <<Body(NoText, "")>>, <<Link>>, TRUE),
    Req("c2", "bob", "g2", <<Body(Hello, ""), Body(AskAi, "")>>, <<>>, FALSE),
    Req("c2", "bob", "g2", <<Body(ToolEcho, "")>>, <<>>, FALSE),
    Req("", "", "", <<Body(Echo, "")>>, <<Hello>>, FALSE),
    Req("c3", "carol", "", <<Body(ToolEcho, "")>>, <<>>, FALSE)}

\* Every service answers links only: "hello" and commands go past them.
RoutedBehaviours == {[s \in {"one", "two"} |-> [t \in {Hello, Link, Memory, ToolEcho, Echo, AskAi} |->
                        IF t \in {Hello, Link} THEN f[s][t] ELSE "nothing"]]
                     : f \in Answering({Hello, Link})}
SilentBehaviours == {[s \in {"one", "two"} |-> [t \in {Hello, Link, Memory, ToolEcho, Echo, AskAi} |-> "nothing"]]}

\* Two people in one group and a private chat, all of them talking to the bot.
TalkingRequests == {
    [Req("c1", "alice", "g1", <<Body(Hello, "")>>, <<>>, TRUE) EXCEPT !.topics = {1}],
    [Req("c1", "bob", "g1", <<Body(Memory, "")>>, <<>>, FALSE) EXCEPT !.topics = {2}],
    Req("c2", "bob", "", <<Body(Memory, "")>>, <<>>, FALSE)}
=============================================================================
