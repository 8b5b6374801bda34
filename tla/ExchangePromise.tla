-------------------------- MODULE ExchangePromise --------------------------
(***************************************************************************)
(* What the documents promise of an exchange: the item table and the       *)
(* section on forward messages of docs/api/gateway-api.md, and what they   *)
(* make of whole replies.                                                  *)
(***************************************************************************)
EXTENDS ChatExchange

Media == {"image", "video", "record", "audio", "file"}
Structured == {"json", "xml", "markdown"}

\* Some of the keys has a value that prints.
Has(item, keys) == \E key \in keys \cap DOMAIN item.data : item.data[key].text # ""

\* What an item must have to be sent, whole being whether it holds items and
\* all of them have it.
IsComplete(item, whole) ==
    \/ item.type = "text" /\ (item.text # "" \/ Has(item, {"text", "content"}))
    \/ item.type \in Media /\ (item.file # "" \/ Has(item, {"file", "url", "path"}))
    \/ item.type = "reply" /\ Has(item, {"id", "message_id"})
    \/ item.type = "at" /\ Has(item, {"qq", "user_id"})
    \/ item.type = "face" /\ Has(item, {"id"})
    \/ item.type \in Structured /\ Has(item, {"data", "content", "text"})
    \/ item.type \in {"dice", "rps"}
    \/ item.type \in {"music", "contact", "poke", "mface"} /\ DOMAIN item.data # {}
    \/ item.type = "node" /\ (Has(item, {"id", "content", "message", "text"}) \/ item.text # "" \/ whole)

Complete[item \in Items] ==
    IsComplete(item, Inside(item) # <<>> /\ \A k \in DOMAIN Inside(item) : Complete[Inside(item)[k]])
Whole(item) == Inside(item) # <<>> /\ \A k \in DOMAIN Inside(item) : Complete[Inside(item)[k]]

IsReference(item) == StringValue(item, <<"id">>) # ""

\* A content node as a bare text, at any depth that is converted.
Bare[item \in Items] ==
    /\ item.type = "node" /\ ~IsReference(item)
    /\ \/ item.data = <<>> /\ item.text # ""
       \/ \E k \in DOMAIN Inside(item) : Bare[Inside(item)[k]]

-----------------------------------------------------------------------------
(* What a segment must show of its item.                                   *)

\* The text, file or reference an item is there for, "" when it is for none.
Own(item) ==
    CASE item.type = "text" -> TextValue(item)
      [] item.type \in Media -> FileValue(item)
      [] item.type = "reply" -> StringValue(item, <<"id", "message_id">>)
      [] item.type = "at" -> StringValue(item, <<"qq", "user_id">>)
      [] item.type \in Structured -> StringValue(item, <<"data", "content", "text">>)
      [] item.type = "node" -> StringValue(item, <<"id">>)
      [] OTHER -> ""

Carries(segment, text) == \E key \in DOMAIN segment.data : segment.data[key] = Lit(text)

\* Every segment the Gateway makes of an item.
Made == {Head(ToSegment[item]) : item \in {i \in Items : ToSegment[i] \notin {Refused, Panics}}}

\* A content node has the segments of the items inside, each in its place, when
\* these are complete; when there are none, and no other content, its text.
ShowsContent(segments, item, showing) ==
    /\ Whole(item) => /\ DOMAIN segments = DOMAIN showing
                      /\ \A k \in DOMAIN showing : segments[k] \in showing[k]
    /\ Inside(item) = <<>> /\ Value(item, <<"content", "message">>) = <<>> =>
            Len(segments) = 1 /\ Carries(segments[1], TextValue(item))

\* The segments that show an item, showing being those that show the items inside.
IsShown(segment, item, showing) ==
    /\ segment.type = IF item.type = "audio" THEN "record" ELSE item.type
    /\ Own(item) # "" => Carries(segment, Own(item))
    /\ item.type = "node" /\ ~IsReference(item) =>
            /\ "content" \in DOMAIN segment.data
            /\ ShowsContent(segment.data["content"].items, item, showing)

Showing[item \in Items] ==
    LET showing == [k \in DOMAIN Inside(item) |-> Showing[Inside(item)[k]]]
    IN  {segment \in Made : IsShown(segment, item, showing)}

-----------------------------------------------------------------------------
(* Whole replies.                                                          *)

IsForward(messages) == Len(messages) = 1 /\ messages[1].type = "forward"

\* What has to be complete: the nodes of a forward item, or the messages themselves.
Parts(messages) ==
    IF IsForward(messages) THEN NestedAt(messages[1], <<"nodes", "messages", "content">>) ELSE messages

CompleteReply(reply) ==
    LET parts == Parts(reply.messages)
    IN  IF reply.messages = <<>> THEN reply.reply # ""
        ELSE /\ parts # <<>>
             /\ \A k \in DOMAIN parts :
                    Complete[parts[k]] /\ (IsForward(reply.messages) => parts[k].type = "node")

\* Every message of the reply in its place: an action for each, or one forward
\* action with a segment for each, or the legacy text.
SendsAll(reply, actions) ==
    LET parts == Parts(reply.messages)
    IN  IF reply.messages = <<>> THEN Len(actions) = 1 /\ actions[1].body = Lit(reply.reply)
        ELSE IF IsForward(reply.messages) \/ \A k \in DOMAIN parts : parts[k].type = "node"
        THEN /\ Len(actions) = 1 /\ Len(actions[1].body.items) = Len(parts)
             /\ \A k \in DOMAIN parts : actions[1].body.items[k] \in Showing[parts[k]]
        ELSE /\ Len(actions) = Len(parts)
             /\ \A k \in DOMAIN parts : /\ Len(actions[k].body.items) = 1
                                        /\ actions[k].body.items[1] \in Showing[parts[k]]

Address(event) == IF event.kind = "group" THEN event.group ELSE event.user

\* docs/api/gateway-api.md, "Brain Message Items". Whatever goes wrong in
\* between, what the Gateway makes of a reply is what the item table asks for:
\* the whole reply, in order, at every depth, to where the event came from;
\* nothing only when an item lacks what it needs, or the event named nobody; and
\* the process ends on nothing but a node given as a bare text.
ExchangeIsDocumented ==
    \A t \in Turns :
        LET x == exchanges[t]
        IN  /\ x.stage = "answered" =>
                    /\ SendsAll(x.reply, x.actions)
                    /\ \A k \in DOMAIN x.actions : x.actions[k].to = Address(x.event)
            /\ x.stage = "unsent" => ~CompleteReply(x.reply) \/ Address(x.event) = ""
            /\ x.stage = "crashed" =>
                    \E k \in DOMAIN Parts(x.reply.messages) : Bare[Parts(x.reply.messages)[k]]

\* docs/api/gateway-api.md, "Forward Messages": a content node may be given by
\* its "item text. Missing `user_id` defaults to `0`; missing `nickname`
\* defaults to `TestBot`." A reply that has all it needs never ends the Gateway.
CompleteRepliesAreSafe == \A t \in Turns : Is(t, "crashed") => ~CompleteReply(exchanges[t].reply)

=============================================================================
