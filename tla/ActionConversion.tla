-------------------------- MODULE ActionConversion --------------------------
(***************************************************************************)
(* What the Gateway makes of a response of Brain (gateway-go/handler/      *)
(* router.go and client/napcat/action.go): message items become OneBot     *)
(* segments, a list of items becomes one action each or one forward        *)
(* action, all or nothing. A node may carry items of its own, so the       *)
(* conversion is recursive.                                                *)
(*                                                                         *)
(* Of an item the model keeps its type (trimmed, in lower case), its first *)
(* text (text, content), its first file (file, url, path), its name, its   *)
(* data and the keys of a nested item that are none of these (extra). A    *)
(* value is a text, or a list, which prints as "[]"; null counts as absent.*)
(* What the decoder of JSON accepts is nested to a bounded depth.          *)
(***************************************************************************)
EXTENDS SequencesExt

CONSTANTS
    Depth,      \* message item -> how deep items are nested in it
    Deepest     \* how deep the decoder accepts them

Items == DOMAIN Depth

\* The keys of over hide those of data.
Over(over, data) ==
    [key \in DOMAIN over \cup DOMAIN data |-> IF key \in DOMAIN over THEN over[key] ELSE data[key]]

Lit(text) == [text |-> text, items |-> <<>>]
List(items) == [text |-> "[]", items |-> items]

Item(type, text, file, data) ==
    [type |-> type, text |-> text, file |-> file, name |-> "", data |-> data, extra |-> <<>>]

\* brainItemFromMap: unknown keys of a nested item go to its data.
Nested(items) ==
    [k \in DOMAIN items |-> [items[k] EXCEPT !.data = Over(items[k].extra, items[k].data), !.extra = <<>>]]

\* Every value has a text and items; whatever an item holds is nested less deep.
Below(item) == {i \in Items : Depth[i] < Depth[item]}

ASSUME ItemsAssumption ==
    /\ Deepest \in Nat /\ Depth \in [Items -> 0..Deepest]
    /\ \A item \in Items : \A key \in DOMAIN item.data : Nested(item.data[key].items) \in Seq(Below(item))

\* A conversion gives the segments it made, none when the item is refused; an
\* assignment to a nil map panics.
Segment(type, data) == <<[type |-> type, data |-> data]>>
Refused == <<>>
Panics == Segment("panic", <<>>)

-----------------------------------------------------------------------------
(* Lookups in the data of an item.                                         *)

Only(data, keys) == [key \in DOMAIN data \cap keys |-> data[key]]

\* value and stringValue: the first key that is there, and that prints as a text.
Value(item, keys) ==
    LET there == {k \in DOMAIN keys : keys[k] \in DOMAIN item.data}
    IN  IF there = {} THEN <<>> ELSE <<item.data[keys[Min(there)]]>>
StringValue(item, keys) ==
    LET there == {k \in DOMAIN keys : keys[k] \in DOMAIN item.data /\ item.data[keys[k]].text # ""}
    IN  IF there = {} THEN "" ELSE item.data[keys[Min(there)]].text

TextValue(item) == IF item.text # "" THEN item.text ELSE StringValue(item, <<"text", "content">>)
FileValue(item) == IF item.file # "" THEN item.file ELSE StringValue(item, <<"file", "url", "path">>)

\* items of the first key that holds any.
NestedAt(item, keys) ==
    LET there == {k \in DOMAIN keys : keys[k] \in DOMAIN item.data /\ item.data[keys[k]].items # <<>>}
    IN  IF there = {} THEN <<>> ELSE Nested(item.data[keys[Min(there)]].items)
Inside(item) == NestedAt(item, <<"messages">>)

-----------------------------------------------------------------------------
(* Segments.                                                               *)

MediaOptions == [image |-> {"name", "thumb", "summary", "sub_type", "cache", "proxy", "timeout"},
                 video |-> {"name", "cover", "thumb"},
                 record |-> {"name", "magic", "cache", "proxy", "timeout"},
                 file |-> {"name", "folder"}]

FileSegment(item, type) ==
    LET named == IF item.name = "" THEN <<>> ELSE [name |-> Lit(item.name)]
    IN  IF FileValue(item) = "" THEN Refused
        ELSE Segment(type, Over([file |-> Lit(FileValue(item))],
                                Over(named, Only(item.data, MediaOptions[type]))))

\* A segment that is a single text.
TextSegment(type, key, text) ==
    IF text = "" THEN Refused ELSE Segment(type, [k \in {key} |-> Lit(text)])

ReplySegment(item) ==
    LET seq == Value(item, <<"seq", "message_seq">>)
    IN  IF StringValue(item, <<"id", "message_id">>) = "" THEN Refused
        ELSE Segment("reply", Over([id |-> Lit(StringValue(item, <<"id", "message_id">>))],
                                   IF seq = <<>> THEN <<>> ELSE [seq |-> Head(seq)]))

\* A loop over items, each one segment or action: the first that is refused, or
\* panics, ends it.
InTurn(parts) ==
    LET bad == {k \in DOMAIN parts : parts[k] \in {Refused, Panics}}
    IN  IF bad = {} THEN [k \in DOMAIN parts |-> Head(parts[k])] ELSE parts[Min(bad)]

\* nodeContent: items that convert, else whatever content there is, else a text.
NodeContent(item, segments) ==
    LET content == Value(item, <<"content", "message">>)
    IN  IF segments # Refused THEN <<List(segments)>>
        ELSE IF content # <<>> THEN content
        ELSE IF TextValue(item) = "" THEN Refused
        ELSE <<List(TextSegment("text", "text", TextValue(item)))>>

\* What the item says about its author comes before the defaults.
Author(item) ==
    LET user == Value(item, <<"user_id", "uin">>)
        nickname == StringValue(item, <<"nickname", "name">>)
    IN  Over(IF user = <<>> THEN <<>> ELSE [user_id |-> Head(user)],
             IF nickname = "" THEN <<>> ELSE [nickname |-> Lit(nickname)])
DefaultAuthor == [user_id |-> Lit("0"), nickname |-> Lit("TestBot")]

\* copyMap gives nil for data without keys, and the assignment of the content
\* panics. A reference node needs no content.
NodeSegment(item, segments) ==
    LET id == StringValue(item, <<"id">>)
        content == NodeContent(item, segments)
    IN  IF id # "" THEN Segment("node", Over([id |-> Lit(id)], item.data))
        ELSE IF segments = Panics THEN Panics
        ELSE IF content = Refused THEN Refused
        ELSE IF item.data = <<>> THEN Panics
        ELSE Segment("node", Over([content |-> Head(content)],
                                  Over(Author(item), Over(item.data, DefaultAuthor))))

\* parts is what became of the items inside; only a node looks at it.
SegmentOf(item, parts) ==
    CASE item.type = "text" -> TextSegment("text", "text", TextValue(item))
      [] item.type \in {"image", "video", "file"} -> FileSegment(item, item.type)
      [] item.type \in {"record", "audio"} -> FileSegment(item, "record")
      [] item.type = "reply" -> ReplySegment(item)
      [] item.type = "at" -> TextSegment("at", "qq", StringValue(item, <<"qq", "user_id">>))
      [] item.type = "face" -> IF "id" \in DOMAIN item.data THEN Segment("face", Only(item.data, {"id"}))
                               ELSE Refused
      [] item.type \in {"json", "xml", "markdown"} ->
            TextSegment(item.type, "data", StringValue(item, <<"data", "content", "text">>))
      [] item.type \in {"dice", "rps"} -> Segment(item.type, item.data)
      [] item.type \in {"music", "contact", "poke", "mface"} ->
            IF item.data = <<>> THEN Refused ELSE Segment(item.type, item.data)
      [] item.type = "node" -> NodeSegment(item, InTurn(parts))
      [] OTHER -> Refused

ToSegment[item \in Items] ==
    SegmentOf(item, [k \in DOMAIN Inside(item) |-> ToSegment[Inside(item)[k]]])

-----------------------------------------------------------------------------
(* Actions, for a target [kind, user, group].                              *)

Action(target, group, private, body, options) ==
    IF target.kind = "group"
    THEN IF target.group = "" THEN Refused
         ELSE <<[type |-> group, to |-> target.group, body |-> body, options |-> options]>>
    ELSE IF target.user = "" THEN Refused
         ELSE <<[type |-> private, to |-> target.user, body |-> body, options |-> options]>>

Send(target, body) == Action(target, "send_group_msg", "send_private_msg", body, <<>>)
SendSegment(target, segment) ==
    IF segment \in {Refused, Panics} THEN segment ELSE Send(target, List(segment))

IsForwardMessageSet(items) ==
    \/ Len(items) = 1 /\ items[1].type = "forward"
    \/ \A k \in DOMAIN items : items[k].type = "node"

\* The nodes are those of a forward item, or the items themselves; the first
\* that is no node ends the loop over them.
NodesInTurn(nodes) ==
    InTurn([k \in DOMAIN nodes |-> IF nodes[k].type = "node" THEN ToSegment[nodes[k]] ELSE Refused])
SendForward(target, segments, options) ==
    IF segments \in {Refused, Panics} THEN segments
    ELSE Action(target, "send_group_forward_msg", "send_private_forward_msg", List(segments), options)
ForwardActions(target, items) ==
    IF items[1].type # "forward" THEN SendForward(target, NodesInTurn(items), <<>>)
    ELSE SendForward(target, NodesInTurn(NestedAt(items[1], <<"nodes", "messages", "content">>)),
                     Only(items[1].data, {"news", "prompt", "summary", "source"}))

\* Mutant of ItemActions: an item that does not convert is passed over.
ItemActionsThatConvert(target, items) ==
    LET parts == [k \in DOMAIN items |-> SendSegment(target, ToSegment[items[k]])]
    IN  IF Panics \in ToSet(parts) THEN Panics ELSE FlattenSeq(parts)

ItemActions(target, items) == InTurn([k \in DOMAIN items |-> SendSegment(target, ToSegment[items[k]])])

\* Messages come before the legacy reply.
BrainResponseActions(target, response) ==
    IF response.messages = <<>>
    THEN IF response.reply = "" THEN Refused ELSE Send(target, Lit(response.reply))
    ELSE IF IsForwardMessageSet(response.messages) THEN ForwardActions(target, response.messages)
    ELSE ItemActions(target, response.messages)

=============================================================================
