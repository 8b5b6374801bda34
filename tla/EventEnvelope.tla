--------------------------- MODULE EventEnvelope ----------------------------
(***************************************************************************)
(* What the Gateway makes of a NapCat event: the filter and the dispatch   *)
(* of gateway-go/handler/router.go, the normalizer and the envelope of the *)
(* Brain client, up to the request Brain works on. An event has post,      *)
(* kind, self, user, group ("" for 0), the topics of its text and its      *)
(* segments [type, text, id]: the text of a text or of a JSON card, the id *)
(* an "at" or a reply names ("" when it is no number). Images, videos and  *)
(* unknown segments reach Brain and are not looked at by its routing.      *)
(***************************************************************************)
EXTENDS ChatRouting

\* ignoreBeforeNormalize, and the same conditions again in Dispatch.
Ignored(event) ==
    \/ event.post # "message"
    \/ event.kind \notin {"group", "private"}
    \/ event.self # "" /\ event.user = event.self

OfType(event, type) == SelectSeq(event.segments, LAMBDA segment : segment.type = type)

Texts(event, type) ==
    LET found == SelectSeq(OfType(event, type), LAMBDA segment : segment.text # NoText)
    IN  [k \in DOMAIN found |-> found[k].text]

\* The text segments are joined without a separator: only a command that has
\* an argument of its own is still one when more text follows.
Joined(texts) ==
    IF texts = <<>> THEN NoText
    ELSE IF Len(texts) = 1 THEN Head(texts)
    ELSE [name |-> "joined", argument |-> Head(texts).argument,
          command |-> IF Head(texts).argument THEN Head(texts).command ELSE ""]

AtUserIDs(event) ==
    {segment.id : segment \in {s \in ToSet(OfType(event, "at")) : s.id \notin {"", "all"}}}

\* NewEnvelope, as Brain reads it: an event that names a group belongs to the
\* conversation of the group, a private one too.
Envelope(event) ==
    [conversation |-> IF event.kind = "group" \/ event.group # "" THEN event.group ELSE event.user,
     speaker |-> event.user, topics |-> event.topics, group |-> event.group,
     bodies |-> <<[text |-> Joined(Texts(event, "text")), group |-> ""]>>,
     extras |-> Texts(event, "text") \o Texts(event, "json"),
     mentioned |-> event.self # "" /\ event.self \in AtUserIDs(event)]

\* NewSendRawMessageAction answers to where the event came from.
Target(event) == [kind |-> event.kind, user |-> event.user, group |-> event.group]

=============================================================================
