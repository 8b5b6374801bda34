-------------------------- MODULE ConversationView --------------------------
(***************************************************************************)
(* The rules of Brain's short-term conversation state (brain-python/       *)
(* services/conversation_state.py): what is read of a conversation and     *)
(* what is derived from it. Both tables that are read, messages and        *)
(* bot_responses, are one log of rows here, in the order in which they     *)
(* were stored; instants are in minutes. The lists of topics and of        *)
(* speakers are ranked in the code and only cut off by it: they are sets.  *)
(***************************************************************************)
EXTENDS Integers, SequencesExt

CONSTANT Limits     \* the constants of the code, with its names and values:
    \* [message : 80 (RECENT_MESSAGE_LIMIT), topic : 8, speaker : 12, window : 10,
    \*  normal : 4, active : 12, burst : 25 (messages), crowd : 4 (speakers),
    \*  talkative : 5 (replies), reply : 3 (BOT_RECENT_REPLY_SECONDS), hour : 60, day : 1440]

NoReply == -1
NoView == [topics |-> {}, velocity |-> "none", speakers |-> {}, count |-> 0,
           last |-> NoReply, hour |-> 0, day |-> 0, brief |-> FALSE]

\* The first reading: the latest messages of the window, newest first.
RecentMessages(log, conversation, now) ==
    LET Recent(row) == /\ row.kind = "message" /\ row.conversation = conversation
                       /\ row.at >= now - Limits.window
        rows == Reverse(SelectSeq(log, Recent))
    IN  SubSeq(rows, 1, IF Len(rows) < Limits.message THEN Len(rows) ELSE Limits.message)

\* The second: the replies of the last day.
BotStats(log, conversation, now) ==
    LET replies == {k \in DOMAIN log : /\ log[k].kind = "response" /\ log[k].replied
                                       /\ log[k].conversation = conversation
                                       /\ log[k].at >= now - Limits.day}
        instants == {log[k].at : k \in replies}
    IN  [hour |-> Cardinality({k \in replies : log[k].at >= now - Limits.hour}),
         day |-> Cardinality(replies),
         last |-> IF instants = {} THEN NoReply
                  ELSE CHOOSE at \in instants : \A other \in instants : other <= at]

Velocity(count) ==
    IF count >= Limits.burst THEN "burst"
    ELSE IF count >= Limits.active THEN "active"
    ELSE IF count >= Limits.normal THEN "normal" ELSE "quiet"

\* Ranked by the row, counted from the newest, that names them first.
RecentSpeakers(rows) ==
    LET speakers == {rows[k].speaker : k \in DOMAIN rows} \ {""}
        At(s) == Min({k \in DOMAIN rows : rows[k].speaker = s})
    IN  {s \in speakers : Cardinality({r \in speakers : At(r) < At(s)}) < Limits.speaker}

\* The topics named by most messages, then those named last.
ActiveTopics(rows) ==
    LET topics == UNION {rows[k].topics : k \in DOMAIN rows}
        Count(t) == Cardinality({k \in DOMAIN rows : t \in rows[k].topics})
        At(t) == Min({k \in DOMAIN rows : t \in rows[k].topics})
        Ahead(u, t) == \/ Count(u) > Count(t)
                       \/ Count(u) = Count(t) /\ At(u) < At(t)
                       \/ Count(u) = Count(t) /\ At(u) = At(t) /\ u < t
    IN  {t \in topics : Cardinality({u \in topics : Ahead(u, t)}) < Limits.topic}

\* derive_state; "brief" is should_avoid_long_reply.
Derive(rows, stats, now) ==
    LET velocity == Velocity(Len(rows))
        speakers == RecentSpeakers(rows)
    IN  [topics |-> ActiveTopics(rows), velocity |-> velocity, speakers |-> speakers,
         count |-> Len(rows), last |-> stats.last, hour |-> stats.hour, day |-> stats.day,
         brief |-> \/ velocity \in {"active", "burst"}
                   \/ Cardinality(speakers) >= Limits.crowd
                   \/ stats.hour >= Limits.talkative
                   \/ stats.last # NoReply /\ now - stats.last <= Limits.reply]

=============================================================================
