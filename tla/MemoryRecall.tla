---------------------------- MODULE MemoryRecall ----------------------------
(***************************************************************************)
(* How a chat request uses the memory, while commands, sweeps and jobs     *)
(* change it (recall_context in brain-python/services/memory.py), and how  *)
(* memories get the embeddings that vector recall needs (there, and in     *)
(* memory_embedding.py). A recall reads the table up to three times, each  *)
(* time in a transaction of its own, and ranks what it has read.           *)
(*                                                                         *)
(* A recall writes nothing, so one is enough; it ends with its process, so *)
(* Brain does not restart here.                                            *)
(***************************************************************************)
EXTENDS MemoryService

CONSTANTS
    Requests,       \* [group, user, text] of the chat requests
    Relevance,      \* text -> content -> the hundredths each search gives it
    Wordless,       \* the texts in which _keywords finds no word
    RecallLimit,    \* DEFAULT_MEMORY_LIMIT
    RecentLimit,    \* DEFAULT_RECENT_LIMIT
    VectorRecall,   \* MEMORY_VECTOR_RECALL_ENABLED, with embeddings configured
    IndexBatches,   \* the limits of /memory embedding index
    Refused         \* contents the embedding service refuses

VARIABLES
    embedded,       \* memory_embeddings: the memories that have a vector
    index,          \* an index command: the rows it has still to store, its stage
    recall,         \* the recall: stage, request, merged candidates
    answer,         \* what it returned
    window,         \* history: memories the recall could have used at some moment
    quiet           \* history: "yes" while nothing has changed since it began,
                    \* "textual" when only the vector search has failed

recallVars == <<recall, answer, window, quiet>>
allVars == <<vars, embedded, index, recallVars>>

\* Every search has its score for a content.
HasScores(content) == \A text \in DOMAIN Relevance :
    Relevance[text][content] \in [keyword : Percent, fts : Percent, vector : Percent]

ASSUME RecallAssumption ==
    /\ Requests \subseteq [group : STRING, user : STRING, text : DOMAIN Relevance]
    /\ Wordless \subseteq DOMAIN Relevance
    /\ RecallLimit \in Nat \ {0} /\ RecentLimit \in Nat \ {0} /\ IndexBatches \subseteq Nat \ {0}
    /\ "restart" \notin Faults
    /\ Nobody \notin Groups
    /\ \A table \in InitialTables, i \in Ids :
            table[i].status # "absent" => HasScores(table[i].fact.content)
    /\ \A replies \in Answers : \A k \in DOMAIN replies : HasScores(replies[k].fact.content)

-----------------------------------------------------------------------------
(* Scores (memory_score and its parts): parts in hundredths, recency in    *)
(* ten-thousandths, the total rounded to four decimals.                    *)

EntityRelevance(fact, request) ==
    IF fact.scope = "global" THEN 20
    ELSE Bounded((IF request.group # Nobody /\ fact.group = request.group THEN 45 ELSE 0)
                 + (IF request.user # Nobody /\ fact.user = request.user THEN 45 ELSE 0)
                 + (IF request.user # Nobody /\ fact.target = request.user THEN 35 ELSE 0), 100)

ScopeRelevance(fact, request) ==
    CASE fact.scope \in {"user", "relationship"} /\ request.user \in {fact.user, fact.target} -> 100
      [] fact.scope = "group" -> 75
      [] fact.scope = "global" -> 40
      [] OTHER -> 50

Recency(age) ==
    IF age <= 30 THEN 10000 ELSE IF age >= 180 THEN 2000 ELSE 10000 - ((age - 30) * 8000) \div 150

Score(c, request) ==
    (1800 * c.keyword + 1200 * c.fts + 2500 * c.vector
     + 1800 * EntityRelevance(c.row.fact, request) + 1200 * ScopeRelevance(c.row.fact, request)
     + 10 * c.row.quality + 5 * Recency(c.row.age) + 50) \div 100

\* The sort key: total, quality, last_seen_at.
Before(c, d, request) ==
    \/ Score(c, request) > Score(d, request)
    \/ /\ Score(c, request) = Score(d, request)
       /\ \/ c.row.quality > d.row.quality
          \/ c.row.quality = d.row.quality /\ c.row.age < d.row.age

-----------------------------------------------------------------------------
(* Candidates: the row as a search has read it, and what each search gave. *)

NoHit == [row |-> Absent, keyword |-> 0, fts |-> 0, vector |-> 0]
Hit(row, search, text) == [NoHit EXCEPT !.row = row, ![search] = Relevance[text][row.fact.content][search]]

\* Mutant of MergeOne: the scores of a later search are dropped.
MergeOneFirst(c, d) == IF c.row.status = "absent" THEN d ELSE c

\* Of two readings of a row the one with the higher quality, then the later
\* last_seen_at is kept, with the best score of each search.
MergeOne(c, d) ==
    IF c.row.status = "absent" THEN d
    ELSE IF d.row.status = "absent" THEN c
    ELSE [row |-> IF \/ d.row.quality > c.row.quality
                     \/ d.row.quality = c.row.quality /\ d.row.age < c.row.age
                  THEN d.row ELSE c.row,
          keyword |-> Larger(c.keyword, d.keyword), fts |-> Larger(c.fts, d.fts),
          vector |-> Larger(c.vector, d.vector)]

\* The rows a request may use now. The searches stay below their LIMITs.
UsableIn(table, request) ==
    {i \in Ids : Recallable(table[i]) /\ InScope(table[i].fact, request.group, request.user)}
Usable(request) == UsableIn(items, request)

KeywordHits(request) ==
    {i \in Usable(request) : request.text \in Wordless
                             \/ Relevance[request.text][items[i].fact.content].keyword > 0}
FtsHits(request) ==
    {i \in Usable(request) : Relevance[request.text][items[i].fact.content].fts > 0}
VectorHits(request) == IF VectorRecall THEN Usable(request) \cap embedded ELSE {}

-----------------------------------------------------------------------------
(* A recall.                                                               *)

RecallStages == {"idle", "setting", "keyword", "fts", "vector", "ranking", "recent",
                 "done"}
NoRequest == [group |-> Nobody, user |-> Nobody, text |-> ""]
NoAnswer == [ids |-> {}, messages |-> {}]
NoRecall == [stage |-> "idle", request |-> NoRequest,
             found |-> [i \in Ids |-> NoHit], best |-> {}]

StartRecall(request) ==
    /\ recall.stage = "idle"
    /\ recall' = [recall EXCEPT !.stage = IF request.group = Nobody THEN "keyword" ELSE "setting",
                                !.request = request]
    /\ UNCHANGED <<answer, quiet>>

CheckGroup ==
    /\ recall.stage = "setting"
    /\ recall' = [recall EXCEPT !.stage =
            IF recall.request.group \in Groups \ enabled THEN "done" ELSE "keyword"]
    /\ UNCHANGED <<answer, quiet>>

\* One search: its rows are merged with those read before.
Search(stage, hits, next) ==
    /\ recall.stage = stage
    /\ recall' = [recall EXCEPT !.stage = next, !.found = [i \in Ids |->
            IF i \in hits THEN MergeOne(@[i], Hit(items[i], stage, recall.request.text)) ELSE @[i]]]
    /\ UNCHANGED <<answer, quiet>>

ReadKeyword == Search("keyword", KeywordHits(recall.request), "fts")
ReadFts == Search("fts", FtsHits(recall.request), "vector")

\* The text could not be embedded, or the read failed: no vector candidates.
VectorSkipped ==
    /\ VectorRecall /\ Faults # {} /\ recall.stage = "vector"
    /\ recall' = [recall EXCEPT !.stage = "ranking"]
    /\ quiet' = (IF quiet = "yes" THEN "textual" ELSE quiet) /\ UNCHANGED answer
ReadVector == Search("vector", VectorHits(recall.request), "ranking") \/ VectorSkipped

Found == {i \in Ids : recall.found[i].row.status # "absent"}

\* Mutant of Rank: a short list is not taken.
RankFull ==
    /\ recall.stage = "ranking" /\ Cardinality(Found) >= RecallLimit
    /\ \E S \in SUBSET Found :
            Cardinality(S) = RecallLimit /\ recall' = [recall EXCEPT !.stage = "recent", !.best = S]
    /\ UNCHANGED <<answer, quiet>>

\* The best RecallLimit candidates, in any order among equals.
Rank ==
    /\ recall.stage = "ranking"
    /\ \E S \in SUBSET Found :
            /\ Cardinality(S) = RecallLimit \/ (S = Found /\ Cardinality(S) < RecallLimit)
            /\ \A i \in S, j \in Found \ S :
                    ~Before(recall.found[j], recall.found[i], recall.request)
            /\ recall' = [recall EXCEPT !.stage = "recent", !.best = S]
    /\ UNCHANGED <<answer, quiet>>

\* The latest messages of the conversation complete the answer.
Conversation(request) ==
    {m \in said : m.group = request.group /\ (request.group # Nobody \/ m.sender = request.user)}

ReadRecent ==
    /\ recall.stage = "recent"
    /\ answer' = [ids |-> recall.best, messages |-> Newest(Conversation(recall.request), RecentLimit)]
    /\ recall' = [recall EXCEPT !.stage = "done"]
    /\ UNCHANGED quiet

\* Any other read that fails empties the whole answer.
RecallFails ==
    /\ "database" \in Faults /\ recall.stage \in {"setting", "keyword", "fts", "recent"}
    /\ recall' = [recall EXCEPT !.stage = "done"]
    /\ quiet' = "no" /\ UNCHANGED answer

RecallStep == CheckGroup \/ ReadKeyword \/ ReadFts \/ ReadVector \/ Rank \/ ReadRecent

-----------------------------------------------------------------------------
(* The index command (_index_missing_memory_embeddings).                   *)

NoIndex == [stage |-> "idle", rows |-> {}]

Missing == {i \in Ids : Recallable(items[i]) /\ i \notin embedded}

\* list_memories_missing_embeddings: quality, importance, last_seen_at, id.
Ahead(i, j) ==
    LET a == items[i] b == items[j]
    IN  \/ a.quality > b.quality
        \/ a.quality = b.quality /\ a.importance > b.importance
        \/ a.quality = b.quality /\ a.importance = b.importance /\ a.age < b.age
        \/ a.quality = b.quality /\ a.importance = b.importance /\ a.age = b.age /\ i > j

StartIndex(group, limit) ==
    LET here == {i \in Missing : group = Nobody \/ items[i].fact.group = group
                                               \/ items[i].fact.scope = "global"}
        rows == {i \in here : Cardinality({j \in here : Ahead(j, i)}) < limit}
    IN  /\ index.stage = "idle" /\ rows # {}
        /\ index' = [stage |-> "embedding", rows |-> rows]
        /\ UNCHANGED embedded

\* One call embeds the whole batch: a refused content, a short or malformed
\* answer or a failed call spoils all of it.
EmbedBatch ==
    /\ index.stage = "embedding"
    /\ \/ /\ \A i \in index.rows : items[i].fact.content \notin Refused
          /\ index' = [index EXCEPT !.stage = "storing"]
       \/ /\ "model" \in Faults \/ \E i \in index.rows : items[i].fact.content \in Refused
          /\ index' = NoIndex
    /\ UNCHANGED embedded

\* Each vector is stored by itself and a failure skips only its row.
StoreVector(i) ==
    /\ index.stage = "storing" /\ i \in index.rows
    /\ embedded' = embedded \cup {i} \/ ("database" \in Faults /\ UNCHANGED embedded)
    /\ index' = IF index.rows = {i} THEN NoIndex ELSE [index EXCEPT !.rows = @ \ {i}]

IndexStep == EmbedBatch \/ \E i \in Ids : StoreVector(i)

-----------------------------------------------------------------------------
RecallInit ==
    /\ Init
    /\ embedded \in SUBSET {i \in Ids : Recallable(items[i])} /\ index = NoIndex
    /\ recall = NoRecall /\ answer = NoAnswer /\ window = {} /\ quiet = "yes"

\* The history of the recall: what it could use before or after this step.
Watch == window' = IF recall'.stage = "idle" THEN {}
                   ELSE window \cup UsableIn(items', recall'.request)

Recalling == UNCHANGED <<vars, embedded, index>> /\ RecallStep /\ Watch

\* Everything else that goes on meanwhile.
Meanwhile(change) ==
    /\ change /\ UNCHANGED <<recall, answer>> /\ Watch
    /\ quiet' = IF recall.stage = "idle" \/ UNCHANGED <<items, embedded, enabled, said>>
                THEN quiet ELSE "no"

Indexing == Meanwhile(UNCHANGED vars /\ IndexStep)

RecallNext ==
    \/ Recalling \/ Indexing
    \/ Meanwhile(Next /\ UNCHANGED <<embedded, index>>)
    \/ \E g \in Groups \cup {Nobody}, limit \in IndexBatches :
            Meanwhile(UNCHANGED vars /\ StartIndex(g, limit))
    \/ /\ RecallFails \/ \E request \in Requests : StartRecall(request)
       /\ UNCHANGED <<vars, embedded, index>> /\ Watch

RecallSpec == RecallInit /\ [][RecallNext]_allVars

\* The thread of a request and the thread of an index command go on.
FairRecallSpec == RecallSpec /\ WF_allVars(Recalling) /\ WF_allVars(Indexing)

-----------------------------------------------------------------------------
\* What a recall tells was usable at some moment since the request came:
\* never a memory forgotten or distrusted before. And it is this request's to
\* see: what a group has taught Brain stays in the group, what it was taught
\* about people is told to those people only.
RecallIsJustified ==
    /\ answer.ids \subseteq window /\ Cardinality(answer.ids) <= RecallLimit
    /\ \A i \in answer.ids :
            LET fact == items[i].fact
            IN  fact.scope = "global"
                \/ /\ fact.group = recall.request.group /\ recall.request.group # Nobody
                   /\ fact.scope # "group" => recall.request.user \in {fact.user, fact.target}
    /\ \A m \in answer.messages : m.group = recall.request.group

\* What a row would score if one search saw everything at once.
Whole(i, request, vectors) ==
    LET hit == Relevance[request.text][items[i].fact.content]
    IN  [row |-> items[i], keyword |-> hit.keyword, fts |-> hit.fts,
         vector |-> IF i \in vectors THEN hit.vector ELSE 0]

\* The three reads and the merge rank like one look at the table: when nothing
\* changed meanwhile, the answer is the best of what matches at all. A failing
\* vector search costs its own candidates and scores and nothing else
\* (docs/api/memory-api.md).
QuietRecallIsBest ==
    LET request == recall.request
        vectors == IF quiet = "yes" THEN VectorHits(request) ELSE {}
        matches == KeywordHits(request) \cup FtsHits(request) \cup vectors
    IN  recall.stage = "done" /\ quiet # "no" =>
            IF request.group \in Groups \ enabled THEN answer = NoAnswer
            ELSE /\ answer.ids \subseteq matches
                 /\ Cardinality(answer.ids) = RecallLimit
                        \/ (answer.ids = matches /\ Cardinality(matches) < RecallLimit)
                 /\ \A i \in answer.ids, j \in matches \ answer.ids :
                        ~Before(Whole(j, request, vectors), Whole(i, request, vectors), request)

\* Every request gets its context and every index command ends, whatever fails.
RecallAnswers ==
    /\ recall.stage # "idle" ~> recall.stage = "done"
    /\ index.stage # "idle" ~> index.stage = "idle"

=============================================================================
