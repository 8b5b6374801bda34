---------------------------- MODULE RecallProofs ----------------------------
(***************************************************************************)
(* What a recall may tell, whatever commands, sweeps and jobs do to the    *)
(* table between its reads.                                                *)
(***************************************************************************)
EXTENDS MemoryRecall, MemoryProofs

(* What a memory says never changes.                                       *)

\* A job that found the row of a memory knows what the row says.
SeenHolds(x) == jobs[x].match # 0 => jobs[x].seen.fact = items[jobs[x].match].fact
SeenIsFaithful == \A x \in Jobs : SeenHolds(x)

LEMMA FactStays ==
    ASSUME Inv, SeenIsFaithful, [Next]_vars, NEW i \in Ids, Stored(i)
    PROVE  items'[i].status # "absent" /\ items'[i].fact = items[i].fact
  <1>1. items'[i].status # "absent"
    BY RowStaysSound DEF Stored
  <1>2. CASE Untouched(i) \/ Confirmed(i) \/ Retired(i) \/ WrittenBack(i) \/ Doubted(i)
    BY <1>1, <1>2 DEF Untouched, Confirmed, Retired, WrittenBack, Doubted, Kept
  <1>3. CASE Strengthened(i)
    <2>1. PICK x \in Jobs :
                jobs[x].match = i /\ i # 0 /\ items'[i].fact = jobs[x].seen.fact
      BY <1>3 DEF Strengthened
    <2>2. QED
      BY <1>1, <2>1 DEF SeenIsFaithful, SeenHolds
  <1>4. ~Inserted(i)
    BY DEF Inserted, Stored
  <1>5. QED
    BY <1>2, <1>3, <1>4, RowSteps DEF Inv

LEMMA SeenStaysFaithful ==
    ASSUME Inv, SeenIsFaithful, [Next]_vars
    PROVE  SeenIsFaithful'
  <1> SUFFICES ASSUME NEW x \in Jobs, jobs'[x].match # 0
               PROVE  jobs'[x].seen.fact = items'[jobs'[x].match].fact
    BY DEF SeenIsFaithful, SeenHolds
  <1> DEFINE i == jobs'[x].match
             Told == i \in Ids /\ Stored(i) /\ jobs'[x].seen.fact = items[i].fact
  <1>1. TypeOK /\ JobsAreSound /\ JobIsSound(jobs[x])
    BY DEF Inv, JobsAreSound
  <1>2. SameHand(jobs[x], jobs'[x]) => Told
    <2>1. jobs[x].match # 0 => jobs[x].match \in Ids
      BY <1>1, HandColumns
    <2>2. QED
      BY <2>1 DEF SameHand, Inv, MatchIsFaithful, MatchHolds, SeenIsFaithful, SeenHolds
  <1>3. Told
    <2>1. Rests(x) => SameHand(jobs[x], jobs'[x])
      BY DEF Rests, SameHand
    <2>2. Starts(x) \/ Reads(x) \/ Opens(x) \/ IsAnswered(x) => SameHand(jobs[x], jobs'[x])
      BY DEF Starts, Reads, Opens, IsAnswered
    <2>3. ~Takes(x)
      BY <1>1 DEF Takes, From, JobIsSound
    <2>4. ~HasWritten(x)
      BY DEF HasWritten
    <2>5. ~(Closes(x) \/ Notifies(x) \/ GivesUp(x) \/ IsLost(x))
      BY DEF Closes, Notifies, GivesUp, IsLost, Dropped
    <2>6. Matches(x) => SameHand(jobs[x], jobs'[x]) \/ Told
      BY DEF Matches, Matching, Stored
    <2> HIDE DEF Told
    <2>7. QED
      BY <1>1, <1>2, <2>1, <2>2, <2>3, <2>4, <2>5, <2>6, JobSteps
  <1>4. QED
    <2> HIDE DEF i
    <2>1. items'[i].fact = items[i].fact
      BY <1>3, FactStays
    <2>2. QED
      BY <1>3, <2>1 DEF i

-----------------------------------------------------------------------------
(* A recall.                                                               *)

\* The parts of a recall.
RecallShape ==
    recall = [stage |-> recall.stage, request |-> recall.request,
              found |-> recall.found, best |-> recall.best]

\* Nothing happens before the request comes. From then on the window holds what
\* can be used now, and all it ever held is still stored and still this request's
\* to see.
WindowOK ==
    /\ recall.stage = "idle" => window = {} /\ answer = NoAnswer
    /\ recall.stage # "idle" => UsableIn(items, recall.request) \subseteq window
    /\ \A i \in window :
            /\ i \in Ids /\ Stored(i)
            /\ InScope(items[i].fact, recall.request.group, recall.request.user)

\* What was found, ranked and answered was in the window.
FindsOK ==
    /\ Found \subseteq window
    /\ recall.best \subseteq window /\ Cardinality(recall.best) <= RecallLimit
    /\ answer.ids \subseteq window /\ Cardinality(answer.ids) <= RecallLimit
    /\ \A m \in answer.messages : m.group = recall.request.group

RecallInv == Inv /\ SeenIsFaithful /\ RecallShape /\ WindowOK /\ FindsOK

LEMMA NothingFound == Cardinality({}) <= RecallLimit
  BY FS_EmptySet, RecallAssumption

\* The memory goes on as if nobody recalled.
LEMMA RecallOnlyReads ==
    ASSUME [RecallNext]_allVars
    PROVE  [Next]_vars
  BY DEF RecallNext, allVars, Recalling, Indexing, Meanwhile

LEMMA MemoryStaysSound ==
    ASSUME RecallInv, [RecallNext]_allVars
    PROVE  /\ Inv' /\ SeenIsFaithful'
           /\ \A i \in window : Stored(i)' /\ items'[i].fact = items[i].fact
  <1>1. [Next]_vars
    BY RecallOnlyReads
  <1>2. QED
    BY <1>1, InvStep, SeenStaysFaithful, FactStays DEF RecallInv, WindowOK, Stored

LEMMA UsableIsJustified ==
    ASSUME NEW table, NEW request, NEW i \in UsableIn(table, request)
    PROVE  /\ i \in Ids /\ table[i].status # "absent"
           /\ InScope(table[i].fact, request.group, request.user)
  BY DEF UsableIn, Recallable

\* Rows that were read could be used when they were read.
LEMMA HitsAreUsable ==
    /\ KeywordHits(recall.request) \subseteq UsableIn(items, recall.request)
    /\ FtsHits(recall.request) \subseteq UsableIn(items, recall.request)
    /\ VectorHits(recall.request) \subseteq UsableIn(items, recall.request)
  BY DEF KeywordHits, FtsHits, VectorHits, Usable

\* Whatever else happens, the window is kept.
LEMMA WindowKept ==
    ASSUME RecallInv, [RecallNext]_allVars, Watch, recall'.stage # "idle",
           recall'.request = recall.request
    PROVE  WindowOK' /\ window \subseteq window'
  <1>1. window' = window \cup UsableIn(items', recall.request)
    BY DEF Watch
  <1>2. ASSUME NEW i \in window'
        PROVE  /\ i \in Ids /\ Stored(i)'
               /\ InScope(items'[i].fact, recall.request.group, recall.request.user)
    <2>1. CASE i \in window
      BY <2>1, MemoryStaysSound DEF RecallInv, WindowOK
    <2>2. CASE i \in UsableIn(items', recall.request)
      BY <2>2, UsableIsJustified DEF Stored
    <2>3. QED
      BY <1>1, <1>2, <2>1, <2>2
  <1>3. UsableIn(items, recall.request)' \subseteq window'
    BY <1>1
  <1>4. QED
    BY <1>1, <1>2, <1>3 DEF WindowOK

\* The request comes: the window opens.
LEMMA StartKeeps ==
    ASSUME RecallInv, [RecallNext]_allVars, NEW request, StartRecall(request),
           UNCHANGED <<vars, embedded, index>>, Watch
    PROVE  RecallShape' /\ WindowOK' /\ FindsOK'
  <1>1. /\ recall' = [stage |-> recall'.stage, request |-> request,
                      found |-> recall.found, best |-> recall.best]
        /\ recall'.stage # "idle" /\ window = {} /\ answer = NoAnswer /\ answer' = answer
    BY DEF StartRecall, RecallInv, RecallShape, WindowOK
  <1>2. window' = UsableIn(items', request)
    BY <1>1 DEF Watch
  <1>3. RecallShape'
    BY <1>1 DEF RecallShape
  <1>4. WindowOK'
    <2>1. \A i \in window' :
                /\ i \in Ids /\ Stored(i)'
                /\ InScope(items'[i].fact, recall'.request.group, recall'.request.user)
      BY <1>1, <1>2, UsableIsJustified DEF Stored
    <2>2. recall'.stage # "idle" /\ UsableIn(items', recall'.request) \subseteq window'
      BY <1>1, <1>2
    <2>3. QED
      BY <2>1, <2>2 DEF WindowOK
  <1>5. FindsOK'
    <2>1. Found' = {} /\ recall.best = {}
      BY <1>1 DEF RecallInv, FindsOK, Found
    <2>2. QED
      BY <1>1, <2>1, NothingFound DEF FindsOK, NoAnswer
  <1>6. QED
    BY <1>3, <1>4, <1>5

\* A recall that neither finds, ranks nor answers anything only moves on.
LEMMA MovingKeeps ==
    ASSUME RecallInv, [RecallNext]_allVars, Watch, answer' = answer, NEW stage,
           stage = "idle" <=> recall.stage = "idle",
           recall' = [recall EXCEPT !.stage = stage]
    PROVE  RecallShape' /\ WindowOK' /\ FindsOK'
  <1>1. recall' = [stage |-> stage, request |-> recall.request,
                   found |-> recall.found, best |-> recall.best]
    BY DEF RecallInv, RecallShape
  <1>2. RecallShape'
    BY <1>1 DEF RecallShape
  <1>3. WindowOK' /\ window \subseteq window'
    <2>1. CASE stage = "idle"
      BY <1>1, <2>1 DEF Watch, WindowOK, RecallInv
    <2>2. CASE stage # "idle"
      BY <1>1, <2>2, WindowKept
    <2>3. QED
      BY <2>1, <2>2
  <1>4. FindsOK'
    <2>1. Found' = Found
      BY <1>1 DEF Found
    <2>2. QED
      BY <1>1, <1>3, <2>1 DEF FindsOK, RecallInv
  <1>5. QED
    BY <1>2, <1>3, <1>4

LEMMA MergedRow ==
    ASSUME NEW c, NEW d
    PROVE  MergeOne(c, d).row \in {c.row, d.row}
  BY DEF MergeOne

\* One search adds only rows it has just read.
LEMMA SearchKeeps ==
    ASSUME RecallInv, [RecallNext]_allVars, NEW stage, NEW hits, NEW next,
           Search(stage, hits, next), hits \subseteq UsableIn(items, recall.request),
           stage # "idle", next # "idle", Watch
    PROVE  RecallShape' /\ WindowOK' /\ FindsOK'
  <1>1. /\ recall.stage = stage
        /\ recall' = [stage |-> next, request |-> recall.request, best |-> recall.best,
                      found |-> recall'.found]
        /\ recall'.found = [i \in Ids |->
                IF i \in hits
                THEN MergeOne(recall.found[i], Hit(items[i], stage, recall.request.text))
                ELSE recall.found[i]]
    BY DEF Search, RecallInv, RecallShape
  <1>2. RecallShape'
    BY <1>1 DEF RecallShape
  <1>3. WindowOK' /\ window \subseteq window'
    BY <1>1, WindowKept
  <1>4. Found' \subseteq Found \cup hits
    BY <1>1 DEF Found
  <1>5. hits \subseteq window
    BY <1>1 DEF RecallInv, WindowOK
  <1>6. FindsOK'
    BY <1>1, <1>3, <1>4, <1>5 DEF FindsOK, RecallInv, Search
  <1>7. QED
    BY <1>2, <1>3, <1>6

\* A ranking takes what was found, and not too much of it.
LEMMA RankKeeps ==
    ASSUME RecallInv, [RecallNext]_allVars, Rank, Watch
    PROVE  RecallShape' /\ WindowOK' /\ FindsOK'
  <1>1. PICK S \in SUBSET Found :
            /\ Cardinality(S) = RecallLimit \/ (S = Found /\ Cardinality(S) < RecallLimit)
            /\ recall' = [recall EXCEPT !.stage = "recent", !.best = S]
    BY DEF Rank
  <1>2. recall' = [stage |-> "recent", request |-> recall.request,
                   found |-> recall.found, best |-> S]
    BY <1>1 DEF RecallInv, RecallShape
  <1>3. Cardinality(S) <= RecallLimit
    <2>1. IsFiniteSet(S)
      BY MemoryAssumption, FS_Subset DEF Found
    <2>2. QED
      BY <1>1, <2>1, FS_CardinalityType, RecallAssumption
  <1>4. RecallShape'
    BY <1>2 DEF RecallShape
  <1>5. WindowOK' /\ window \subseteq window'
    BY <1>2, WindowKept
  <1>6. Found' = Found /\ answer' = answer
    BY <1>2 DEF Found, Rank
  <1>7. FindsOK'
    BY <1>2, <1>3, <1>5, <1>6 DEF FindsOK, RecallInv
  <1>8. QED
    BY <1>4, <1>5, <1>7

\* The answer is what was ranked, and messages of the conversation.
LEMMA AnswerKeeps ==
    ASSUME RecallInv, [RecallNext]_allVars, ReadRecent, Watch
    PROVE  RecallShape' /\ WindowOK' /\ FindsOK'
  <1>1. recall' = [stage |-> "done", request |-> recall.request,
                   found |-> recall.found, best |-> recall.best]
    BY DEF ReadRecent, RecallInv, RecallShape
  <1>2. RecallShape'
    BY <1>1 DEF RecallShape
  <1>3. WindowOK' /\ window \subseteq window'
    BY <1>1, WindowKept
  <1>4. \A m \in answer'.messages : m.group = recall.request.group
    BY DEF ReadRecent, Newest, Conversation
  <1>5. Found' = Found /\ answer'.ids = recall.best
    BY <1>1 DEF Found, ReadRecent
  <1>6. FindsOK'
    BY <1>1, <1>3, <1>4, <1>5 DEF FindsOK, RecallInv
  <1>7. QED
    BY <1>2, <1>3, <1>6

LEMMA RecallStepKeeps ==
    ASSUME RecallInv, [RecallNext]_allVars, RecallStep, Watch
    PROVE  RecallShape' /\ WindowOK' /\ FindsOK'
  <1>1. CASE CheckGroup
    <2>1. PICK stage \in {"done", "keyword"} : recall' = [recall EXCEPT !.stage = stage]
      BY <1>1 DEF CheckGroup
    <2>2. recall.stage # "idle" /\ answer' = answer
      BY <1>1 DEF CheckGroup
    <2>3. QED
      BY <2>1, <2>2, MovingKeeps
  <1>2. CASE ReadKeyword
    BY <1>2, SearchKeeps, HitsAreUsable DEF ReadKeyword
  <1>3. CASE ReadFts
    BY <1>3, SearchKeeps, HitsAreUsable DEF ReadFts
  <1>4. CASE Search("vector", VectorHits(recall.request), "ranking")
    BY <1>4, SearchKeeps, HitsAreUsable
  <1>5. CASE VectorSkipped
    <2>1. /\ recall.stage # "idle" /\ answer' = answer
          /\ recall' = [recall EXCEPT !.stage = "ranking"]
      BY <1>5 DEF VectorSkipped
    <2>2. QED
      BY <2>1, MovingKeeps
  <1>6. CASE Rank
    BY <1>6, RankKeeps
  <1>7. CASE ReadRecent
    BY <1>7, AnswerKeeps
  <1>8. QED
    BY <1>1, <1>2, <1>3, <1>4, <1>5, <1>6, <1>7 DEF RecallStep, ReadVector

\* What others do meanwhile leaves the recall alone.
LEMMA OthersKeep ==
    ASSUME RecallInv, [RecallNext]_allVars, UNCHANGED <<recall, answer>>, Watch
    PROVE  RecallShape' /\ WindowOK' /\ FindsOK'
  <1>1. recall' = [recall EXCEPT !.stage = recall.stage]
    BY DEF RecallInv, RecallShape
  <1>2. answer' = answer
    OBVIOUS
  <1>3. QED
    BY <1>1, <1>2, MovingKeeps

LEMMA RecallInvStep ==
    ASSUME RecallInv, [RecallNext]_allVars
    PROVE  RecallInv'
  <1>1. Inv' /\ SeenIsFaithful'
    BY MemoryStaysSound
  <1>2. CASE UNCHANGED allVars
    <2>1. Found' = Found /\ UNCHANGED <<items, recall, answer, window>>
      BY <1>2 DEF allVars, recallVars, vars, Found
    <2>2. RecallShape'
      BY <2>1 DEF RecallInv, RecallShape
    <2>3. WindowOK'
      BY <2>1 DEF RecallInv, WindowOK, Stored
    <2>4. FindsOK'
      BY <2>1 DEF RecallInv, FindsOK
    <2>5. QED
      BY <1>1, <2>2, <2>3, <2>4 DEF RecallInv
  <1>3. CASE RecallNext
    <2>1. CASE Recalling
      BY <1>1, <2>1, RecallStepKeeps DEF Recalling, RecallInv
    <2>2. ASSUME NEW change, Meanwhile(change)
          PROVE  RecallInv'
      BY <1>1, <2>2, OthersKeep DEF Meanwhile, RecallInv
    <2>3. CASE RecallFails /\ Watch
      <3>1. /\ recall.stage # "idle" /\ answer' = answer
            /\ recall' = [recall EXCEPT !.stage = "done"]
        BY <2>3 DEF RecallFails
      <3>2. QED
        BY <1>1, <2>3, <3>1, MovingKeeps DEF RecallInv
    <2>4. ASSUME NEW request \in Requests, StartRecall(request),
                 UNCHANGED <<vars, embedded, index>>, Watch
          PROVE  RecallInv'
      BY <1>1, <2>4, StartKeeps DEF RecallInv
    <2>5. QED
      BY <1>3, <2>1, <2>2, <2>3, <2>4 DEF RecallNext, Indexing
  <1>4. QED
    BY <1>2, <1>3

LEMMA RecallInitialInv ==
    ASSUME RecallInit
    PROVE  RecallInv
  <1>1. Inv
    BY InitialInv DEF RecallInit
  <1>2. SeenIsFaithful
    BY DEF RecallInit, Init, SeenIsFaithful, SeenHolds, NewJob
  <1>3. recall = NoRecall /\ answer = NoAnswer /\ window = {}
    BY DEF RecallInit
  <1>4. RecallShape /\ WindowOK
    BY <1>3 DEF RecallShape, WindowOK, NoRecall
  <1>5. FindsOK
    BY <1>3, NothingFound DEF FindsOK, Found, NoRecall, NoAnswer, NoHit, Absent
  <1>6. QED
    BY <1>1, <1>2, <1>4, <1>5 DEF RecallInv

-----------------------------------------------------------------------------
\* Whatever commands, sweeps and jobs did between its reads, a recall tells
\* only what was usable since the request came and this request's to see
\* (recall_context).
THEOREM RecallsAreJustified == RecallSpec => []RecallIsJustified
  <1>1. RecallInit => RecallInv
    BY RecallInitialInv
  <1>2. RecallInv /\ [RecallNext]_allVars => RecallInv'
    BY RecallInvStep
  <1>3. RecallInv => RecallIsJustified
    <2> SUFFICES ASSUME RecallInv, NEW i \in answer.ids
                 PROVE  LET fact == items[i].fact
                        IN  fact.scope = "global"
                            \/ /\ fact.group = recall.request.group
                               /\ recall.request.group # Nobody
                               /\ fact.scope # "group" =>
                                    recall.request.user \in {fact.user, fact.target}
      BY DEF RecallIsJustified, RecallInv, FindsOK
    <2>1. InScope(items[i].fact, recall.request.group, recall.request.user)
      BY DEF RecallInv, FindsOK, WindowOK
    <2>2. QED
      BY <2>1 DEF InScope
  <1>4. QED
    BY <1>1, <1>2, <1>3, PTL DEF RecallSpec

-----------------------------------------------------------------------------
(* What a recall finds while nothing changes.                              *)

\* Whatever is stored, or about to be, has a score in every search.
InHand(x) == jobs[x].stage \in {"matching", "writing"}
ScoresKnown ==
    /\ \A i \in Ids : Stored(i) => HasScores(items[i].fact.content)
    /\ \A x \in Jobs : InHand(x) => HasScores(jobs[x].candidate.fact.content)

\* A candidate is the model's answer, tidied, and keeps the content.
LEMMA AnswersAreScored ==
    ASSUME Inv, NEW x \in Jobs, NEW k \in jobs[x].todo
    PROVE  HasScores(Cleaned(jobs[x].answer[k].fact).content)
  <1> DEFINE replies == jobs[x].answer
  <1>1. jobs[x] \in Job /\ k \in 1..Len(replies)
    BY DEF Inv, TypeOK, JobsAreSound, JobIsSound
  <1>2. replies \in {<<>>} \cup Answers
    BY <1>1, JobColumns
  <1> HIDE DEF replies
  <1>3. replies \in Answers
    BY <1>1, <1>2
  <1>4. k \in DOMAIN replies
    BY <1>1, <1>3, ServiceAssumption
  <1>5. HasScores(replies[k].fact.content)
    BY <1>3, <1>4, RecallAssumption
  <1>6. Cleaned(replies[k].fact).content = replies[k].fact.content
    BY DEF Cleaned
  <1>7. QED
    BY <1>5, <1>6 DEF replies

LEMMA ScoresStayKnown ==
    ASSUME Inv, SeenIsFaithful, ScoresKnown, [Next]_vars
    PROVE  ScoresKnown'
  <1>1. ASSUME NEW i \in Ids, items'[i].status # "absent"
        PROVE  HasScores(items'[i].fact.content)
    <2>1. CASE Stored(i)
      BY <2>1, FactStays DEF ScoresKnown
    <2>2. CASE ~Stored(i)
      <3>1. Inserted(i)
        <4>1. ~Confirmed(i) /\ ~Retired(i) /\ ~Doubted(i) /\ ~Untouched(i)
          BY <1>1, <2>2 DEF Confirmed, Retired, Doubted, Untouched, Stored
        <4>2. ~WrittenBack(i)
          BY <2>2 DEF WrittenBack, Inv, SweepsReadActive
        <4>3. ~Strengthened(i)
          BY <1>1, <2>2 DEF Strengthened, Stored
        <4>4. QED
          BY <4>1, <4>2, <4>3, RowSteps DEF Inv
      <3>2. PICK x \in Jobs : jobs[x].stage = "writing" /\ items'[i].fact = jobs[x].candidate.fact
        BY <3>1 DEF Inserted
      <3>3. QED
        BY <3>2 DEF ScoresKnown, InHand
    <2>3. QED
      BY <2>1, <2>2
  <1>2. ASSUME NEW x \in Jobs, jobs'[x].stage \in {"matching", "writing"}
        PROVE  HasScores(jobs'[x].candidate.fact.content)
    <2>1. CASE Takes(x)
      <3>1. PICK k \in jobs[x].todo : jobs'[x].candidate.fact = Cleaned(jobs[x].answer[k].fact)
        BY <2>1 DEF Takes
      <3>2. QED
        BY <3>1, AnswersAreScored
    <2>2. CASE Rests(x) \/ Matches(x)
      <3>1. InHand(x) /\ jobs'[x].candidate = jobs[x].candidate
        BY <1>2, <2>2 DEF InHand, Rests, Matches, From
      <3>2. QED
        BY <3>1 DEF ScoresKnown
    <2>3. Takes(x) \/ Rests(x) \/ Matches(x)
      <3>1. ~(\/ Starts(x) \/ Reads(x) \/ Opens(x) \/ IsAnswered(x) \/ HasWritten(x)
              \/ Closes(x) \/ Notifies(x) \/ GivesUp(x) \/ IsLost(x))
        BY <1>2 DEF Starts, Reads, Opens, IsAnswered, HasWritten, Closes, Notifies, GivesUp, IsLost, From
      <3>2. QED
        BY <3>1, JobSteps DEF Inv
    <2>4. QED
      BY <2>1, <2>2, <2>3
  <1>3. QED
    BY <1>1, <1>2 DEF ScoresKnown, InHand, Stored, HasScores

LEMMA ScoresKnownAtFirst ==
    ASSUME RecallInit
    PROVE  ScoresKnown
  <1>1. items \in InitialTables /\ \A x \in Jobs : jobs[x].stage = "idle"
    BY DEF RecallInit, Init, NewJob
  <1>2. QED
    BY <1>1, RecallAssumption DEF ScoresKnown, InHand, Stored

\* What a candidate is after searches that have hit these rows.
Gathered(i, K, F, V) ==
    LET hit == Relevance[recall.request.text][items[i].fact.content]
    IN  IF i \in K \cup F \cup V
        THEN [row |-> items[i], keyword |-> IF i \in K THEN hit.keyword ELSE 0,
              fts |-> IF i \in F THEN hit.fts ELSE 0,
              vector |-> IF i \in V THEN hit.vector ELSE 0]
        ELSE NoHit

\* What the searches that are done have hit. A skipped one has hit nothing.
ReadWords ==
    IF recall.stage \in {"fts", "vector", "ranking", "recent", "done"}
    THEN KeywordHits(recall.request) ELSE {}
ReadTexts ==
    IF recall.stage \in {"vector", "ranking", "recent", "done"}
    THEN FtsHits(recall.request) ELSE {}
ReadVectors ==
    IF quiet = "yes" /\ recall.stage \in {"ranking", "recent", "done"}
    THEN VectorHits(recall.request) ELSE {}

IsBest(best) ==
    /\ best \subseteq Found
    /\ Cardinality(best) = RecallLimit \/ (best = Found /\ Cardinality(best) < RecallLimit)
    /\ \A i \in best, j \in Found \ best :
            ~Before(recall.found[j], recall.found[i], recall.request)

\* A recall of a disabled group finds nothing, any other what the searches see.
QuietFinds ==
    IF recall.request.group \in Groups \ enabled
    THEN recall.stage \in {"setting", "done"} /\ answer = NoAnswer
    ELSE /\ \A i \in Ids : recall.found[i] = Gathered(i, ReadWords, ReadTexts, ReadVectors)
         /\ recall.stage \in {"recent", "done"} => IsBest(recall.best)
         /\ IF recall.stage = "done" THEN answer.ids = recall.best ELSE answer = NoAnswer

QuietInv ==
    /\ quiet \in {"yes", "textual", "no"}
    /\ quiet = "textual" => recall.stage \in {"ranking", "recent", "done"}
    /\ recall.stage = "idle" => recall = NoRecall
    /\ recall.stage # "idle" => recall.request \in Requests
    /\ recall.stage # "idle" /\ quiet # "no" => QuietFinds

\* What three searches have given one row is merged score by score.
LEMMA MergeScores ==
    ASSUME NEW row, row.status # "absent", NEW k \in Nat, NEW f \in Nat, NEW v \in Nat,
           NEW kk \in Nat, NEW ff \in Nat, NEW vv \in Nat
    PROVE  MergeOne([row |-> row, keyword |-> k, fts |-> f, vector |-> v],
                    [row |-> row, keyword |-> kk, fts |-> ff, vector |-> vv])
             = [row |-> row, keyword |-> Larger(k, kk), fts |-> Larger(f, ff),
                vector |-> Larger(v, vv)]
  BY DEF MergeOne

LEMMA MergeFirst ==
    ASSUME NEW c
    PROVE  MergeOne(NoHit, c) = c
  BY DEF MergeOne, NoHit, Absent

LEMMA HitScores ==
    ASSUME NEW row, NEW text
    PROVE  LET scores == Relevance[text][row.fact.content]
           IN  /\ Hit(row, "keyword", text)
                    = [row |-> row, keyword |-> scores.keyword, fts |-> 0, vector |-> 0]
               /\ Hit(row, "fts", text)
                    = [row |-> row, keyword |-> 0, fts |-> scores.fts, vector |-> 0]
               /\ Hit(row, "vector", text)
                    = [row |-> row, keyword |-> 0, fts |-> 0, vector |-> scores.vector]
  <1> DEFINE scores == Relevance[text][row.fact.content]
             read == [row |-> row, keyword |-> 0, fts |-> 0, vector |-> 0]
  <1>1. [NoHit EXCEPT !.row = row] = read
    BY DEF NoHit
  <1>2. ASSUME NEW search
        PROVE  Hit(row, search, text) = [read EXCEPT ![search] = scores[search]]
    <2>1. Hit(row, search, text) = [[NoHit EXCEPT !.row = row] EXCEPT ![search] = scores[search]]
      BY DEF Hit
    <2> HIDE DEF read
    <2>2. QED
      BY <1>1, <2>1
  <1>3. [read EXCEPT !["keyword"] = scores["keyword"]]
            = [row |-> row, keyword |-> scores.keyword, fts |-> 0, vector |-> 0]
    OBVIOUS
  <1>4. [read EXCEPT !["fts"] = scores["fts"]]
            = [row |-> row, keyword |-> 0, fts |-> scores.fts, vector |-> 0]
    OBVIOUS
  <1>5. [read EXCEPT !["vector"] = scores["vector"]]
            = [row |-> row, keyword |-> 0, fts |-> 0, vector |-> scores.vector]
    OBVIOUS
  <1> HIDE DEF read
  <1>6. QED
    BY <1>2, <1>3, <1>4, <1>5

\* The scores of a row that is read are numbers.
LEMMA HitsAreScored ==
    ASSUME ScoresKnown, NEW request \in Requests, NEW i \in Ids, Stored(i)
    PROVE  Relevance[request.text][items[i].fact.content]
                \in [keyword : Nat, fts : Nat, vector : Nat]
  <1>1. request.text \in DOMAIN Relevance
    BY RecallAssumption
  <1>2. Relevance[request.text][items[i].fact.content]
            \in [keyword : Percent, fts : Percent, vector : Percent]
    BY <1>1 DEF ScoresKnown, HasScores
  <1>3. Percent \subseteq Nat
    BY DEF Percent
  <1>4. QED
    BY <1>2, <1>3

\* Merging what one more search has hit.
LEMMA GatherMore ==
    ASSUME ScoresKnown, recall.request \in Requests, NEW i \in Ids,
           Stored(i), NEW K, NEW F, NEW V
    PROVE  LET text == recall.request.text
           IN  /\ i \in K => MergeOne(Gathered(i, {}, {}, {}), Hit(items[i], "keyword", text))
                                = Gathered(i, K, {}, {})
               /\ i \in F => MergeOne(Gathered(i, K, {}, {}), Hit(items[i], "fts", text))
                                = Gathered(i, K, F, {})
               /\ i \in V => MergeOne(Gathered(i, K, F, {}), Hit(items[i], "vector", text))
                                = Gathered(i, K, F, V)
  <1> DEFINE scores == Relevance[recall.request.text][items[i].fact.content]
             row == items[i]
             At(k, f, v) == [row |-> row, keyword |-> k, fts |-> f, vector |-> v]
  <1>1. scores.keyword \in Nat /\ scores.fts \in Nat /\ scores.vector \in Nat
    BY HitsAreScored
  <1>2. row.status # "absent"
    BY DEF Stored
  <1>3. ASSUME NEW k \in Nat, NEW f \in Nat, NEW v \in Nat,
               NEW kk \in Nat, NEW ff \in Nat, NEW vv \in Nat
        PROVE  MergeOne(At(k, f, v), At(kk, ff, vv))
                    = At(Larger(k, kk), Larger(f, ff), Larger(v, vv))
    BY <1>2, MergeScores
  <1>4. \A n \in Nat : Larger(n, 0) = n /\ Larger(0, n) = n
    BY DEF Larger
  <1>5. /\ Hit(row, "keyword", recall.request.text) = At(scores.keyword, 0, 0)
        /\ Hit(row, "fts", recall.request.text) = At(0, scores.fts, 0)
        /\ Hit(row, "vector", recall.request.text) = At(0, 0, scores.vector)
    BY HitScores
  <1>6. \A A, B, C : Gathered(i, A, B, C) =
            IF i \in A \cup B \cup C
            THEN At(IF i \in A THEN scores.keyword ELSE 0, IF i \in B THEN scores.fts ELSE 0,
                    IF i \in C THEN scores.vector ELSE 0)
            ELSE NoHit
    BY DEF Gathered
  <1> HIDE DEF scores, row, At
  <1>7. ASSUME i \in K
        PROVE  MergeOne(Gathered(i, {}, {}, {}), At(scores.keyword, 0, 0)) = Gathered(i, K, {}, {})
    BY <1>6, <1>7, MergeFirst
  <1>8. ASSUME i \in F
        PROVE  MergeOne(Gathered(i, K, {}, {}), At(0, scores.fts, 0)) = Gathered(i, K, F, {})
    <2>1. CASE i \in K
      <3>1. Gathered(i, K, {}, {}) = At(scores.keyword, 0, 0)
        BY <1>6, <2>1
      <3>2. Gathered(i, K, F, {}) = At(scores.keyword, scores.fts, 0)
        BY <1>6, <1>8, <2>1
      <3>3. QED
        BY <1>1, <1>3, <1>4, <3>1, <3>2
    <2>2. CASE i \notin K
      BY <1>6, <1>8, <2>2, MergeFirst
    <2>3. QED
      BY <2>1, <2>2
  <1>9. ASSUME i \in V
        PROVE  MergeOne(Gathered(i, K, F, {}), At(0, 0, scores.vector)) = Gathered(i, K, F, V)
    <2> DEFINE k == IF i \in K THEN scores.keyword ELSE 0
               f == IF i \in F THEN scores.fts ELSE 0
    <2>1. k \in Nat /\ f \in Nat
      BY <1>1
    <2>2. Gathered(i, K, F, V) = At(k, f, scores.vector)
      BY <1>6, <1>9
    <2>3. CASE i \in K \cup F
      <3>1. Gathered(i, K, F, {}) = At(k, f, 0)
        BY <1>6, <2>3
      <3> HIDE DEF k, f
      <3>2. QED
        BY <1>1, <1>3, <1>4, <2>1, <2>2, <3>1
    <2>4. CASE i \notin K \cup F
      BY <1>6, <1>9, <2>4, MergeFirst
    <2>5. QED
      BY <2>3, <2>4
  <1>10. QED
    BY <1>5, <1>7, <1>8, <1>9 DEF row

\* A step that changes no row, no vector and not the request changes no hit.
LEMMA QuietReads ==
    ASSUME UNCHANGED <<items, embedded>>, recall'.request = recall.request
    PROVE  /\ KeywordHits(recall.request)' = KeywordHits(recall.request)
           /\ FtsHits(recall.request)' = FtsHits(recall.request)
           /\ VectorHits(recall.request)' = VectorHits(recall.request)
           /\ \A i, K, F, V : Gathered(i, K, F, V)' = Gathered(i, K, F, V)
  BY DEF KeywordHits, FtsHits, VectorHits, Usable, UsableIn, Gathered

LEMMA QuietRanks ==
    ASSUME recall'.request = recall.request, recall'.found = recall.found
    PROVE  Found' = Found /\ \A S : IsBest(S)' = IsBest(S)
  BY DEF IsBest, Found

\* The request comes: nothing is found yet.
LEMMA StartIsQuiet ==
    ASSUME RecallInv, QuietInv, NEW request \in Requests, StartRecall(request),
           UNCHANGED <<vars, embedded, index>>
    PROVE  QuietInv'
  <1>1. recall = NoRecall /\ answer = NoAnswer
    BY DEF StartRecall, QuietInv, RecallInv, WindowOK
  <1>2. /\ recall'.request = request /\ recall'.found = NoRecall.found
        /\ recall'.stage = IF request.group = Nobody THEN "keyword" ELSE "setting"
        /\ answer' = NoAnswer /\ quiet' = quiet
    BY <1>1 DEF StartRecall, NoRecall
  <1>3. \A i \in Ids : recall'.found[i] = Gathered(i, {}, {}, {})'
    BY <1>2 DEF NoRecall, Gathered
  <1>4. ReadWords' = {} /\ ReadTexts' = {} /\ ReadVectors' = {}
    BY <1>2 DEF ReadWords, ReadTexts, ReadVectors
  <1>5. request.group \in Groups => recall'.stage = "setting"
    BY <1>2, RecallAssumption
  <1>6. QuietFinds'
    BY <1>2, <1>3, <1>4, <1>5 DEF QuietFinds
  <1>7. recall'.stage # "idle" /\ quiet' # "textual" /\ quiet' \in {"yes", "textual", "no"}
    BY <1>1, <1>2 DEF QuietInv, NoRecall
  <1>8. QED
    BY <1>2, <1>6, <1>7 DEF QuietInv

\* One more search is done.
LEMMA SearchIsQuiet ==
    ASSUME ScoresKnown, RecallInv, QuietInv, UNCHANGED <<vars, embedded, index>>,
           \/ ReadKeyword \/ ReadFts
           \/ Search("vector", VectorHits(recall.request), "ranking")
    PROVE  QuietInv'
  <1> DEFINE K == KeywordHits(recall.request)
             F == FtsHits(recall.request)
             V == VectorHits(recall.request)
             text == recall.request.text
  <1>1. /\ recall'.request = recall.request /\ answer' = answer /\ quiet' = quiet
        /\ recall'.stage \in {"fts", "vector", "ranking"}
        /\ recall.stage \in {"keyword", "fts", "vector"}
    BY DEF ReadKeyword, ReadFts, Search, RecallInv, RecallShape
  <1>2. /\ KeywordHits(recall.request)' = K /\ FtsHits(recall.request)' = F
        /\ VectorHits(recall.request)' = V
        /\ \A i, A, B, C : Gathered(i, A, B, C)' = Gathered(i, A, B, C)
    BY <1>1, QuietReads DEF vars
  <1>3. quiet' # "textual" /\ quiet' \in {"yes", "textual", "no"}
    BY <1>1 DEF QuietInv
  <1>4. ASSUME quiet = "yes"
        PROVE  QuietFinds'
    <2>1. /\ recall.request.group \notin Groups \ enabled /\ answer = NoAnswer
          /\ recall.request \in Requests
          /\ \A i \in Ids : recall.found[i] = Gathered(i, ReadWords, ReadTexts, ReadVectors)
      BY <1>1, <1>4 DEF QuietInv, QuietFinds
    <2>2. recall'.request.group \notin (Groups \ enabled)'
      BY <1>1, <2>1 DEF vars
    <2>3. \A i \in K \cup F \cup V : Stored(i) /\ i \in Ids
      BY HitsAreUsable, UsableIsJustified DEF Stored
    <2>4. ASSUME NEW i \in Ids
          PROVE  recall'.found[i] = Gathered(i, ReadWords', ReadTexts', ReadVectors')
      <3>1. CASE ReadKeyword
        <4>1. recall.stage = "keyword" /\ recall'.stage = "fts"
          BY <3>1 DEF ReadKeyword, Search, RecallInv, RecallShape
        <4>2. recall.found[i] = Gathered(i, {}, {}, {})
          BY <2>1, <4>1 DEF ReadWords, ReadTexts, ReadVectors
        <4>3. recall'.found[i] = IF i \in K THEN MergeOne(recall.found[i], Hit(items[i], "keyword", text))
                                 ELSE recall.found[i]
          BY <3>1 DEF ReadKeyword, Search, RecallInv, RecallShape
        <4>4. ReadWords' = K /\ ReadTexts' = {} /\ ReadVectors' = {}
          BY <1>2, <4>1 DEF ReadWords, ReadTexts, ReadVectors
        <4>5. i \notin K => Gathered(i, {}, {}, {}) = Gathered(i, K, {}, {})
          BY DEF Gathered
        <4> HIDE DEF K, F, V
        <4>6. i \in K => MergeOne(Gathered(i, {}, {}, {}), Hit(items[i], "keyword", text)) = Gathered(i, K, {}, {})
          BY <2>1, <2>3, GatherMore
        <4>7. QED
          BY <4>2, <4>3, <4>4, <4>5, <4>6
      <3>2. CASE ReadFts
        <4>1. recall.stage = "fts" /\ recall'.stage = "vector"
          BY <3>2 DEF ReadFts, Search, RecallInv, RecallShape
        <4>2. recall.found[i] = Gathered(i, K, {}, {})
          BY <2>1, <4>1 DEF ReadWords, ReadTexts, ReadVectors
        <4>3. recall'.found[i] = IF i \in F THEN MergeOne(recall.found[i], Hit(items[i], "fts", text))
                                 ELSE recall.found[i]
          BY <3>2 DEF ReadFts, Search, RecallInv, RecallShape
        <4>4. ReadWords' = K /\ ReadTexts' = F /\ ReadVectors' = {}
          BY <1>2, <4>1 DEF ReadWords, ReadTexts, ReadVectors
        <4>5. i \notin F => Gathered(i, K, {}, {}) = Gathered(i, K, F, {})
          BY DEF Gathered
        <4> HIDE DEF K, F, V
        <4>6. i \in F => MergeOne(Gathered(i, K, {}, {}), Hit(items[i], "fts", text)) = Gathered(i, K, F, {})
          BY <2>1, <2>3, GatherMore
        <4>7. QED
          BY <4>2, <4>3, <4>4, <4>5, <4>6
      <3>3. CASE Search("vector", VectorHits(recall.request), "ranking")
        <4>1. recall.stage = "vector" /\ recall'.stage = "ranking"
          BY <3>3 DEF Search, RecallInv, RecallShape
        <4>2. recall.found[i] = Gathered(i, K, F, {})
          BY <2>1, <4>1 DEF ReadWords, ReadTexts, ReadVectors
        <4>3. recall'.found[i] = IF i \in V THEN MergeOne(recall.found[i], Hit(items[i], "vector", text))
                                 ELSE recall.found[i]
          BY <3>3 DEF Search, RecallInv, RecallShape
        <4>4. ReadWords' = K /\ ReadTexts' = F /\ ReadVectors' = V
          BY <1>1, <1>2, <1>4, <4>1 DEF ReadWords, ReadTexts, ReadVectors
        <4>5. i \notin V => Gathered(i, K, F, {}) = Gathered(i, K, F, V)
          BY DEF Gathered
        <4> HIDE DEF K, F, V
        <4>6. i \in V => MergeOne(Gathered(i, K, F, {}), Hit(items[i], "vector", text)) = Gathered(i, K, F, V)
          BY <2>1, <2>3, GatherMore
        <4>7. QED
          BY <4>2, <4>3, <4>4, <4>5, <4>6
      <3>4. QED
        BY <3>1, <3>2, <3>3
    <2>5. \A i \in Ids : recall'.found[i] = Gathered(i, ReadWords, ReadTexts, ReadVectors)'
      BY <1>2, <2>4
    <2>6. QED
      BY <1>1, <2>1, <2>2, <2>5 DEF QuietFinds
  <1>5. quiet' # "no" => quiet = "yes"
    BY <1>1, <1>3
  <1>6. recall.request \in Requests
    BY <1>1 DEF QuietInv
  <1>7. recall'.stage # "idle"
    BY <1>1
  <1> HIDE DEF K, F, V, text
  <1>8. QED
    BY <1>1, <1>3, <1>4, <1>5, <1>6, <1>7 DEF QuietInv

\* The other steps of a recall gather nothing more.
LEMMA MoveIsQuiet ==
    ASSUME RecallInv, QuietInv, UNCHANGED <<vars, embedded, index>>,
           CheckGroup \/ VectorSkipped \/ Rank \/ ReadRecent
    PROVE  QuietInv'
  <1>1. /\ recall'.request = recall.request /\ recall'.found = recall.found
        /\ recall.stage \in {"setting", "vector", "ranking", "recent"}
        /\ recall'.stage \in {"keyword", "ranking", "recent", "done"}
    BY DEF CheckGroup, VectorSkipped, Rank, ReadRecent, RecallInv, RecallShape
  <1>2. /\ KeywordHits(recall.request)' = KeywordHits(recall.request)
        /\ FtsHits(recall.request)' = FtsHits(recall.request)
        /\ VectorHits(recall.request)' = VectorHits(recall.request)
        /\ \A i, A, B, C : Gathered(i, A, B, C)' = Gathered(i, A, B, C)
    BY <1>1, QuietReads DEF vars
  <1>3. Found' = Found /\ \A S : IsBest(S)' = IsBest(S)
    BY <1>1, QuietRanks
  <1>4. /\ quiet' \in {"yes", "textual", "no"}
        /\ quiet' = "textual" => recall'.stage \in {"ranking", "recent", "done"}
        /\ quiet' # "no" => quiet # "no"
    BY <1>1 DEF QuietInv, CheckGroup, VectorSkipped, Rank, ReadRecent, RecallInv, RecallShape
  <1>5. recall.request \in Requests /\ (quiet # "no" => QuietFinds)
    BY <1>1 DEF QuietInv
  <1>6. ASSUME quiet # "no"
        PROVE  QuietFinds'
    <2> DEFINE off == recall.request.group \in Groups \ enabled
    <2>1. (recall.request.group \in Groups \ enabled)' = off
      BY <1>1 DEF vars
    <2>2. CASE off
      <3>1. recall.stage = "setting" /\ answer = NoAnswer
        BY <1>1, <1>5, <1>6, <2>2 DEF QuietFinds
      <3>2. recall'.stage = "done" /\ answer' = answer
        BY <2>2, <3>1 DEF CheckGroup, VectorSkipped, Rank, ReadRecent, RecallInv, RecallShape
      <3>3. QED
        BY <1>1, <2>1, <2>2, <3>1, <3>2 DEF QuietFinds
    <2>3. CASE ~off
      <3>1. /\ answer = NoAnswer
            /\ \A i \in Ids : recall.found[i] = Gathered(i, ReadWords, ReadTexts, ReadVectors)
            /\ recall.stage = "recent" => IsBest(recall.best)
        BY <1>1, <1>5, <1>6, <2>3 DEF QuietFinds
      <3>2. ReadWords' = ReadWords /\ ReadTexts' = ReadTexts /\ ReadVectors' = ReadVectors
        <4>1. CASE CheckGroup
          <5>1. recall.stage = "setting" /\ recall'.stage = "keyword"
            BY <2>3, <4>1 DEF CheckGroup, RecallInv, RecallShape
          <5>2. QED
            BY <5>1 DEF ReadWords, ReadTexts, ReadVectors
        <4>2. CASE VectorSkipped
          <5>1. recall.stage = "vector" /\ recall'.stage = "ranking" /\ quiet' # "yes"
            BY <4>2 DEF VectorSkipped, RecallInv, RecallShape
          <5>2. QED
            BY <1>2, <5>1 DEF ReadWords, ReadTexts, ReadVectors
        <4>3. CASE Rank \/ ReadRecent
          <5>1. /\ recall.stage \in {"ranking", "recent"} /\ recall'.stage \in {"recent", "done"}
                /\ quiet' = quiet
            BY <4>3 DEF Rank, ReadRecent, RecallInv, RecallShape
          <5>2. QED
            BY <1>2, <5>1 DEF ReadWords, ReadTexts, ReadVectors
        <4>4. QED
          BY <4>1, <4>2, <4>3
      <3>3. \A i \in Ids : recall'.found[i] = Gathered(i, ReadWords, ReadTexts, ReadVectors)'
        BY <1>1, <1>2, <3>1, <3>2
      <3>4. recall'.stage \in {"recent", "done"} => IsBest(recall.best)'
        <4>1. CASE CheckGroup \/ VectorSkipped
          BY <2>3, <4>1 DEF CheckGroup, VectorSkipped, RecallInv, RecallShape
        <4>2. CASE Rank
          <5>1. PICK S \in SUBSET Found :
                  /\ Cardinality(S) = RecallLimit \/ (S = Found /\ Cardinality(S) < RecallLimit)
                  /\ \A i \in S, j \in Found \ S :
                        ~Before(recall.found[j], recall.found[i], recall.request)
                  /\ recall' = [recall EXCEPT !.stage = "recent", !.best = S]
            BY <4>2 DEF Rank
          <5>2. IsBest(S)
            BY <5>1 DEF IsBest
          <5>3. recall'.best = S
            BY <5>1 DEF RecallInv, RecallShape
          <5>4. QED
            BY <1>3, <5>2, <5>3
        <4>3. CASE ReadRecent
          <5>1. recall.stage = "recent" /\ recall'.best = recall.best
            BY <4>3 DEF ReadRecent, RecallInv, RecallShape
          <5>2. QED
            BY <1>3, <3>1, <5>1
        <4>4. QED
          BY <4>1, <4>2, <4>3
      <3>5. IF recall'.stage = "done" THEN answer'.ids = recall'.best ELSE answer' = NoAnswer
        <4>1. CASE CheckGroup \/ VectorSkipped \/ Rank
          <5>1. recall'.stage # "done" /\ answer' = answer
            BY <2>3, <4>1 DEF CheckGroup, VectorSkipped, Rank, RecallInv, RecallShape
          <5>2. QED
            BY <3>1, <5>1
        <4>2. CASE ReadRecent
          BY <4>2 DEF ReadRecent, RecallInv, RecallShape
        <4>3. QED
          BY <4>1, <4>2
      <3>6. QED
        BY <2>1, <2>3, <3>3, <3>4, <3>5 DEF QuietFinds
    <2>4. QED
      BY <2>2, <2>3
  <1>7. recall'.stage # "idle"
    BY <1>1
  <1>8. QED
    BY <1>1, <1>4, <1>5, <1>6, <1>7 DEF QuietInv

\* What others do either changes nothing the recall has read or ends the quiet.
LEMMA OthersAreQuiet ==
    ASSUME QuietInv, UNCHANGED <<recall, answer>>,
           \/ quiet' = "no"
           \/ quiet' = quiet
              /\ (recall.stage = "idle" \/ UNCHANGED <<items, embedded, enabled, said>>)
    PROVE  QuietInv'
  <1>1. ASSUME recall.stage # "idle", quiet' # "no"
        PROVE  QuietFinds'
    <2>1. QuietFinds /\ quiet' = quiet /\ UNCHANGED <<items, embedded, enabled>>
      BY <1>1 DEF QuietInv
    <2>2. /\ KeywordHits(recall.request)' = KeywordHits(recall.request)
          /\ FtsHits(recall.request)' = FtsHits(recall.request)
          /\ VectorHits(recall.request)' = VectorHits(recall.request)
          /\ \A i, A, B, C : Gathered(i, A, B, C)' = Gathered(i, A, B, C)
      BY <2>1, QuietReads
    <2>3. \A S : IsBest(S)' = IsBest(S)
      BY QuietRanks
    <2>4. ReadWords' = ReadWords /\ ReadTexts' = ReadTexts /\ ReadVectors' = ReadVectors
      BY <2>1, <2>2 DEF ReadWords, ReadTexts, ReadVectors
    <2>5. QED
      BY <2>1, <2>2, <2>3, <2>4 DEF QuietFinds
  <1>2. /\ recall'.stage = recall.stage /\ recall'.request = recall.request
        /\ quiet' = "no" \/ quiet' = quiet
    OBVIOUS
  <1>3. QED
    BY <1>1, <1>2 DEF QuietInv

LEMMA QuietStep ==
    ASSUME ScoresKnown, RecallInv, QuietInv, [RecallNext]_allVars
    PROVE  QuietInv'
  <1>1. CASE UNCHANGED allVars
    <2>1. UNCHANGED <<recall, answer, quiet, items, embedded, enabled, said>>
      BY <1>1 DEF allVars, recallVars, vars, restVars
    <2>2. QED
      BY <2>1, OthersAreQuiet
  <1>2. CASE Recalling
    <2>1. UNCHANGED <<vars, embedded, index>> /\ RecallStep
      BY <1>2 DEF Recalling
    <2>2. QED
      BY <2>1, SearchIsQuiet, MoveIsQuiet DEF RecallStep, ReadVector
  <1>3. ASSUME NEW change, Meanwhile(change)
        PROVE  QuietInv'
    BY <1>3, OthersAreQuiet DEF Meanwhile
  <1>4. CASE RecallFails
    <2>1. /\ quiet' = "no" /\ recall'.stage = "done" /\ recall'.request = recall.request
          /\ recall.stage # "idle"
      BY <1>4 DEF RecallFails, RecallInv, RecallShape
    <2>2. QED
      BY <2>1 DEF QuietInv
  <1>5. ASSUME NEW request \in Requests, StartRecall(request), UNCHANGED <<vars, embedded, index>>
        PROVE  QuietInv'
    BY <1>5, StartIsQuiet
  <1>6. QED
    BY <1>1, <1>2, <1>3, <1>4, <1>5 DEF RecallNext, Indexing

\* When all searches are done, the candidates are the rows that match, each as
\* one look at the table would score it.
LEMMA QuietIsWhole ==
    ASSUME ScoresKnown, RecallInv, QuietInv, recall.stage = "done", quiet # "no",
           recall.request.group \notin Groups \ enabled
    PROVE  LET request == recall.request
               vectors == IF quiet = "yes" THEN VectorHits(request) ELSE {}
           IN  /\ Found = KeywordHits(request) \cup FtsHits(request) \cup vectors
               /\ \A i \in Found : recall.found[i] = Whole(i, request, vectors)
  <1> DEFINE K == KeywordHits(recall.request)
             F == FtsHits(recall.request)
             V == IF quiet = "yes" THEN VectorHits(recall.request) ELSE {}
  <1>1. /\ recall.request \in Requests
        /\ \A i \in Ids : recall.found[i] = Gathered(i, K, F, V)
    BY DEF QuietInv, QuietFinds, ReadWords, ReadTexts, ReadVectors
  <1>2. \A i \in K \cup F \cup V : i \in Usable(recall.request)
    BY DEF KeywordHits, FtsHits, VectorHits
  <1>3. \A i \in K \cup F \cup V : i \in Ids /\ items[i].status # "absent"
    BY <1>2, UsableIsJustified DEF Usable
  <1>4. \A i \in Ids : i \in Found <=> i \in K \cup F \cup V
    <2>1. NoHit.row.status = "absent"
      BY DEF NoHit, Absent
    <2> HIDE DEF K, F, V
    <2>2. ASSUME NEW i \in Ids
          PROVE  recall.found[i].row = IF i \in K \cup F \cup V THEN items[i] ELSE NoHit.row
      <3>1. CASE i \in K \cup F \cup V
        <4>1. Gathered(i, K, F, V).row = items[i]
          BY <3>1 DEF Gathered
        <4>2. QED
          BY <1>1, <3>1, <4>1
      <3>2. CASE i \notin K \cup F \cup V
        <4>1. Gathered(i, K, F, V) = NoHit
          BY <3>2 DEF Gathered
        <4>2. QED
          BY <1>1, <3>2, <4>1
      <3>3. QED
        BY <3>1, <3>2
    <2>3. QED
      BY <1>3, <2>1, <2>2 DEF Found
  <1>5. Found = K \cup F \cup V
    <2>1. Found \subseteq Ids
      BY DEF Found
    <2> HIDE DEF K, F, V
    <2>2. QED
      BY <1>3, <1>4, <2>1
  <1>6. ASSUME NEW i \in Found
        PROVE  recall.found[i] = Whole(i, recall.request, V)
    <2> DEFINE hit == Relevance[recall.request.text][items[i].fact.content]
    <2>1. i \in Ids /\ i \in K \cup F \cup V /\ i \in Usable(recall.request)
      BY <1>2, <1>5, <1>6 DEF Found
    <2>2. hit.keyword \in Nat /\ hit.fts \in Nat
      BY <1>1, <1>3, <2>1, HitsAreScored DEF Stored
    <2>3. i \notin K => hit.keyword = 0
      <3>1. i \in Usable(recall.request) /\ hit.keyword > 0 => i \in K
        BY DEF KeywordHits
      <3> HIDE DEF hit, K
      <3>2. QED
        BY <2>1, <2>2, <3>1
    <2>4. i \notin F => hit.fts = 0
      <3>1. i \in Usable(recall.request) /\ hit.fts > 0 => i \in F
        BY DEF FtsHits
      <3> HIDE DEF hit, F
      <3>2. QED
        BY <2>1, <2>2, <3>1
    <2>5. recall.found[i] = [row |-> items[i], keyword |-> IF i \in K THEN hit.keyword ELSE 0,
                             fts |-> IF i \in F THEN hit.fts ELSE 0,
                             vector |-> IF i \in V THEN hit.vector ELSE 0]
      BY <1>1, <2>1 DEF Gathered
    <2> HIDE DEF K, F, V
    <2>6. QED
      BY <2>3, <2>4, <2>5 DEF Whole
  <1>7. QED
    BY <1>5, <1>6

\* When nothing has changed since the request came, the three reads and the
\* merge rank like one look at the table, and a vector search that fails costs
\* its own candidates only (recall_context, docs/api/memory-api.md).
THEOREM QuietRecallsAreBest == RecallSpec => []QuietRecallIsBest
  <1>1. RecallInit => RecallInv /\ ScoresKnown /\ QuietInv
    BY RecallInitialInv, ScoresKnownAtFirst DEF RecallInit, QuietInv, NoRecall
  <1>2. RecallInv /\ ScoresKnown /\ QuietInv /\ [RecallNext]_allVars
            => RecallInv' /\ ScoresKnown' /\ QuietInv'
    BY RecallInvStep, QuietStep, RecallOnlyReads, ScoresStayKnown DEF RecallInv
  <1>3. RecallInv /\ ScoresKnown /\ QuietInv => QuietRecallIsBest
    <2> SUFFICES ASSUME RecallInv, ScoresKnown, QuietInv, recall.stage = "done", quiet # "no"
                 PROVE  QuietRecallIsBest
      BY DEF QuietRecallIsBest
    <2>1. QuietFinds
      BY DEF QuietInv
    <2>2. CASE recall.request.group \in Groups \ enabled
      BY <2>1, <2>2 DEF QuietFinds, QuietRecallIsBest
    <2>3. CASE recall.request.group \notin Groups \ enabled
      <3> DEFINE vectors == IF quiet = "yes" THEN VectorHits(recall.request) ELSE {}
                 matches == KeywordHits(recall.request) \cup FtsHits(recall.request) \cup vectors
      <3>1. answer.ids = recall.best /\ IsBest(recall.best)
        BY <2>1, <2>3 DEF QuietFinds
      <3>2. Found = matches /\ \A i \in Found : recall.found[i] = Whole(i, recall.request, vectors)
        BY <2>3, QuietIsWhole
      <3>3. \A i \in answer.ids, j \in matches \ answer.ids :
                ~Before(Whole(j, recall.request, vectors), Whole(i, recall.request, vectors),
                        recall.request)
        <4> HIDE DEF matches, vectors
        <4>1. QED
          BY <3>1, <3>2 DEF IsBest
      <3>4. /\ answer.ids \subseteq matches
            /\ Cardinality(answer.ids) = RecallLimit
                  \/ (answer.ids = matches /\ Cardinality(matches) < RecallLimit)
        <4> HIDE DEF matches, vectors
        <4>1. QED
          BY <3>1, <3>2 DEF IsBest
      <3>5. QED
        BY <2>3, <3>3, <3>4 DEF QuietRecallIsBest
    <2>4. QED
      BY <2>2, <2>3
  <1>4. QED
    BY <1>1, <1>2, <1>3, PTL DEF RecallSpec

=============================================================================
