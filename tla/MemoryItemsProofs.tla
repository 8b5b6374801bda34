--------------------------- MODULE MemoryItemsProofs ---------------------------
(***************************************************************************)
(* Lemmas about the rows of memory_items: what the rules and the           *)
(* statements of PostgresMemoryStore make of any row.                      *)
(***************************************************************************)
EXTENDS MemoryItems, TLAPS, FiniteSetTheorems

-----------------------------------------------------------------------------
(* Columns. *)

\* The columns of a row have the types of the table.
LEMMA RowColumns ==
    ASSUME NEW row \in Row
    PROVE  /\ row.status \in RowStatuses /\ row.lifecycle \in Lifecycles
           /\ row.fact \in Fact \cup {NoFact} /\ row.evidence \in SUBSET Messages
           /\ row.confidence \in Percent /\ row.importance \in Percent
           /\ row.stability \in Percent /\ row.contradictions \in Nat /\ row.age \in Nat
           /\ row.decay \in Fraction /\ row.quality \in Fraction
  BY DEF Row

\* Percentages are numbers.
LEMMA PercentIsInt == ASSUME NEW x \in Percent PROVE x \in Int
  BY DEF Percent

\* Scores are numbers.
LEMMA FractionIsInt == ASSUME NEW x \in Fraction PROVE x \in Int
  BY DEF Fraction

\* The numbers in a row.
LEMMA RowNumbers ==
    ASSUME NEW row \in Row
    PROVE  /\ row.confidence \in Int /\ row.importance \in Int /\ row.stability \in Int
           /\ row.decay \in Int /\ row.contradictions \in Int
  <1>1. /\ row.confidence \in Percent /\ row.importance \in Percent
        /\ row.stability \in Percent /\ row.decay \in Fraction /\ row.contradictions \in Nat
    BY RowColumns
  <1>2. QED
    BY <1>1, PercentIsInt, FractionIsInt

\* The evidence of a row is a finite set of messages.
LEMMA EvidenceIsFinite ==
    ASSUME NEW S \in SUBSET Messages
    PROVE  IsFiniteSet(S) /\ Cardinality(S) \in Nat
  BY MemoryAssumption, FS_Subset, FS_CardinalityType

-----------------------------------------------------------------------------
(* Scores. *)

\* Rounding a share of a half-life to four decimals keeps it between 0 and 1.
LEMMA RoundedShare ==
    ASSUME NEW h \in {30, 120, 180, 365, 730}, NEW left \in 0..h
    PROVE  Rounded(left, h) \in Fraction
  <1>1. h = 30 => Rounded(left, h) \in Fraction
    BY DEF Rounded, Fraction
  <1>2. h = 120 => Rounded(left, h) \in Fraction
    BY DEF Rounded, Fraction
  <1>3. h = 180 => Rounded(left, h) \in Fraction
    BY DEF Rounded, Fraction
  <1>4. h = 365 => Rounded(left, h) \in Fraction
    BY DEF Rounded, Fraction
  <1>5. h = 730 => Rounded(left, h) \in Fraction
    BY DEF Rounded, Fraction
  <1>6. QED
    BY <1>1, <1>2, <1>3, <1>4, <1>5

\* The decay of a row of any class and age is a number of ten-thousandths.
LEMMA DecayScoreType ==
    ASSUME NEW class \in Classes, NEW age \in Nat
    PROVE  DecayScore(class, age) \in Fraction
  <1> DEFINE h == HalfLife[class]
             left == Bounded(h - age, h)
  <1>1. h \in {30, 120, 180, 365, 730}
    BY DEF Classes, HalfLife
  <1>2. DecayScore(class, age) = Rounded(left, h)
    BY DEF DecayScore
  <1>3. left \in 0..h
    <2> HIDE DEF h
    <2>1. QED
      BY <1>1 DEF Bounded
  <1> HIDE DEF h, left
  <1>4. Rounded(left, h) \in Fraction
    BY <1>1, <1>3, RoundedShare
  <1>5. QED
    BY <1>2, <1>4

\* The quality of a row is a number of ten-thousandths.
LEMMA QualityType ==
    ASSUME NEW row \in Row
    PROVE  Quality(row) \in Fraction
  <1> DEFINE sources == Bounded(Cardinality(row.evidence), 5)
             doubts == Bounded(row.contradictions, 3)
             sum == 35 * row.confidence + 25 * row.importance + 15 * row.stability
                        + 300 * sources + (row.decay + 5) \div 10 - 1000 * doubts
  <1>1. Cardinality(row.evidence) \in Int
    BY RowColumns, EvidenceIsFinite
  <1>2. sources \in Int
    BY <1>1 DEF Bounded
  <1>3. doubts \in Int
    BY RowNumbers DEF Bounded
  <1>4. sum \in Int
    <2> HIDE DEF sources, doubts
    <2>1. (row.decay + 5) \div 10 \in Int
      BY RowNumbers
    <2>2. QED
      BY <1>2, <1>3, <2>1, RowNumbers
  <1>5. Quality(row) = Bounded(sum, 10000)
    BY DEF Quality
  <1> HIDE DEF sum
  <1>6. Bounded(sum, 10000) \in 0..10000
    BY <1>4 DEF Bounded
  <1>7. QED
    BY <1>5, <1>6 DEF Fraction

\* Scoring a row changes its quality and nothing else.
LEMMA ScoredRow ==
    ASSUME NEW row \in Row
    PROVE  /\ Scored(row) \in Row
           /\ Scored(row).status = row.status /\ Scored(row).lifecycle = row.lifecycle
           /\ Scored(row).fact = row.fact /\ Scored(row).evidence = row.evidence
           /\ Scored(row).confidence = row.confidence /\ Scored(row).importance = row.importance
           /\ Scored(row).contradictions = row.contradictions
           /\ Scored(row).decay = row.decay
  <1>1. Quality(row) \in Fraction
    BY QualityType
  <1>2. QED
    BY <1>1 DEF Scored, Row

-----------------------------------------------------------------------------
(* What the statements write. *)

\* The class of a fact, also of a row that holds none.
LEMMA ClassOfFact ==
    ASSUME NEW fact \in Fact \cup {NoFact}
    PROVE  fact.class \in Classes
  <1>1. CASE fact \in Fact
    BY <1>1 DEF Fact
  <1>2. CASE fact = NoFact
    BY <1>2 DEF NoFact, Classes, HalfLife
  <1>3. QED
    BY <1>1, <1>2

\* What a decay sweep makes of a row it has read: it retires the row, marks it
\* stale or leaves its lifecycle.
LEMMA DecayedRow ==
    ASSUME NEW row \in Row, NEW days \in Nat
    PROVE  LET new == Decayed(row, days)
           IN  /\ new \in Row
               /\ \/ new.status = "archived" /\ new.lifecycle = "archived"
                  \/ new.status = row.status /\ new.lifecycle = "stale"
                  \/ new.status = row.status /\ new.lifecycle = row.lifecycle
  <1> DEFINE decay == DecayScore(row.fact.class, row.age + days)
             aged == [row EXCEPT !.decay = decay]
             retired == [aged EXCEPT !.status = "archived", !.lifecycle = "archived"]
             stale == [aged EXCEPT !.lifecycle = "stale"]
  <1>1. row.age + days \in Nat
    BY RowColumns
  <1>2. decay \in Fraction
    BY <1>1, RowColumns, ClassOfFact, DecayScoreType
  <1>3. Decayed(row, days) \in {Scored(retired), Scored(stale), Scored(aged)}
    BY DEF Decayed
  <1>4. /\ {"archived", "stale"} \subseteq Lifecycles
        /\ "archived" \in RowStatuses
    BY DEF Lifecycles, RowStatuses
  <1> HIDE DEF decay
  <1>5. aged \in Row /\ aged.status = row.status /\ aged.lifecycle = row.lifecycle
    BY <1>2 DEF Row
  <1> HIDE DEF aged
  <1>6. retired \in Row /\ retired.status = "archived" /\ retired.lifecycle = "archived"
    BY <1>4, <1>5 DEF Row
  <1>7. stale \in Row /\ stale.status = row.status /\ stale.lifecycle = "stale"
    BY <1>4, <1>5 DEF Row
  <1> HIDE DEF retired, stale
  <1>8. QED
    BY <1>3, <1>5, <1>6, <1>7, ScoredRow

\* A new memory is weak, or confirmed by what its evidence is worth.
LEMMA InitialOutcome ==
    ASSUME NEW type, NEW confidence, NEW importance, NEW sources
    PROVE  LET new == InitialLifecycle(type, confidence, importance, sources)
           IN  /\ new \in {"weak", "confirmed"}
               /\ new = "confirmed" =>
                    \/ type = "warning" /\ confidence >= 70
                    \/ confidence >= 78 /\ importance >= 55 /\ sources >= 2
  BY DEF InitialLifecycle

\* Evidence moves a row to a recallable lifecycle only when it is worth it, and
\* never out of a contradiction.
LEMMA ReinforcedOutcome ==
    ASSUME NEW old \in Lifecycles, NEW type, NEW confidence, NEW importance,
           NEW sources \in Int, NEW stability \in Int
    PROVE  LET new == ReinforcedLifecycle(old, type, confidence, importance, sources, stability)
           IN  /\ new \in Lifecycles
               /\ new = "archived" => old = "archived"
               /\ new = "contradicted" <=> old = "contradicted"
               /\ new \in RecallLifecycles =>
                    \/ old \in RecallLifecycles
                    \/ InitialLifecycle(type, confidence, importance, sources) = "confirmed"
  <1> DEFINE first == InitialLifecycle(type, confidence, importance, sources)
             new == ReinforcedLifecycle(old, type, confidence, importance, sources, stability)
             earned == IF old = "confirmed" THEN old ELSE first
  <1>1. first \in {"weak", "confirmed"}
    BY InitialOutcome
  <1>2. earned \in {"weak", "confirmed"}
    BY <1>1
  <1>3. \/ old \in {"contradicted", "reinforced", "archived"} /\ new = old
        \/ /\ old \notin {"contradicted", "reinforced", "archived"}
           /\ new = "reinforced" /\ earned = "confirmed"
        \/ old \notin {"contradicted", "reinforced", "archived"} /\ new = earned
    BY DEF ReinforcedLifecycle
  <1>4. QED
    BY <1>1, <1>2, <1>3 DEF Lifecycles, RecallLifecycles

\* A sum or a maximum of percentages, cut off at the top, is one again.
LEMMA MergedPercents ==
    ASSUME NEW x \in Percent, NEW y \in Percent, NEW n \in {3, 5}
    PROVE  Larger(x, y) \in Percent /\ Bounded(x + n, 100) \in Percent
  <1>1. Larger(x, y) \in Percent
    BY DEF Larger
  <1>2. Bounded(x + n, 100) \in Percent
    BY DEF Bounded, Percent
  <1>3. QED
    BY <1>1, <1>2

\* The row an update writes: it keeps its fact, joins the evidence and is moved
\* to a recallable lifecycle only when that is worth it.
LEMMA ReinforcedRow ==
    ASSUME NEW seen \in Row, NEW c \in Candidate, seen.lifecycle # "archived"
    PROVE  LET new == Reinforced(seen, c)
           IN  /\ new \in Row /\ new.status = seen.status /\ new.fact = seen.fact
               /\ new.evidence = seen.evidence \cup c.evidence
               /\ new.contradictions = seen.contradictions
               /\ new.lifecycle # "archived"
               /\ new.lifecycle = "contradicted" <=> seen.lifecycle = "contradicted"
               /\ new.lifecycle \in RecallLifecycles =>
                    \/ seen.lifecycle \in RecallLifecycles
                    \/ c.fact.type = "warning" /\ new.confidence >= 70
                    \/ /\ new.confidence >= 78 /\ new.importance >= 55
                       /\ Cardinality(new.evidence) >= 2
  <1> DEFINE evidence == seen.evidence \cup c.evidence
             fresh == evidence # seen.evidence
             best == Larger(seen.confidence, c.confidence)
             confidence == IF fresh THEN Bounded(best + 3, 100) ELSE best
             stability == IF fresh THEN Bounded(seen.stability + 5, 100) ELSE seen.stability
             importance == Larger(seen.importance, c.importance)
             sources == Cardinality(evidence)
             lifecycle == ReinforcedLifecycle(seen.lifecycle, c.fact.type, confidence,
                                              importance, sources, stability)
             fullscore == 10000
             today == 0
             row == [seen EXCEPT
                        !.evidence = evidence, !.confidence = confidence,
                        !.importance = importance, !.stability = stability,
                        !.decay = fullscore, !.age = today, !.lifecycle = lifecycle]
  <1>1. /\ seen.evidence \in SUBSET Messages /\ seen.lifecycle \in Lifecycles
        /\ seen.confidence \in Percent /\ seen.stability \in Percent /\ seen.importance \in Percent
    BY RowColumns
  <1>2. /\ c.evidence \in SUBSET Messages /\ c.confidence \in Percent /\ c.importance \in Percent
    BY DEF Candidate
  <1>3. evidence \in SUBSET Messages
    BY <1>1, <1>2
  <1>4. best \in Percent /\ importance \in Percent
    BY <1>1, <1>2, MergedPercents
  <1>5. confidence \in Percent
    <2> HIDE DEF best
    <2>1. QED
      BY <1>4, MergedPercents
  <1>6. stability \in Percent
    BY <1>1, MergedPercents
  <1>7. Reinforced(seen, c) = Scored(row)
    BY DEF Reinforced
  <1>8. sources \in Int /\ stability \in Int
    BY <1>3, <1>6, EvidenceIsFinite, PercentIsInt
  <1> HIDE DEF evidence, confidence, stability, importance, sources
  <1>9. /\ lifecycle \in Lifecycles /\ lifecycle # "archived"
        /\ lifecycle = "contradicted" <=> seen.lifecycle = "contradicted"
        /\ lifecycle \in RecallLifecycles =>
                \/ seen.lifecycle \in RecallLifecycles
                \/ InitialLifecycle(c.fact.type, confidence, importance, sources) = "confirmed"
    BY <1>1, <1>8, ReinforcedOutcome
  <1> HIDE DEF lifecycle
  <1>10. fullscore \in Fraction /\ today \in Nat
    BY DEF Fraction
  <1> HIDE DEF fullscore, today
  <1>11. /\ row \in Row /\ row.status = seen.status /\ row.fact = seen.fact
         /\ row.evidence = evidence /\ row.contradictions = seen.contradictions
         /\ row.lifecycle = lifecycle /\ row.confidence = confidence
         /\ row.importance = importance
    BY <1>3, <1>4, <1>5, <1>6, <1>9, <1>10 DEF Row
  <1> HIDE DEF row
  <1>12. /\ Scored(row) \in Row /\ Scored(row).status = seen.status
         /\ Scored(row).fact = seen.fact /\ Scored(row).evidence = evidence
         /\ Scored(row).contradictions = seen.contradictions
         /\ Scored(row).lifecycle = lifecycle /\ Scored(row).confidence = confidence
         /\ Scored(row).importance = importance
    BY <1>11, ScoredRow
  <1>13. lifecycle \in RecallLifecycles =>
            \/ seen.lifecycle \in RecallLifecycles
            \/ c.fact.type = "warning" /\ confidence >= 70
            \/ confidence >= 78 /\ importance >= 55 /\ sources >= 2
    BY <1>9, InitialOutcome
  <1>14. QED
    BY <1>7, <1>9, <1>12, <1>13 DEF evidence, sources

\* The row an insert writes is active, and confirmed only when it is worth it.
LEMMA InsertedRow ==
    ASSUME NEW c \in Candidate
    PROVE  LET new == NewRow(c)
           IN  /\ new \in Row /\ new.status = "active" /\ new.fact = c.fact
               /\ new.evidence = c.evidence /\ new.lifecycle \in {"weak", "confirmed"}
               /\ new.lifecycle = "confirmed" =>
                    \/ c.fact.type = "warning" /\ new.confidence >= 70
                    \/ /\ new.confidence >= 78 /\ new.importance >= 55
                       /\ Cardinality(new.evidence) >= 2
  <1> DEFINE lifecycle == InitialLifecycle(c.fact.type, c.confidence, c.importance,
                                           Cardinality(c.evidence))
             none == 0
             half == 50
             fullscore == 10000
             row == [status |-> "active", fact |-> c.fact, evidence |-> c.evidence,
                     confidence |-> c.confidence, importance |-> c.importance,
                     stability |-> half, contradictions |-> none, age |-> none,
                     decay |-> fullscore, quality |-> none, lifecycle |-> lifecycle]
  <1>1. /\ lifecycle \in {"weak", "confirmed"}
        /\ lifecycle = "confirmed" =>
                \/ c.fact.type = "warning" /\ c.confidence >= 70
                \/ /\ c.confidence >= 78 /\ c.importance >= 55
                   /\ Cardinality(c.evidence) >= 2
    BY InitialOutcome
  <1>2. lifecycle \in Lifecycles /\ "active" \in RowStatuses
    BY <1>1 DEF Lifecycles, RowStatuses
  <1>3. half \in Percent /\ none \in Nat /\ fullscore \in Fraction /\ none \in Fraction
    BY DEF Percent, Fraction
  <1>4. NewRow(c) = Scored(row)
    BY DEF NewRow
  <1> HIDE DEF lifecycle, none, half, fullscore
  <1>5. /\ row \in Row /\ row.status = "active" /\ row.fact = c.fact
        /\ row.evidence = c.evidence /\ row.lifecycle = lifecycle
        /\ row.confidence = c.confidence /\ row.importance = c.importance
    BY <1>2, <1>3 DEF Row, Candidate
  <1> HIDE DEF row
  <1>6. /\ Scored(row) \in Row /\ Scored(row).status = "active" /\ Scored(row).fact = c.fact
        /\ Scored(row).evidence = c.evidence /\ Scored(row).lifecycle = lifecycle
        /\ Scored(row).confidence = c.confidence /\ Scored(row).importance = c.importance
    BY <1>5, ScoredRow
  <1>7. QED
    BY <1>1, <1>4, <1>6

-----------------------------------------------------------------------------
(* What each statement on memory_items does. *)

ItemsOK == items \in [Ids -> Row]

\* A statement writes one row.
Writes(i, row) == i \in Ids /\ row \in Row /\ items' = [items EXCEPT ![i] = row]

\* What only the statements of the extractor change in a row.
Kept(old, new) ==
    /\ new.fact = old.fact /\ new.evidence = old.evidence
    /\ new.confidence = old.confidence /\ new.importance = old.importance
    /\ new.contradictions = old.contradictions

\* A command finds stored rows that were not deleted.
LEMMA CommandsFind ==
    ASSUME NEW i \in Ids, NEW g, NEW anywhere, Manageable(i, g, anywhere)
    PROVE  items[i].status \notin {"absent", "deleted"}
  BY DEF Manageable, Stored

\* The effect of a confirmation.
LEMMA ConfirmWrites ==
    ASSUME ItemsOK, NEW i \in Ids, NEW g, NEW anywhere, Confirm(i, g, anywhere)
    PROVE  \E row \in Row :
                /\ Writes(i, row) /\ Kept(items[i], row)
                /\ row.status = "active" /\ row.lifecycle = "confirmed"
                /\ items[i].status \notin {"absent", "deleted"}
  <1> DEFINE stability == Larger(items[i].stability, 65)
             fullscore == 10000
             row == [items[i] EXCEPT !.status = "active", !.lifecycle = "confirmed",
                                     !.stability = stability, !.decay = fullscore]
  <1>1. items[i] \in Row
    BY DEF ItemsOK
  <1>2. stability \in Percent
    BY <1>1, RowColumns DEF Larger, Percent
  <1>3. fullscore \in Fraction
    BY DEF Fraction
  <1>4. items' = [items EXCEPT ![i] = Scored(row)] /\ Manageable(i, g, anywhere)
    BY DEF Confirm, Set
  <1>9. "active" \in RowStatuses /\ "confirmed" \in Lifecycles
    BY DEF RowStatuses, Lifecycles
  <1>5. /\ row \in Row /\ row.status = "active" /\ row.lifecycle = "confirmed"
        /\ Kept(items[i], row)
    <2> HIDE DEF stability, fullscore
    <2>1. QED
      BY <1>1, <1>2, <1>3, <1>9 DEF Kept, Row
  <1> HIDE DEF row
  <1>6. /\ Scored(row) \in Row /\ Scored(row).status = "active"
        /\ Scored(row).lifecycle = "confirmed" /\ Kept(items[i], Scored(row))
    BY <1>5, ScoredRow DEF Kept
  <1>7. QED
    BY <1>4, <1>6, CommandsFind DEF Writes

\* The effect of the commands that take a memory out of use.
LEMMA RetireWrites ==
    ASSUME ItemsOK, NEW i \in Ids, NEW g, NEW anywhere,
           Archive(i, g, anywhere) \/ MarkStale(i, g, anywhere) \/ Delete(i, g, anywhere)
    PROVE  \E row \in Row :
                /\ Writes(i, row) /\ Kept(items[i], row)
                /\ \/ row.status \in {"archived", "deleted"} /\ row.lifecycle = "archived"
                   \/ row.status = "active" /\ row.lifecycle = "stale"
                /\ items[i].status \notin {"absent", "deleted"}
  <1>1. items[i] \in Row
    BY DEF ItemsOK
  <1>2. /\ {"archived", "deleted"} \subseteq RowStatuses
        /\ {"archived", "stale"} \subseteq Lifecycles
    BY DEF RowStatuses, Lifecycles
  <1>3. CASE Archive(i, g, anywhere)
    <2> DEFINE row == [items[i] EXCEPT !.status = "archived", !.lifecycle = "archived"]
    <2>1. /\ row \in Row /\ row.status = "archived" /\ row.lifecycle = "archived"
          /\ Kept(items[i], row)
      BY <1>1, <1>2 DEF Kept, Row
    <2>2. QED
      BY <1>3, <2>1, CommandsFind DEF Archive, Writes, Set
  <1>4. CASE Delete(i, g, anywhere)
    <2> DEFINE row == Forgotten(items[i])
    <2>1. /\ row \in Row /\ row.status = "deleted" /\ row.lifecycle = "archived"
          /\ Kept(items[i], row)
      BY <1>1, <1>2 DEF Kept, Row, Forgotten
    <2>2. QED
      BY <1>4, <2>1, CommandsFind DEF Delete, Writes, Set
  <1>5. CASE MarkStale(i, g, anywhere)
    <2> DEFINE row == [items[i] EXCEPT !.lifecycle = "stale"]
    <2>1. /\ row \in Row /\ row.status = items[i].status /\ row.lifecycle = "stale"
          /\ Kept(items[i], row)
      BY <1>1, <1>2 DEF Kept, Row
    <2>2. items[i].status = "active" /\ items' = [items EXCEPT ![i] = Scored(row)]
      BY <1>5 DEF MarkStale, Set
    <2> HIDE DEF row
    <2>3. /\ Scored(row) \in Row /\ Scored(row).status = "active"
          /\ Scored(row).lifecycle = "stale" /\ Kept(items[i], Scored(row))
      BY <2>1, <2>2, ScoredRow DEF Kept
    <2>4. QED
      BY <2>2, <2>3 DEF Writes
  <1>6. QED
    BY <1>3, <1>4, <1>5

\* A row that was forgotten keeps what it was about.
LEMMA ForgottenRow ==
    ASSUME NEW row \in Row
    PROVE  /\ Forgotten(row) \in Row /\ Forgotten(row).status = "deleted"
           /\ Forgotten(row).lifecycle = "archived" /\ Kept(row, Forgotten(row))
  <1>1. "deleted" \in RowStatuses /\ "archived" \in Lifecycles
    BY DEF RowStatuses, Lifecycles
  <1>2. QED
    BY <1>1 DEF Forgotten, Kept, Row

\* The effect of forgetting a user or a group.
LEMMA ForgetWrites ==
    ASSUME ItemsOK, NEW g, NEW u, DeleteGroup(g) \/ DeleteUser(g, u)
    PROVE  /\ items' \in [Ids -> Row]
           /\ \A i \in Ids : \/ items'[i] = items[i]
                             \/ items[i].status = "active" /\ items'[i] = Forgotten(items[i])
  <1>1. PICK rows \in SUBSET ActiveIn(g) : DeleteAll(rows)
    BY DEF DeleteGroup, DeleteUser
  <1>2. rows \subseteq {i \in Ids : items[i].status = "active"}
    BY <1>1 DEF ActiveIn
  <1>3. \A i \in Ids : items[i] \in Row /\ Forgotten(items[i]) \in Row
    BY ForgottenRow DEF ItemsOK
  <1>4. items' = [i \in Ids |-> IF i \in rows THEN Forgotten(items[i]) ELSE items[i]]
    BY <1>1 DEF DeleteAll
  <1>5. QED
    BY <1>2, <1>3, <1>4

\* The effect of one write-back of a decay sweep.
LEMMA DecayWrites ==
    ASSUME ItemsOK, NEW i \in Ids, NEW seen \in Row, NEW days \in Nat,
           DecayWrite(i, seen, days)
    PROVE  \E row \in Row :
                /\ Writes(i, row) /\ Kept(items[i], row)
                /\ \/ row.status = "archived" /\ row.lifecycle = "archived"
                   \/ row.status = seen.status /\ row.lifecycle = "stale"
                   \/ row.status = seen.status /\ row.lifecycle = seen.lifecycle
  <1> DEFINE aged == Decayed(seen, days)
             row == [items[i] EXCEPT !.status = aged.status, !.lifecycle = aged.lifecycle,
                                     !.decay = aged.decay, !.quality = aged.quality]
  <1>1. items[i] \in Row
    BY DEF ItemsOK
  <1>2. /\ aged \in Row
        /\ \/ aged.status = "archived" /\ aged.lifecycle = "archived"
           \/ aged.status = seen.status /\ aged.lifecycle = "stale"
           \/ aged.status = seen.status /\ aged.lifecycle = seen.lifecycle
    BY DecayedRow
  <1>3. items' = [items EXCEPT ![i] = row]
    BY DEF DecayWrite, Set
  <1> HIDE DEF aged
  <1>4. /\ aged.status \in RowStatuses /\ aged.lifecycle \in Lifecycles
        /\ aged.decay \in Fraction /\ aged.quality \in Fraction
    BY <1>2, RowColumns
  <1>5. /\ row \in Row /\ row.status = aged.status /\ row.lifecycle = aged.lifecycle
        /\ Kept(items[i], row)
    BY <1>1, <1>4 DEF Kept, Row
  <1> HIDE DEF row
  <1>6. QED
    BY <1>2, <1>3, <1>5 DEF Writes

\* The effect of marking a memory as contradicted.
LEMMA ContradictWrites ==
    ASSUME ItemsOK, NEW i, NEW g, Contradict(i, g)
    PROVE  \E row \in Row :
                /\ Writes(i, row) /\ items[i].status = "active"
                /\ row.status = "active" /\ row.lifecycle = "contradicted"
                /\ row.fact = items[i].fact /\ row.evidence = items[i].evidence
                /\ row.confidence = items[i].confidence /\ row.importance = items[i].importance
                /\ row.contradictions = items[i].contradictions + 1
  <1> DEFINE more == items[i].contradictions + 1
             row == [items[i] EXCEPT !.lifecycle = "contradicted", !.contradictions = more]
  <1>1. i \in Ids /\ items[i].status = "active" /\ items' = [items EXCEPT ![i] = Scored(row)]
    BY DEF Contradict, Contradictable, Set
  <1>2. items[i] \in Row
    BY <1>1 DEF ItemsOK
  <1>3. more \in Nat
    BY <1>2, RowColumns
  <1>4. "contradicted" \in Lifecycles
    BY DEF Lifecycles
  <1> HIDE DEF more
  <1>5. /\ row \in Row /\ row.status = items[i].status /\ row.lifecycle = "contradicted"
        /\ row.fact = items[i].fact /\ row.evidence = items[i].evidence
        /\ row.confidence = items[i].confidence /\ row.importance = items[i].importance
        /\ row.contradictions = more
    BY <1>2, <1>3, <1>4 DEF Row
  <1> HIDE DEF row
  <1>6. /\ Scored(row) \in Row /\ Scored(row).status = "active"
        /\ Scored(row).lifecycle = "contradicted" /\ Scored(row).fact = items[i].fact
        /\ Scored(row).evidence = items[i].evidence /\ Scored(row).contradictions = more
        /\ Scored(row).confidence = items[i].confidence
        /\ Scored(row).importance = items[i].importance
    BY <1>1, <1>5, ScoredRow
  <1>7. QED
    BY <1>1, <1>6 DEF Writes, more

\* The effect of the update of an extraction: the status and the number of
\* contradictions are those of the row, everything else comes from the row read
\* before.
LEMMA ReinforceWrites ==
    ASSUME ItemsOK, NEW i \in Ids, NEW seen \in Row, NEW c \in Candidate,
           seen.lifecycle # "archived", ReinforceWrite(i, seen, c)
    PROVE  \E row \in Row :
                /\ Writes(i, row)
                /\ row.status = items[i].status /\ row.contradictions = items[i].contradictions
                /\ row.fact = seen.fact /\ row.evidence = seen.evidence \cup c.evidence
                /\ row.lifecycle # "archived"
                /\ row.lifecycle = "contradicted" <=> seen.lifecycle = "contradicted"
                /\ row.lifecycle \in RecallLifecycles =>
                     \/ seen.lifecycle \in RecallLifecycles
                     \/ c.fact.type = "warning" /\ row.confidence >= 70
                     \/ /\ row.confidence >= 78 /\ row.importance >= 55
                        /\ Cardinality(row.evidence) >= 2
  <1> DEFINE new == Reinforced(seen, c)
             row == [new EXCEPT !.status = items[i].status,
                                !.contradictions = items[i].contradictions]
  <1>1. items[i].status \in RowStatuses /\ items[i].contradictions \in Nat
    BY RowColumns DEF ItemsOK
  <1>2. /\ new \in Row /\ new.fact = seen.fact /\ new.evidence = seen.evidence \cup c.evidence
        /\ new.lifecycle # "archived"
        /\ new.lifecycle = "contradicted" <=> seen.lifecycle = "contradicted"
        /\ new.lifecycle \in RecallLifecycles =>
                \/ seen.lifecycle \in RecallLifecycles
                \/ c.fact.type = "warning" /\ new.confidence >= 70
                \/ /\ new.confidence >= 78 /\ new.importance >= 55
                   /\ Cardinality(new.evidence) >= 2
    BY ReinforcedRow
  <1>3. items' = [items EXCEPT ![i] = row]
    BY DEF ReinforceWrite, Set
  <1> HIDE DEF new
  <1>4. /\ row \in Row /\ row.status = items[i].status /\ row.fact = new.fact
        /\ row.contradictions = items[i].contradictions /\ row.evidence = new.evidence
        /\ row.lifecycle = new.lifecycle /\ row.confidence = new.confidence
        /\ row.importance = new.importance
    BY <1>1, <1>2 DEF Row
  <1> HIDE DEF row
  <1>5. QED
    BY <1>2, <1>3, <1>4 DEF Writes

\* The effect of the insert of an extraction.
LEMMA InsertWrites ==
    ASSUME ItemsOK, NEW i \in Ids, NEW c \in Candidate, Insert(i, c)
    PROVE  \E row \in Row :
                /\ Writes(i, row) /\ items[i].status = "absent"
                /\ row.status = "active" /\ row.fact = c.fact /\ row.evidence = c.evidence
                /\ row.lifecycle \in {"weak", "confirmed"}
                /\ row.lifecycle = "confirmed" =>
                     \/ c.fact.type = "warning" /\ row.confidence >= 70
                     \/ /\ row.confidence >= 78 /\ row.importance >= 55
                        /\ Cardinality(row.evidence) >= 2
  <1> DEFINE row == NewRow(c)
  <1>1. items' = [items EXCEPT ![i] = row] /\ items[i].status = "absent"
    BY DEF Insert, Set, Stored
  <1>2. /\ row \in Row /\ row.status = "active" /\ row.fact = c.fact /\ row.evidence = c.evidence
        /\ row.lifecycle \in {"weak", "confirmed"}
        /\ row.lifecycle = "confirmed" =>
                \/ c.fact.type = "warning" /\ row.confidence >= 70
                \/ /\ row.confidence >= 78 /\ row.importance >= 55
                   /\ Cardinality(row.evidence) >= 2
    BY InsertedRow
  <1> HIDE DEF row
  <1>3. QED
    BY <1>1, <1>2 DEF Writes

\* Time changes the age of a row and nothing else.
LEMMA DaysWrite ==
    ASSUME ItemsOK, NEW days \in Nat, DaysPass(days)
    PROVE  /\ items' \in [Ids -> Row]
           /\ \A i \in Ids : /\ Kept(items[i], items'[i])
                             /\ items'[i].status = items[i].status
                             /\ items'[i].lifecycle = items[i].lifecycle
  <1> DEFINE older(row) == [row EXCEPT !.age = Bounded(row.age + days, AgeCap)]
  <1>1. ASSUME NEW row \in Row
        PROVE  /\ older(row) \in Row /\ Kept(row, older(row))
               /\ older(row).status = row.status /\ older(row).lifecycle = row.lifecycle
    <2> DEFINE age == Bounded(row.age + days, AgeCap)
    <2>1. age \in Nat
      <3>1. row.age \in Nat /\ AgeCap \in Nat
        BY RowColumns, MemoryAssumption
      <3>2. QED
        BY <3>1 DEF Bounded
    <2> HIDE DEF age
    <2>2. [row EXCEPT !.age = age] \in Row
      BY <2>1 DEF Row
    <2>3. QED
      BY <2>1, <2>2 DEF Kept, Row, age
  <1>2. items' = [i \in Ids |-> IF Stored(i) THEN older(items[i]) ELSE items[i]]
    BY Zenon DEF DaysPass
  <1> HIDE DEF older
  <1>3. ASSUME NEW i \in Ids
        PROVE  /\ items'[i] \in Row /\ Kept(items[i], items'[i])
               /\ items'[i].status = items[i].status
               /\ items'[i].lifecycle = items[i].lifecycle
    <2>1. items[i] \in Row
      BY DEF ItemsOK
    <2>2. items'[i] \in {items[i], older(items[i])}
      BY <1>2
    <2>3. Kept(items[i], items[i])
      BY DEF Kept
    <2>4. QED
      BY <1>1, <2>1, <2>2, <2>3
  <1>4. QED
    BY <1>2, <1>3

=============================================================================
