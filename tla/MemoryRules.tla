---------------------------- MODULE MemoryRules ----------------------------
(***************************************************************************)
(* The rules of Brain's long-term memory that look at one row only         *)
(* (brain-python/services/memory.py): how a row starts, how evidence       *)
(* strengthens it, how age weakens it and when it may be recalled.         *)
(*                                                                         *)
(* Confidence, importance and stability are kept in hundredths, decay and  *)
(* quality in ten-thousandths (the code rounds both to four decimals). A   *)
(* list of evidence ids has no duplicates and its order is never used: it  *)
(* is a set here. What a memory is about (scope, group, user, target,      *)
(* type, class and normalized content) never changes once it is stored and *)
(* is one record, its "fact".                                              *)
(***************************************************************************)
EXTENDS Integers, FiniteSets

Nobody == ""                 \* an id column that is NULL or empty
Scopes == {"global", "group", "user", "relationship"}
Types == {"preference", "fact", "style", "relationship", "topic", "summary", "warning"}
Lifecycles == {"weak", "confirmed", "reinforced", "stale", "contradicted", "archived"}
RecallLifecycles == {"confirmed", "reinforced"}
DecayLifecycles == {"weak", "confirmed", "reinforced"}

HalfLife == [episodic |-> 30, semantic |-> 180, procedural |-> 365,
             affective |-> 180, social |-> 120, persona |-> 730]
Classes == DOMAIN HalfLife

ClassForType(type) ==
    CASE type \in {"style", "preference", "warning"} -> "procedural"
      [] type = "relationship" -> "social"
      [] OTHER -> "semantic"

Bounded(x, top) == IF x < 0 THEN 0 ELSE IF x > top THEN top ELSE x
Larger(x, y) == IF x > y THEN x ELSE y

\* Mutant of InitialLifecycle: one message is evidence enough.
InitialLifecycleAlone(type, confidence, importance, sources) ==
    IF \/ type = "warning" /\ confidence >= 70
       \/ confidence >= 78 /\ importance >= 55 /\ sources >= 1
    THEN "confirmed" ELSE "weak"

InitialLifecycle(type, confidence, importance, sources) ==
    IF \/ type = "warning" /\ confidence >= 70
       \/ confidence >= 78 /\ importance >= 55 /\ sources >= 2
    THEN "confirmed" ELSE "weak"

\* Mutant of ReinforcedLifecycle: enough evidence settles a contradiction.
ReinforcedLifecycleForgiving(old, type, confidence, importance, sources, stability) ==
    IF old \in {"reinforced", "archived"} THEN old
    ELSE InitialLifecycle(type, confidence, importance, sources)

\* The lifecycle an update writes, from the one its SELECT returned and the
\* merged scores. Only a row that was contradicted, reinforced or archived
\* keeps its lifecycle whatever the evidence.
ReinforcedLifecycle(old, type, confidence, importance, sources, stability) ==
    LET earned == IF old = "confirmed" THEN old
                  ELSE InitialLifecycle(type, confidence, importance, sources)
    IN  IF old \in {"contradicted", "reinforced", "archived"} THEN old
        ELSE IF earned = "confirmed" /\ (sources >= 3 \/ stability >= 75) THEN "reinforced"
        ELSE earned

\* part / whole, rounded to four decimals.
Rounded(part, whole) == (20000 * part + whole) \div (2 * whole)

\* 1 - age / half-life.
DecayScore(class, age) ==
    Rounded(Bounded(HalfLife[class] - age, HalfLife[class]), HalfLife[class])

\* compute_quality_score and _quality_score_sql, to the nearest ten-thousandth.
Quality(row) ==
    Bounded(35 * row.confidence + 25 * row.importance + 15 * row.stability
            + 300 * Bounded(Cardinality(row.evidence), 5) + (row.decay + 5) \div 10
            - 1000 * Bounded(row.contradictions, 3), 10000)

Scored(row) == [row EXCEPT !.quality = Quality(row)]

\* What a decay sweep makes of a row it has read.
Decayed(row, days) ==
    LET age == row.age + days
        decay == DecayScore(row.fact.class, age)
        aged == [row EXCEPT !.decay = decay]
    IN  Scored(CASE row.lifecycle = "weak" /\ age > 14 ->
                        [aged EXCEPT !.status = "archived", !.lifecycle = "archived"]
                 [] \/ row.lifecycle = "confirmed" /\ decay < 2500
                    \/ row.lifecycle = "reinforced" /\ decay < 1500 ->
                        [aged EXCEPT !.lifecycle = "stale"]
                 [] OTHER -> aged)

\* _recall_status_filter and recall_eligible with the lifecycle filter on, its
\* default (MEMORY_RECALL_LIFECYCLE_FILTER_ENABLED).
Recallable(row) == row.status = "active" /\ row.lifecycle \in RecallLifecycles

\* Mutant of InScope: a user's memory follows the user into every group.
InScopeAnywhere(fact, group, user) ==
    \/ fact.scope = "global"
    \/ fact.scope = "group" /\ fact.group = group /\ group # Nobody
    \/ fact.scope = "user" /\ fact.user = user /\ user # Nobody
    \/ fact.scope = "relationship" /\ user # Nobody /\ user \in {fact.user, fact.target}

\* _memory_scope_filter: whose requests see a memory.
InScope(fact, group, user) ==
    \/ fact.scope = "global"
    \/ /\ group # Nobody /\ fact.group = group
       /\ \/ fact.scope = "group"
          \/ fact.scope = "user" /\ user # Nobody /\ fact.user = user
          \/ fact.scope = "relationship" /\ user # Nobody /\ user \in {fact.user, fact.target}

=============================================================================
