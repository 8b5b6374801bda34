---------------------------- MODULE MemoryItems ----------------------------
(***************************************************************************)
(* The memory_items table and the statements of PostgresMemoryStore that   *)
(* change it (brain-python/services/memory.py). Each statement runs in a   *)
(* transaction of its own, so each is one atomic step; what a caller has   *)
(* read and carries from one statement to the next is a parameter.         *)
(*                                                                         *)
(* last_seen_at is kept as the age of the row in days; the other instants  *)
(* are written and never read, and are left out.                           *)
(***************************************************************************)
EXTENDS MemoryRules

CONSTANTS
    Ids,            \* ids of memory_items, in the order BIGSERIAL hands them out
    Messages,       \* [id, group, sender] of the chat messages that may be evidence
    InitialTables,  \* contents the table may have when the behaviour starts
    AgeCap          \* bound: a row does not grow older than this many days

VARIABLE items      \* the table; rows never inserted have the status "absent"

Names == STRING \cup {Nobody}    \* what an id column may hold

Fact == [scope : Scopes, group : Names, user : Names, target : Names,
         type : Types, class : Classes, content : STRING]

NoFact == [scope |-> "none", group |-> Nobody, user |-> Nobody, target |-> Nobody,
           type |-> "none", class |-> "semantic", content |-> "none"]

RowStatuses == {"absent", "active", "archived", "deleted"}
Percent == 0..100       \* a column between 0 and 1, in hundredths
Fraction == 0..10000    \* one that is rounded to four decimals

Row == [status : RowStatuses, lifecycle : Lifecycles,
        fact : Fact \cup {NoFact}, evidence : SUBSET Messages,
        confidence : Percent, importance : Percent, stability : Percent,
        contradictions : Nat, age : Nat, decay : Fraction, quality : Fraction]

Absent == [status |-> "absent", lifecycle |-> "weak", fact |-> NoFact, evidence |-> {},
           confidence |-> 0, importance |-> 0, stability |-> 0,
           contradictions |-> 0, age |-> 0, decay |-> 0, quality |-> 0]

\* What the extractor asks the store to remember.
Candidate == [fact : Fact \cup {NoFact}, evidence : SUBSET Messages,
              confidence : Percent, importance : Percent]

\* A row that can be used is not archived, and a contradiction leaves a trace.
RowCoherent(row) ==
    /\ row.status = "active" => row.lifecycle # "archived"
    /\ row.lifecycle = "contradicted" => row.contradictions > 0

ASSUME MemoryAssumption ==
    /\ Ids \subseteq Nat \ {0} /\ IsFiniteSet(Ids)
    /\ AgeCap \in Nat
    /\ Messages \subseteq [id : Nat, group : STRING, sender : STRING] /\ IsFiniteSet(Messages)
    /\ \A table \in InitialTables :
            /\ table \in [Ids -> Row]
            /\ \A i \in Ids : /\ RowCoherent(table[i])
                              /\ table[i].status = "absent" => table[i] = Absent

-----------------------------------------------------------------------------
Set(i, row) == items' = [items EXCEPT ![i] = row]

Stored(i) == items[i].status # "absent"

\* Mutant of Manageable: a command finds deleted rows too.
ManageableEver(i, group, anywhere) ==
    Stored(i) /\ (anywhere \/ (group # Nobody /\ items[i].fact.group = group))

\* The rows a command on an id finds. A configured memory admin reaches every
\* group, an admin of a group its own.
Manageable(i, group, anywhere) ==
    /\ Stored(i) /\ items[i].status # "deleted"
    /\ anywhere \/ (group # Nobody /\ items[i].fact.group = group)

\* Mutant of Confirm: the stability is raised instead of given a floor.
ConfirmRaises(i, group, anywhere) ==
    /\ Manageable(i, group, anywhere)
    /\ Set(i, [items[i] EXCEPT !.status = "active", !.lifecycle = "confirmed",
                               !.stability = @ + 65])

Confirm(i, group, anywhere) ==
    /\ Manageable(i, group, anywhere)
    /\ Set(i, Scored([items[i] EXCEPT !.status = "active", !.lifecycle = "confirmed",
                                      !.stability = Larger(@, 65), !.decay = 10000]))

\* Mutant of Archive: only the lifecycle column is set.
ArchiveHalf(i, group, anywhere) ==
    /\ Manageable(i, group, anywhere)
    /\ Set(i, [items[i] EXCEPT !.lifecycle = "archived"])

Archive(i, group, anywhere) ==
    /\ Manageable(i, group, anywhere)
    /\ Set(i, [items[i] EXCEPT !.status = "archived", !.lifecycle = "archived"])

MarkStale(i, group, anywhere) ==
    /\ Manageable(i, group, anywhere) /\ items[i].status = "active"
    /\ Set(i, Scored([items[i] EXCEPT !.lifecycle = "stale"]))

Forgotten(row) == [row EXCEPT !.status = "deleted", !.lifecycle = "archived"]

Delete(i, group, anywhere) ==
    Manageable(i, group, anywhere) /\ Set(i, Forgotten(items[i]))

DeleteAll(rows) ==
    items' = [i \in Ids |-> IF i \in rows THEN Forgotten(items[i]) ELSE items[i]]

\* forget-user and forget-group touch active rows only.
ActiveIn(group) == {i \in Ids : items[i].status = "active" /\ items[i].fact.group = group}
DeleteUser(group, user) == DeleteAll({i \in ActiveIn(group) : items[i].fact.user = user})
DeleteGroup(group) == DeleteAll(ActiveIn(group))

\* The SELECT of a decay sweep. It stays below its LIMIT of 500 rows here.
DecayScan(group) ==
    {i \in Ids : /\ items[i].status = "active" /\ items[i].lifecycle \in DecayLifecycles
                 /\ group = Nobody \/ items[i].fact.group = group
                                   \/ items[i].fact.scope = "global"}

\* The UPDATE of a decay sweep: WHERE id = %s and nothing else.
DecayWrite(i, seen, days) ==
    LET aged == Decayed(seen, days)
    IN  Set(i, [items[i] EXCEPT !.status = aged.status, !.lifecycle = aged.lifecycle,
                                !.decay = aged.decay, !.quality = aged.quality])

\* _mark_contradicted_memory finds the row.
Contradictable(i, group) ==
    i \in Ids /\ items[i].status = "active" /\ items[i].fact.group = group

Contradict(i, group) ==
    /\ Contradictable(i, group)
    /\ Set(i, Scored([items[i] EXCEPT !.lifecycle = "contradicted", !.contradictions = @ + 1]))

\* _find_matching_memory: the rows that say the same, of which the one seen
\* last (then the youngest) is taken.
Matching(fact) ==
    {i \in Ids : /\ items[i].status = "active" /\ items[i].lifecycle # "archived"
                 /\ items[i].fact = fact}

LastSeen(i, rows) ==
    \A j \in rows : \/ items[i].age < items[j].age
                    \/ items[i].age = items[j].age /\ i >= j

\* The row upsert_extracted_memory computes from the one its SELECT returned.
Reinforced(seen, c) ==
    LET evidence == seen.evidence \cup c.evidence
        fresh == evidence # seen.evidence
        best == Larger(seen.confidence, c.confidence)
        confidence == IF fresh THEN Bounded(best + 3, 100) ELSE best
        stability == IF fresh THEN Bounded(seen.stability + 5, 100) ELSE seen.stability
        importance == Larger(seen.importance, c.importance)
    IN  Scored([seen EXCEPT
            !.evidence = evidence, !.confidence = confidence, !.importance = importance,
            !.stability = stability, !.decay = 10000, !.age = 0,
            !.lifecycle = ReinforcedLifecycle(@, c.fact.type, confidence, importance,
                                              Cardinality(evidence), stability)])

\* Its UPDATE leaves the status and the number of contradictions alone.
ReinforceWrite(i, seen, c) ==
    Set(i, [Reinforced(seen, c) EXCEPT !.status = items[i].status,
                                       !.contradictions = items[i].contradictions])

\* Its INSERT.
NewRow(c) ==
    Scored([status |-> "active", fact |-> c.fact, evidence |-> c.evidence,
            confidence |-> c.confidence, importance |-> c.importance, stability |-> 50,
            contradictions |-> 0, age |-> 0, decay |-> 10000, quality |-> 0,
            lifecycle |-> InitialLifecycle(c.fact.type, c.confidence, c.importance,
                                           Cardinality(c.evidence))])

Insert(i, c) ==
    /\ ~Stored(i) /\ \A j \in Ids : j < i => Stored(j)
    /\ Set(i, NewRow(c))

DaysPass(days) ==
    items' = [i \in Ids |-> IF Stored(i)
                            THEN [items[i] EXCEPT !.age = Bounded(@ + days, AgeCap)]
                            ELSE items[i]]

=============================================================================
