-------------------------- MODULE MCMemoryService --------------------------
EXTENDS MemoryService, TLC

ActorSymmetry == Permutations(Sweeps) \cup Permutations(Jobs)

\* Alice and Bob talk in group g1, Carol in g2.
Msg(n, group, sender) == [id |-> n, group |-> group, sender |-> sender]
OldMessages == {Msg(1, "g1", "alice"), Msg(2, "g1", "bob"), Msg(3, "g2", "carol")}
AllMessages == OldMessages \cup {Msg(4, "g1", "alice")}

About(scope, user, target, type, content) ==
    [scope |-> scope, group |-> "g1", user |-> user, target |-> target,
     type |-> type, class |-> ClassForType(type), content |-> content]

Tea == About("user", "alice", "", "preference", "likes tea")
Coffee == About("user", "alice", "", "preference", "likes coffee")
Friends == About("relationship", "alice", "bob", "relationship", "are friends")
Quiet == About("group", "", "", "warning", "no jokes at night")

Candid(fact, ids, confidence, conflict) ==
    [fact |-> [fact EXCEPT !.class = ""], evidence |-> {m \in AllMessages : m.id \in ids},
     confidence |-> confidence, importance |-> 60, conflict |-> conflict]

RowOf(fact, lifecycle, ids, confidence, age) ==
    Scored([status |-> "active", lifecycle |-> lifecycle, fact |-> fact,
            evidence |-> {m \in AllMessages : m.id \in ids}, confidence |-> confidence,
            importance |-> 60, stability |-> 50, contradictions |-> 0, age |-> age,
            decay |-> 10000, quality |-> 0])

Table(rows) == [i \in Ids |-> IF i \in DOMAIN rows THEN rows[i] ELSE Absent]

\* Alice likes tea: guessed, or contradicted once.
GuessedTea == RowOf(Tea, "weak", {1, 2}, 75, 0)
DoubtedTea == Scored([GuessedTea EXCEPT !.lifecycle = "contradicted", !.contradictions = 1])
GuessTable == {Table(<<GuessedTea>>)}
TeaTables == {Table(<<row>>) : row \in {GuessedTea, DoubtedTea}}

\* A repeated memory and one that contradicts it.
TeaAgain == <<Candid(Tea, {4}, 70, 0)>>
NoMoreTea == <<Candid(Coffee, {4}, 80, 1)>>

\* What must be refused: foreign evidence, a stranger, somebody befriending
\* himself, a global scope, and (of four candidates) one too many.
Nonsense == <<Candid(Tea, {3}, 90, 0), Candid([Tea EXCEPT !.user = "dave"], {1}, 90, 0),
              Candid([Friends EXCEPT !.target = "alice"], {1}, 90, 0),
              Candid([Quiet EXCEPT !.scope = "global", !.group = ""], {1}, 90, 0),
              Candid(Tea, {1}, 90, 0)>>

TeaAnswers == {TeaAgain, NoMoreTea}
WorkAnswers == TeaAnswers \cup {Nonsense}

=============================================================================
