--------------------------- MODULE MCMemoryRecall ---------------------------
(* Memories of two groups, of two people and of nobody in particular. *)
EXTENDS MemoryRecall

Msg(n, group, sender) == [id |-> n, group |-> group, sender |-> sender]
OldChat == {Msg(1, "g1", "alice"), Msg(2, "g1", "bob"), Msg(3, "", "alice")}
Chat == OldChat \cup {Msg(4, "g1", "bob")}

About(scope, group, user, target, type, content) ==
    [scope |-> scope, group |-> group, user |-> user, target |-> target,
     type |-> type, class |-> ClassForType(type), content |-> content]

RowOf(fact, lifecycle, confidence, age) ==
    Scored([status |-> "active", lifecycle |-> lifecycle, fact |-> fact, evidence |-> {Msg(1, "g1", "alice")},
            confidence |-> confidence, importance |-> 60, stability |-> 50,
            contradictions |-> 0, age |-> age, decay |-> 10000, quality |-> 0])

Tea == About("user", "g1", "alice", "", "preference", "tea")
Friends == About("relationship", "g1", "alice", "bob", "relationship", "friends")
Rule == About("group", "g1", "", "", "warning", "rule")
Fact0 == About("global", "", "", "", "fact", "fact")
Elsewhere == About("user", "g2", "alice", "", "preference", "tea")

Tables == {
    [i \in Ids |-> CASE i = 1 -> RowOf(Tea, "confirmed", 80, 40)
                     [] i = 2 -> RowOf(Rule, "reinforced", 90, 0)
                     [] OTHER -> RowOf(Fact0, "confirmed", 78, 200)],
    [i \in Ids |-> CASE i = 1 -> RowOf(Friends, "confirmed", 80, 0)
                     [] i = 2 -> RowOf(Elsewhere, "confirmed", 90, 0)
                     [] OTHER -> RowOf(Tea, "weak", 60, 10)]}

\* "tea" names the tea; the vectors find the rule close to it; "ok" has no word.
Scores(k, f, v) == [keyword |-> k, fts |-> f, vector |-> v]
TextRelevance == [
    tea |-> [tea |-> Scores(100, 20, 60), friends |-> Scores(0, 0, 40), rule |-> Scores(0, 5, 95),
             fact |-> Scores(100, 0, 10)],
    ok |-> [tea |-> Scores(0, 0, 10), friends |-> Scores(0, 0, 20), rule |-> Scores(0, 0, 30),
            fact |-> Scores(0, 0, 0)]]

SomeRequests == {[group |-> "g1", user |-> "alice", text |-> "tea"],
                 [group |-> "g1", user |-> "bob", text |-> "ok"],
                 [group |-> "g2", user |-> "alice", text |-> "tea"],
                 [group |-> "", user |-> "alice", text |-> "tea"]}
=============================================================================
