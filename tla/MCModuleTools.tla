---------------------------- MODULE MCModuleTools ---------------------------
EXTENDS ModuleTools

Entry(name, url) == [name |-> name, url |-> url]

\* "search" is offered twice; the second entry of "two" replaces the first.
DefaultEntries == <<Entry("one", "a"), Entry("two", "b"), Entry("", "x")>>
OverrideEntries == <<Entry("three", ""), Entry("two", "c"), Entry("four", "d")>>
OfferedTools == [a |-> {"search"}, c |-> {"search", "weather"}, d |-> {"weather"}]
BlockedPairs == {<<"two", "g1">>}
SomeCalls == {[tool |-> t, group |-> g] : t \in {"search", "weather", "tools", "none"}, g \in {"g1"}}
             \cup {[tool |-> "weather", group |-> "g2"], [tool |-> "echo", group |-> ""]}
=============================================================================
