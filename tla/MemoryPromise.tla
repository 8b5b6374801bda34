---------------------------- MODULE MemoryPromise ---------------------------
(***************************************************************************)
(* What Brain's memory promises to a group as long as no decay sweep runs: *)
(* it uses a memory only after the memory was earned (by evidence, or by a *)
(* human who confirmed it), and it never uses again what it was told to    *)
(* forget. Everything else may be withheld and used again at any time.     *)
(***************************************************************************)
CONSTANT Memories

VARIABLES
    known,      \* memories that were ever stored
    earned,     \* those that were ever confirmed by evidence or by a human
    usable,     \* those a recall may use
    forgotten   \* those that were deleted

vars == <<known, earned, usable, forgotten>>

Init ==
    /\ known \subseteq Memories /\ earned \subseteq known
    /\ usable \subseteq earned /\ forgotten = {}

Learn(i) ==
    /\ i \notin known
    /\ known' = known \cup {i}
    /\ earned' \in {earned, earned \cup {i}}
    /\ usable' \in {usable, usable \cup (earned' \cap {i})}
    /\ UNCHANGED forgotten

\* More evidence or a confirmation; the memory need not become usable by it.
Trust(i) ==
    /\ i \in known
    /\ earned' = earned \cup {i}
    /\ usable' \in {usable, usable \cup ({i} \ forgotten)}
    /\ UNCHANGED <<known, forgotten>>

Withhold(i) == usable' = usable \ {i} /\ UNCHANGED <<known, earned, forgotten>>

Forget(S) ==
    /\ S \subseteq known
    /\ forgotten' = forgotten \cup S /\ usable' = usable \ S
    /\ UNCHANGED <<known, earned>>

Next ==
    \/ \E i \in Memories : Learn(i) \/ Trust(i) \/ Withhold(i)
    \/ \E S \in SUBSET Memories : Forget(S)

Spec == Init /\ [][Next]_vars

=============================================================================
