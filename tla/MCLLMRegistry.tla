--------------------------- MODULE MCLLMRegistry ---------------------------
(* One analyzer node with two items, and one or two providers.  With one   *)
(* slot for the reviewer its allowance in OvershootBounded is small enough *)
(* for two runs, of which the first loses its records, to go beyond it.    *)
EXTENDS LLMRegistry, TLC

CONSTANTS p1, p2, i1, i2

MCOneProvider == {p1}
MCTwoProviders == {p1, p2}
MCItems == {i1, i2}
MCAnalyzers == {"github_analyzer"}
MCAnalyzerOf == [i \in Items |-> "github_analyzer"]
MCChain == [a \in Agents |-> <<p1>>]
MCChainWithFallback == [a \in Agents |-> <<p1, p2>>]
MCSlots == [a \in Agents |-> 2]
MCOneReviewSlot == [a \in Agents |-> IF a = Reviewer THEN 1 ELSE 2]

\* The items are of one analyzer: for invariants they are interchangeable.
MCSymmetry == Permutations(Items)
=============================================================================
