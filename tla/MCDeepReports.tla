---------------------------- MODULE MCDeepReports ----------------------------
EXTENDS DeepReports, TLC

CONSTANTS a, b, c1, c2

(* Two repositories with a report of version 1 each, which no property     *)
(* tells apart.                                                            *)
MCRepos == {a, b}
MCCommits == {c1, c2}
MCLegacy == {<<a, c1>>, <<b, c1>>}
MCSymmetry == Permutations(MCRepos)
=============================================================================
