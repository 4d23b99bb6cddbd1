------------------------- MODULE MCSourceGovernance -------------------------
(* What a run can get from a source, one of each kind that the health      *)
(* score and the trial tell apart.                                         *)
EXTENDS SourceGovernance

CONSTANTS feed, find

MCNone == {}
MCFeed == {feed}
MCFind == {find}

Outcome(collected, new, lost, approved, failed, cost) ==
  [collected |-> collected, new |-> new, lost |-> lost, approved |-> approved,
   failed |-> failed, cost |-> cost]

Good == Outcome(2, 2, 0, 3, 0, 10)       \* everything new and approved, and once
                                         \*   more under a source that shares a url
Poor == Outcome(10, 1, 0, 0, 0, 1)       \* little that is new, nothing approved
Down == Outcome(0, 0, 0, 0, 1, 0)        \* the request fails

MCGoodPoor == {Good, Poor}
MCGoodDown == {Good, Down}
=============================================================================
