--------------------------- MODULE MCReviewRetry ---------------------------
(* Four items, two of which are the same repository found by two sources,  *)
(* and one of which comes from a source on trial.                          *)
EXTENDS ReviewRetry

CONSTANTS repo, post, paper

MCUrlOf == <<repo, post, repo, paper>>
MCTrial == {post}
=============================================================================
