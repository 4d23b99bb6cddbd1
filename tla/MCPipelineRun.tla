--------------------------- MODULE MCPipelineRun ---------------------------
(* Two analyzer nodes, which start and end in any order.                   *)
EXTENDS PipelineRun

CONSTANTS github, rss

MCAnalyzers == {github, rss}
=============================================================================
