--------------------------- MODULE MCPipelineRuns ---------------------------
(***************************************************************************)
(* Small instances of PipelineRuns.                                        *)
(***************************************************************************)
EXTENDS PipelineRuns

CONSTANTS r1, r2, w1, w2
=============================================================================
