-------------------------- MODULE MCPipelineEngine --------------------------
(***************************************************************************)
(* Small definitions for PipelineEngine.                                   *)
(***************************************************************************)
EXTENDS PipelineEngine

CONSTANTS a, b, c, ghost
=============================================================================
