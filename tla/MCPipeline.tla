----------------------------- MODULE MCPipeline -----------------------------
(* Instances of the recording pipeline for TLC. *)
EXTENDS PipelineProps
=============================================================================
