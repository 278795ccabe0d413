----------------------------- MODULE MCPipeline -----------------------------
(* Instances of Pipeline for TLC. *)
EXTENDS PipelineProperties, TLC

Symmetry == Permutations(Job) \cup Permutations(Slot)
=============================================================================
