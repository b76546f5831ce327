----------------------------- MODULE MCPipeline -----------------------------
(* Instances of Pipeline for TLC: plan versions are interchangeable. *)
EXTENDS PipelineProps, TLC

PlanSymmetry == Permutations(Plans)
=============================================================================
