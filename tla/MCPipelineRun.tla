---------------------------- MODULE MCPipelineRun ----------------------------
(***************************************************************************)
(* The instances of PipelineRun that TLC checks: runs are interchangeable. *)
(***************************************************************************)
EXTENDS PipelineRun, TLC

Symmetry == Permutations(Runs)
=============================================================================
