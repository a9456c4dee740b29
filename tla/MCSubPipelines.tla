--------------------------- MODULE MCSubPipelines ---------------------------
(* Sub-pipelines for TLC: their constants are model values of the configurations. *)
EXTENDS SubPipelines
=============================================================================
