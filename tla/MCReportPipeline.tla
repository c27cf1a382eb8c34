--------------------------- MODULE MCReportPipeline ---------------------------
(***************************************************************************)
(* Model-checking instances of ReportPipeline.                             *)
(***************************************************************************)
EXTENDS PipelineLifecycle, TLC

\* Requests and workers are interchangeable.
Symmetry == Permutations(Requests) \cup Permutations(Workers)
=============================================================================
