--------------------------- MODULE MCEvaluationRuns ---------------------------
(* Small instances of EvaluationRuns for TLC.                              *)
EXTENDS EvaluationRuns, TLC

Symmetric == Permutations(Handlers)
===============================================================================
