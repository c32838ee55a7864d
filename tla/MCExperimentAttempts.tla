------------------------- MODULE MCExperimentAttempts -------------------------
(* ExperimentAttempts for TLC: the variants are interchangeable. *)
EXTENDS ExperimentAttempts, TLC

Interchangeable == Permutations(Variants)
=============================================================================
