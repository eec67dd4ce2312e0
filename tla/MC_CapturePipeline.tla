------------------------- MODULE MC_CapturePipeline -------------------------
(* Instances of CapturePipeline for TLC: flow keys are interchangeable, so   *)
(* the safety runs may treat them as a symmetry set.                         *)
EXTENDS CapturePipeline, TLC

FlowSymmetry == Permutations(FlowKeys)
=============================================================================
