--------------------------- MODULE MCScanPipeline ---------------------------
(* ScanPipeline for TLC: which task runs a handler does not matter.        *)
EXTENDS ScanPipeline, TLC

MCSymmetry == Permutations(Tasks)
=============================================================================
