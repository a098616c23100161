----------------------------- MODULE MCScanQueue -----------------------------
(* ScanQueue for TLC.  No symmetry: scans are ordered, and QueueDrains is a   *)
(* liveness property.                                                        *)
EXTENDS ScanQueue
=============================================================================
