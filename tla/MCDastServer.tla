---------------------------- MODULE MCDastServer ----------------------------
(* DastServer on small sets, for TLC. Requests are interchangeable, and so *)
(* are ids, projects and cancel requests; the symmetry is used only where  *)
(* no liveness property is checked.                                        *)
EXTENDS DastServer, TLC

MCSymmetry ==
    Permutations(Workers) \cup Permutations(Scans)
        \cup Permutations(Projects) \cup Permutations(Cancellers)
=============================================================================
