---------------------------- MODULE MCDastAudit ----------------------------
(* DastAudit for TLC.  No symmetry: tests are started in order, and AuditEnds *)
(* is a liveness property.                                                    *)
EXTENDS DastAudit

\* The first test can find one name at two places, with two severities, and the
\* second test the same name.
MCFinding ==
    {[test |-> 1, name |-> "id", in |-> "path", severity |-> 1],
     [test |-> 1, name |-> "id", in |-> "query", severity |-> 2],
     [test |-> 2, name |-> "id", in |-> "path", severity |-> 1]}
=============================================================================
