\* Two tests, one at a time, two severities; two turns, so that a scan of the model
\* can follow the baseline and raise what it found, and a gate the nudge.  The
\* theorems of DastAudit_proofs are for any number of tests and any limit.
SPECIFICATION FairSpec
CHECK_DEADLOCK FALSE
CONSTANTS
    NumTests = 2
    Concurrency = 1
    Finding <- MCFinding
    MaxFindings = 2
    MaxRequests = 1
    MaxTurns = 2
    MaxCalls = 1
INVARIANTS
    TypeOK
    ResultIsComplete
    ConfirmedAreReported
    QuietWhenOver
PROPERTIES
    ImplementsBoundedPool
    AuditEnds
