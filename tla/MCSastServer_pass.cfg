\* One job, two cancels at a time, one lost UPDATE, one restart; four turns: tools,
\* both nudges, and a conclusion.  What two jobs of a project share is the bucket
\* alone; the theorems of SastServer_proofs are for any number of them.
\* When the job has ended and cannot be cancelled, nothing is left to happen.
SPECIFICATION FairSpec
CHECK_DEADLOCK FALSE
CONSTANTS
    Jobs = {j1}
    Cancels = {c1, c2}
    None = None
    MaxTurns = 4
    MaxLostWrites = 1
    MaxBadDisks = 1
    MaxRestarts = 1
INVARIANTS
    TypeOK
    UploadedIsValid
    OutputGuaranteed
    DoneIsDelivered
    EndIsRecorded
PROPERTIES
    JobSettles
