\* Two handlers at once, and one thing that goes wrong or is asked for.
SPECIFICATION Spec
CONSTANTS
    Tasks = {t1, t2}
    MaxRuns = 1
    MaxEvents = 1
SYMMETRY MCSymmetry
INVARIANTS
    TypeOK
    PipelineOrder
    DastRequestedOnce
    DoneIsDelivered
    ClaimIsServed
