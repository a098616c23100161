SPECIFICATION Spec
CONSTANTS
    Workers = {w1, w2, w3}
    Cancellers = {c1}
    Scans = {s1, s2}
    Projects = {p1, p2}
    None = None
    MaxConcurrentScans = 1
    MaxCrashes = 1
    MaxLostWrites = 1
SYMMETRY MCSymmetry
INVARIANTS TypeOK SlotsMatchWorkers CancelsReachTheirScan DoneHasReport
PROPERTIES FinishedStays ImplementsBoundedPool
CHECK_DEADLOCK FALSE
