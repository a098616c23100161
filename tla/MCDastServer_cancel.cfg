SPECIFICATION Spec
CONSTANTS
    Workers = {w1}
    Cancellers = {c1}
    Scans = {s1}
    Projects = {p1}
    None = None
    MaxConcurrentScans = 1
    MaxCrashes = 0
    MaxLostWrites = 0
PROPERTIES FailRoutesToCancel
CHECK_DEADLOCK FALSE
