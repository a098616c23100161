SPECIFICATION FairSpec
CONSTANTS
    Workers = {w1, w2, w3}
    Cancellers = {c1}
    Scans = {s1}
    Projects = {p1}
    None = None
    MaxConcurrentScans = 0
    MaxCrashes = 0
    MaxLostWrites = 0
PROPERTIES EveryScanSettles
CHECK_DEADLOCK FALSE
