\* No cancel and no report made again: starting two scans is enough.
SPECIFICATION Spec
CONSTANTS
    NumScans = 2
    Handlers = {h1}
    Ticks = {k1}
    MaxBusy = 2
    MaxRequests = 2
INVARIANTS
    OneActive
