\* Two scans and three requests of any kind, two for one scan among them; two of
\* the handlers and the tick are in progress at once.
SPECIFICATION FairSpec
CONSTANTS
    NumScans = 2
    Handlers = {h1, h2}
    Ticks = {k1}
    MaxBusy = 2
    MaxRequests = 3
INVARIANTS
    TypeOK
    
PROPERTIES
    QueueDrains
    EndsAreNoticed
