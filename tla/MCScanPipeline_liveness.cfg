\* One handler at a time, and two things that go wrong or are asked for.
SPECIFICATION FairSpec
CONSTANTS
    Tasks = {t1}
    MaxRuns = 1
    MaxEvents = 2
PROPERTIES
    ReportSettles
