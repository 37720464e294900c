SPECIFICATION FairSpec
CONSTANTS
    Scans = {s1, s2}
    Starts = {p1, p2}
    Slots = {1}
    MaxClicks = 2
    MaxFaults = 1
    None = None
INVARIANTS TypeOK ShownReportIsDelivered LeaksComeFromOverlap
PROPERTIES EndReachesThePage PollingStops
CHECK_DEADLOCK FALSE
