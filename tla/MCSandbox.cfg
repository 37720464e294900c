SPECIFICATION FairSpec
CONSTANTS
    Scans = {s1, s2}
    Permits = 1
    Timeout = 1
    MinThreshold = 3
    Interval = 2
    Slack = 1
    MaxJump = 1
    MaxStops = 1
    MaxFailures = 1
INVARIANTS TypeOK LiveFolderKept OnlyAbandonedExceedPermits
PROPERTIES EveryAnalysisEnds EveryFolderGoes
