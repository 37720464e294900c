SPECIFICATION FairSpec
CONSTANTS
    Scans = {s1, s2}
    MaxConcurrent = 1
    MaxFindings = 2
    Faults = {"db_error", "crash"}
    MaxFaults = 2
\* Every scan ends and no new ones arrive: the instance comes to rest.
CHECK_DEADLOCK FALSE
INVARIANTS TypeOK ReadyIsComplete BoundedSandboxes SourceLifetime NoFaultNoStuckScan
PROPERTIES StatusNeverGoesBack ImplementsLifecycle EverySpawnedTaskEnds
