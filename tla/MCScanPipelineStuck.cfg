SPECIFICATION FairSpec
CONSTANTS
    Scans = {s1}
    MaxConcurrent = 1
    MaxFindings = 1
    Faults = {"db_error"}
    MaxFaults = 1
\* Every scan ends and no new ones arrive: the instance comes to rest.
CHECK_DEADLOCK FALSE
PROPERTIES FinalStatusReached
