SPECIFICATION Spec
CONSTANTS
    Requests = {r1, r2, r3, r4}
    Clients = {c1, c2}
    Sources = {h1}
    PerWindow = 2
    Window = 3
    IdemWindow = 2
    MaxSkew = 1
    Faults = {"db_error", "restart"}
    MaxFaults = 1
    MaxTime = 4
SYMMETRY AdmissionSymmetry
\* Every request is answered and the clock stops: the instance comes to rest.
CHECK_DEADLOCK FALSE
INVARIANTS TypeOK WindowBound NoSequentialDuplicate QuotaIsForNewScans
PROPERTIES RejectionJustified
