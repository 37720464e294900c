SPECIFICATION Spec
CONSTANTS
    Requests = {r1, r2}
    Clients = {c1}
    Sources = {h1}
    PerWindow = 2
    Window = 3
    IdemWindow = 2
    MaxSkew = 1
    Faults = {}
    MaxFaults = 0
    MaxTime = 3
SYMMETRY AdmissionSymmetry
\* Every request is answered and the clock stops: the instance comes to rest.
CHECK_DEADLOCK FALSE
INVARIANTS NoDoubleSubmit
