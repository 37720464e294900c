SPECIFICATION Spec
CONSTANTS
    Scans = {s1, s2}
    Amounts = {1}
    ContractPrice = 1
    ConfigPrices = {1, 2}
    Confirmations = 1
    ReorgDepth = 1
    RpcLag = 0
    MaxBlockRange = 1
    LookbackMax = 5
    MaxWindows = 2
    Faults = {"crash"}
    MaxHeight = 5
    MaxFaults = 1
SYMMETRY ScanSymmetry
INVARIANTS SnapshotPriceDecides
