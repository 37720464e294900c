SPECIFICATION Spec
CONSTANTS
    Scans = {s1, s2}
    Amounts = {1}
    ContractPrice = 1
    ConfigPrices = {1}
    Confirmations = 0
    ReorgDepth = 0
    RpcLag = 0
    MaxBlockRange = 1
    LookbackMax = 1
    MaxWindows = 2
    Faults = {}
    MaxHeight = 7
    MaxFaults = 1
SYMMETRY ScanSymmetry
INVARIANTS SkippedPaymentsAreExpired
