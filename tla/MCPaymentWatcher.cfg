SPECIFICATION Spec
CONSTANTS
    Scans = {s1, s2}
    Amounts = {1, 2}
    ContractPrice = 1
    ConfigPrices = {1, 2}
    Confirmations = 2
    ReorgDepth = 1
    RpcLag = 1
    MaxBlockRange = 1
    LookbackMax = 2
    MaxWindows = 2
    Faults = {"rpc_error", "rpc_null", "rpc_hang", "cursor_db", "mark_paid_db", "crash"}
    MaxHeight = 7
    MaxFaults = 1
SYMMETRY ScanSymmetry
INVARIANTS TypeOK PaidBeforeSpawn AtMostOnePipeline NoOtherPaymentMissed
PROPERTIES CursorNeverGoesBack OnlyOldBlocksSkipped ImplementsLifecycle
