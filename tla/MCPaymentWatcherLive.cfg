SPECIFICATION FairSpec
CONSTANTS
    Scans = {s1, s2}
    Amounts = {1}
    ContractPrice = 1
    ConfigPrices = {1}
    Confirmations = 1
    ReorgDepth = 1
    RpcLag = 0
    MaxBlockRange = 0
    LookbackMax = 2
    MaxWindows = 2
    Faults = {"rpc_error", "rpc_hang", "cursor_db", "crash"}
    MaxHeight = 6
    MaxFaults = 2
PROPERTIES PendingPaymentStartsScan
