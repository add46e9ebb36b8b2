SPECIFICATION Spec
CONSTANTS
    Principals = {root, relayer}
    Traders = {"alice", "bob"}
    Orders <- MCOrders
    SettlementIds = {id1, id2, id3}
    FillPrices = {1, 2}
    FillQuantities = {1, 2}
    TransferAmounts = {1, 2}
    InitialWallet <- MCInitialWallet
    MaxAmount = 4
    MaxSlot = 2
SYMMETRY MCSymmetry
INVARIANTS
    TypeOK
    VaultBacksBalances
    NeverOverfilled
    FilledIsSumOfReceipts
PROPERTIES
    CancelIsFinal
    ReceiptsAreForever
CHECK_DEADLOCK FALSE
