SPECIFICATION Spec
CONSTANTS
    Prices = {1, 3}
    Quantities = {1, 2}
    Traders = {"alice", "bob"}
    BaseAsset = "base"
    QuoteAsset = "quote"
    MaxAmount = 4
    DepositAmounts = {1, 4}
    MaxEvents = 5
INVARIANTS
    BalancesConserved
    RestingOrdersBacked
    ReplayRebuildsState
PROPERTIES
    ErrorsAndDuplicatesChangeNothing
CHECK_DEADLOCK FALSE
