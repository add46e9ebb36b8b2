SPECIFICATION Spec
CONSTANTS
    Prices = {1, 2}
    Quantities = {1, 2}
    Traders = {"alice", "bob"}
    Orders <- MCOrders
    Payloads <- MCPayloads
    Placements <- MCPlacements
    MaxPlacements = 3
    MaxCancels = 1
    Funds <- MCFunds
    TransferAmounts = {4}
    MaxAmount = 4
    MaxSlot = 2
INVARIANTS
    ChainWithinBook
    GoodRequestsNeedOnlyFunds
    DomainRuleAgrees
CHECK_DEADLOCK FALSE
