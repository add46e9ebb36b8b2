SPECIFICATION EngineSpec
CONSTANTS
    Prices = {1, 2, 3}
    Quantities = {1, 2}
    Traders = {"alice"}
    MaxOrders = 5
INVARIANTS
    BookNotCrossed
    QuantityConserved
    PriceTimePriority
CHECK_DEADLOCK FALSE
