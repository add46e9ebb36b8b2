SPECIFICATION Spec
CONSTANTS
    Prices = {1, 2}
    Quantities = {1, 2}
    Traders = {"alice", "bob"}
    BaseAsset = "base"
    QuoteAsset = "quote"
    MaxAmount = 6
    Calls = {"depA", "more", "bid", "stop"}
    CommandOf <- MCCommandOf
    MailboxCapacity = 1
    MaxAppendFailures = 0
    MaxCrashes = 1
INVARIANTS
    ReplayNeverFails
CHECK_DEADLOCK FALSE
