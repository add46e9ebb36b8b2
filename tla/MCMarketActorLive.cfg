SPECIFICATION FairSpec
CONSTANTS
    Prices = {1, 2}
    Quantities = {1, 2}
    Traders = {"alice", "bob"}
    BaseAsset = "base"
    QuoteAsset = "quote"
    MaxAmount = 6
    Calls = {"depA", "more", "bid", "snap", "stop"}
    CommandOf <- MCCommandOf
    MailboxCapacity = 1
    MaxAppendFailures = 1
    MaxCrashes = 1
PROPERTIES
    CallsEnd
CHECK_DEADLOCK FALSE
