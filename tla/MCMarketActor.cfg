SPECIFICATION Spec
CONSTANTS
    Prices = {1, 2}
    Quantities = {1, 2}
    Traders = {"alice", "bob"}
    BaseAsset = "base"
    QuoteAsset = "quote"
    MaxAmount = 6
    Calls = {"depA", "retryA", "depB", "bid", "ask", "snap"}
    CommandOf <- MCCommandOf
    MailboxCapacity = 2
    MaxAppendFailures = 1
    MaxCrashes = 1
INVARIANTS
    AckedIsJournalled
    AckedOnce
    MemoryFollowsJournal
    SnapshotSeesAcknowledged
PROPERTIES
    OrdersReplayUnlessAppendLost
    ImplementsCommandLog
CHECK_DEADLOCK FALSE
