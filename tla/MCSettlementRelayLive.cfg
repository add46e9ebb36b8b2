SPECIFICATION FairSpec
CONSTANTS
    Market = "market"
    Placements <- MCLivePlacements
    Payloads <- MCLivePayloads
    MaxAttempts = 2
    MaxSubmits = 2
    BatchLimit = 1
    MaxCrashes = 1
    MaxDbFailures = 1
PROPERTIES
    RowsConclude
CHECK_DEADLOCK FALSE
