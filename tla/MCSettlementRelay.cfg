SPECIFICATION Spec
CONSTANTS
    Market = "market"
    Placements <- MCPlacements
    Payloads <- MCPayloads
    MaxAttempts = 2
    MaxSubmits = 1
    BatchLimit = 1
    MaxCrashes = 1
    MaxDbFailures = 1
INVARIANTS
    FillSettlesOnce
    SubmittedHasSettled
    IdsCollideOnlyAcrossRestarts
    OutboxHoldsPrefixOfBatch
CHECK_DEADLOCK FALSE
