SPECIFICATION Spec
CONSTANTS
    Market = "market"
    Placements <- MCLivePlacements
    Payloads <- MCReplacedPayloads
    MaxAttempts = 2
    MaxSubmits = 2
    BatchLimit = 2
    MaxCrashes = 1
    MaxDbFailures = 1
INVARIANTS
    FailedHasNotSettled
CHECK_DEADLOCK FALSE
