SPECIFICATION MCSpec
CONSTANTS
    Admins = {root, other}
    Authorities = {k1, k2, k3}
    TokenAccounts = {t1, t2}
    Amounts = {1, 2}
    Caps = {0, 3}
    Limits = {0, 1, 3}
    MaxAmount = 4
    Keys = {k1, k2, k3}
    AskedAmounts = {0, 2, 3}
    MaxRequests = 2
    MaxActions = 5
SYMMETRY MCSymmetry
INVARIANTS
    SupplyAccounted
    TokensCovered
    VaultMatchesRequests
    LogTellsDecisions
    LogTellsAdmins
PROPERTIES
    RetiredNeverIssues
    ImplementsReference
    RedemptionImplementsReference
CHECK_DEADLOCK FALSE
