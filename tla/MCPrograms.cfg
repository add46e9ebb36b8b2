SPECIFICATION MCSpec
CONSTANTS
    Admins = {root, chief}
    Users = {u1, u2}
    Amounts = {0, 1, 2}
    MaxLimits = {0, 1, 2}
    DailyLimits = {0, 1, 3}
    MaxAmount = 3
    MaxDay = 3
    k1 = k1
    k2 = k2
    usd = usd
    eur = eur
    Keys = {k1, k2}
    Tokens = {usd, eur}
    Messages <- MCMessages
    MessageLimits = {0, 2}
    Chains = {1, 2}
    MaxLog = 3
    Rent = 2
    Wallet = 5
    VaultAmounts = {0, 1, 2}
    VaultLimits = {0, 1, 3}
SYMMETRY MCSymmetry
INVARIANTS
    TodayCountsCalls
    OncePerMessage
    DepositsClaimable
PROPERTIES
    DailyLimitHeld
CHECK_DEADLOCK FALSE
