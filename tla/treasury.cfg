SPECIFICATION Spec
CONSTANTS
    owner1 = owner1
    registry = registry
    Accounts <- MCAccounts
    Owner = owner1
    Registry = registry
    Heirs = {registry}
    Refusers <- MCRefusers
    Roots = {r1, r2}
    None = None
    Payments <- MCPayments
    Prices <- MCPrices
    Expiries <- MCExpiries
    Period = 2
    TIMELOCK = 1
    UNLOCK_WINDOW = 2
    MaxTime = 6
    MaxNow = 3
    MaxReceived = 2
    MaxNotices = 3
SYMMETRY RootSymmetry
CHECK_DEADLOCK FALSE
INVARIANTS
    TypeOK
    MoneyAccounted
    PaidTimeExact
    WithdrawalsAnnounced
