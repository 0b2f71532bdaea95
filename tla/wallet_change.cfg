\* Transactions with change are confirmed.
SPECIFICATION DisciplinedSpec
CONSTANTS
    LastUnit = 2
    Coin <- Coins
    MaxAmount = 2
    MaxRequests = 2
    MaxCalls = 2
    MaxNodes = 4
INVARIANT
    ConfirmedIsSpent
