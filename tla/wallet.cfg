\* One account that cleans up before it receives a value again.
SPECIFICATION DisciplinedSpec
CONSTANTS
    LastUnit = 3
    Coin <- Coins
    MaxAmount = 2
    MaxRequests = 2
    MaxCalls = 3
    MaxNodes = 4
INVARIANTS
    TypeOK
    StateIndexExact
    Partition
    PaysExactly
    NotPledgedTwice
    CommittedExactly
    SpendableOwned
    TransactionsVerify
