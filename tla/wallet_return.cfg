\* Values may come back before the spent ones are cleaned up.
SPECIFICATION Spec
CONSTANTS
    LastUnit = 2
    Coin <- Coins
    MaxAmount = 2
    MaxRequests = 2
    MaxCalls = 2
    MaxNodes = 4
INVARIANT
    NotPledgedTwice
