\* A collection under every operation, overlapping values included.
SPECIFICATION Spec
CONSTANTS
    Coin <- Coins
    State = {"unspent", "confirmed"}
    MaxNodes = 4
INVARIANTS
    TypeOK
    LinksAgree
    StateIndexAgrees
    UnitsConserved
    ValidationExact
PROPERTY
    IsSequence
