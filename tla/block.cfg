\* Blocks on a genesis block, their filters in use.
SPECIFICATION Spec
CONSTANTS
    b1 = b1
    b2 = b2
    b3 = b3
    b4 = b4
    b5 = b5
    b6 = b6
    b7 = b7
    b8 = b8
    alice = alice
    bob = bob
    Item = {alice, bob}
    Positions <- Bits
    Sender <- Senders
    Package <- Packages
    Miner = {alice}
    MaxBlocks = 3
INVARIANTS
    OneForm
    NoFalseNegative
    ParentPinned
    MembersProve
    OnlyMembersProve
