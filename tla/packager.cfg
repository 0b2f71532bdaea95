\* One packager beside a submitting client, the cleaner, crashes and faults.
SPECIFICATION PackSpec
CONSTANTS
    d1 = d1
    d2 = d2
    d3 = d3
    s1 = s1
    s2 = s2
    Digest = {d1, d2}
    Sender = {s1, s2}
    NoSender = NoSender
    Batch <- Batches
    Size <- Sizes
    Client = {c1, p1}
    Packager = {p1}
    Cleaner = Cleaner
    Main = Main
    NoThread = NoThread
    NoDigest = NoDigest
    MaxAge = 0
    TzOffset = 0
    MaxTime = 1
    MaxRows = 3
    MaxPerBlock = 1
    MaxBlocks = 2
    MaxCrashes = 1
INVARIANTS
    PackTypeOK
    PaidByAdmission
    ProcessedInBlock
    ChainInOrder
