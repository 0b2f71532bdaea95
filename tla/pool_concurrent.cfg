\* Two client threads, the cleaner, crashes and database faults.
SPECIFICATION Spec
CONSTANTS
    d1 = d1
    d2 = d2
    d3 = d3
    s1 = s1
    s2 = s2
    Digest = {d1, d2, d3}
    Sender = {s1, s2}
    NoSender = NoSender
    Batch <- Batches
    Client = {c1, c2}
    Cleaner = Cleaner
    Main = Main
    NoThread = NoThread
    NoDigest = NoDigest
    MaxAge = 1
    TzOffset = 0
    MaxTime = 2
    MaxRows = 4
SYMMETRY Symmetry
INVARIANTS
    TypeOK
    IndexConsistent
    NothingResurrected
    ReloadDistinct
PROPERTIES
    ExpiresOnlyOld
