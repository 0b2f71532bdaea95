\* The cleaner on a host west of Greenwich.
SPECIFICATION Spec
CONSTANTS
    d1 = d1
    d2 = d2
    d3 = d3
    s1 = s1
    s2 = s2
    Digest = {d1}
    Sender = {s1, s2}
    NoSender = NoSender
    Batch <- Batches
    Client = {c1, c2}
    Cleaner = Cleaner
    Main = Main
    NoThread = NoThread
    NoDigest = NoDigest
    MaxAge = 1
    TzOffset <- West
    MaxTime = 2
    MaxRows = 2
PROPERTY
    ExpiresOnlyOld
