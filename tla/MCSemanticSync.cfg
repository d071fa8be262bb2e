SPECIFICATION FairSpec
CONSTANTS
    Convs = {1, 2}
    a = a
    b = b
    Texts = {a, b}
    Blank = Blank
    Corrupt = Corrupt
    None = None
    Size <- SizeMC
    First <- FirstMC
    Bytes <- BytesMC
    BatchSizes = {2, 3}
    Threshold = 2
    MaxWrites = 2
    MaxFaults = 1
INVARIANTS TypeOK NothingHidden PendingIsHonest
PROPERTIES EventuallyStored ComesToRest
