CONSTANTS
    Missing = Missing
    MaxWrites = 5
    MaxAttempts = 3
    MaxFaults = 2
    owner = owner
    o1 = o1
    o2 = o2
    old = old
    Owner = owner
    Readers <- TwoReaders
    Legacy <- OldRecords
    MaxRecords = 2
SPECIFICATION LocalSpec
INVARIANT TypeOK
PROPERTY EveryWriteSettles
PROPERTY RefinesRegister
PROPERTY RecordsKept
CHECK_DEADLOCK FALSE
