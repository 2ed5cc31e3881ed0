CONSTANTS
    w1 = w1
    w2 = w2
    Writers <- TwoWriters
    MaxEvents = 3
    MaxFaults = 2
    MaxDamage = 1
SPECIFICATION FairSpec
INVARIANT HistoryInv
PROPERTY EveryAppendSettles
PROPERTY RefinesLog
CHECK_DEADLOCK FALSE
