SPECIFICATION Spec
CONSTANTS
    Agents = {a1, a2}
    Newcomers = {a2}
    MaxItems = 2
    MaxMandates = 2
    MaxOps = 4
    MaxFaults = 1
INVARIANT RecordsInv
INVARIANT FloorShowsPassports
INVARIANT FloorKeepsWork
CHECK_DEADLOCK FALSE
