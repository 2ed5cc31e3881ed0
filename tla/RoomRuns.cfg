SPECIFICATION RoomSpec
CONSTANTS
    r1 = r1
    r2 = r2
    Runs <- TwoRuns
    Steps = 2
    MaxActive = 1
    MaxToggles = 1
    MaxFailures = 1
SYMMETRY RunSymmetry
INVARIANT SlotsInv
INVARIANT SucceededIsEvidenced
INVARIANT PublishedOnce
PROPERTY OutcomeStays
CHECK_DEADLOCK FALSE
