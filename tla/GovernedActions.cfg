SPECIFICATION FairSpec
CONSTANTS
    report = report
    export = export
    Keys <- TwoKeys
    Gate <- TwoGates
    Lifetime = 1
    PassportExpiry = 1
    MaxMandates = 2
    MaxChanges = 2
    MaxTime = 1
    MaxFaults = 2
INVARIANT ActionsInv
PROPERTY ExecutesUnderAuthority
PROPERTY AuditedWhenServing
PROPERTY ApprovedIsSettled
CHECK_DEADLOCK FALSE
