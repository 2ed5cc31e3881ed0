SPECIFICATION Spec
CONSTANTS
    lead = lead
    helper = helper
    read = read
    pay = pay
    share = share
    wipe = wipe
    invoice = invoice
    k1 = k1
    k2 = k2
    NoLimit = NoLimit
    Agents <- MCAgents
    Capabilities <- MCCapabilities
    PassportExpiry <- MCPassportExpiry
    Grants <- MCGrants
    Tracked <- ReportTypes
    Requests <- MCRequests
    MaxMandates = 2
    MaxDecisions = 2
    MaxTime = 2
    MaxFaults = 1
INVARIANT TypeOK
INVARIANT AuthorityNeverGrows
INVARIANT CascadeComplete
INVARIANT GatedNeedsHuman
INVARIANT EvidenceBacked
PROPERTY RevokedForever
PROPERTY NoAllowOnceRevoked
CHECK_DEADLOCK FALSE
