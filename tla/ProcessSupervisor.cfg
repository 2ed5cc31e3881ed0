SPECIFICATION FairSpec
CONSTANTS
    provider = provider
    probe = probe
    Runs <- MCRuns
    Probes <- MCProbes
    MaxCancels = 1
    MaxFaults = 1
INVARIANT ControlInv
INVARIANT OutcomeIsEvidenced
PROPERTY EveryRunSettles
CHECK_DEADLOCK FALSE
