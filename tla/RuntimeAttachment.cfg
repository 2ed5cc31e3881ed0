SPECIFICATION AttachmentSpec
CONSTANTS
    Terminals = {t1}
    Clients = {c1, c2}
    KeptOwn = 2
    KeptAll = 2
    MaxCalls = 2
    MaxTurns = 1
SYMMETRY Symmetry
INVARIANT TerminalsInv
INVARIANT ClientsInv
CHECK_DEADLOCK FALSE
