\* One queue waits for the other; no faults, a quorum of two.
CONSTANTS
    operator = operator
    admin = admin
    auditor = auditor
    Requests = {q1, q2}
    Keys = {k1, k2}
    None = None
    Members <- MCMembers
    Requester = operator
    Quorum = 2
    MaxTroubles = 0
SPECIFICATION Spec
PROPERTIES ResumeEnds
CHECK_DEADLOCK FALSE
