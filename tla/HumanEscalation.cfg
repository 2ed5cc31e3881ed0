\* Two requests of one key or of two; two approvers and the requester; a quorum of one.
CONSTANTS
    operator = operator
    admin = admin
    auditor = auditor
    Requests = {q1, q2}
    Keys = {k1, k2}
    None = None
    Members <- MCMembers
    Requester = operator
    Quorum = 1
    MaxTroubles = 1
SPECIFICATION Spec
INVARIANT EffectOnce
INVARIANT FilesInv
PROPERTY RunsStandOnQuorum
SYMMETRY MCSymmetry
CHECK_DEADLOCK FALSE
