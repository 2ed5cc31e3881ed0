SPECIFICATION PairingSpec
CONSTANTS
    MaxRegistrations = 2
    MaxMail = 3
    MaxFaults = 1
INVARIANT PeersInv
PROPERTY ConsentFirst
PROPERTY Connects
CHECK_DEADLOCK FALSE
