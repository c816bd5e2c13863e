\* Two clients on one address, one of which pairs anew when it is refused; two faults.
SPECIFICATION PairSpec
CONSTANTS
    Clients = {c1, c2}
    Retrying = {c2}
    Endpoints = {e1}
    MaxPairings = 2
    MaxFaults = 2
INVARIANTS PairTypeOK SessionKeysAgree OkIsDurable UnpairedStaysOut
PROPERTY HandshakeEnds
CHECK_DEADLOCK FALSE
