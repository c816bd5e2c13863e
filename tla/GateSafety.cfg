\* Two network sessions and one USB activation, every interleaving.
SPECIFICATION Spec
CONSTANTS
  IPs = {h1, h2}
  NoIp = none
  MaxSessions = 2
  MaxPlugs = 1
SYMMETRY HostSymmetry
INVARIANTS TypeOK ActiveIsBacked ClientKeepsFlag
