\* One network session alone, under fairness.
SPECIFICATION FairSpec
CONSTANTS
  IPs = {h1}
  NoIp = none
  MaxSessions = 1
  MaxPlugs = 0
PROPERTY SilentClientIsDropped
