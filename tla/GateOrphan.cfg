\* Two network sessions, or one against a USB activation, under fairness.
SPECIFICATION MCFairSpec
CONSTANTS
  IPs = {h1}
  NoIp = none
  MaxSessions = 2
  MaxPlugs = 1
PROPERTIES OrphanFlagClears GateIsFreed
