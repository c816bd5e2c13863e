\* A client that sends STNG and leaves before it streams.
SPECIFICATION Spec
CONSTANTS
  MaxSessions = 2
  MaxFaults = 0
PROPERTY SettingsAreClients
CHECK_DEADLOCK FALSE
