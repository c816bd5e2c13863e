\* Clients that come one by one, that reconnect while the last one is cleaned up
\* after, or that use their control channel early or late; two fingers; six keys.
SPECIFICATION MCSpec
CONSTANTS
  MaxSessions = 2
  Configs = {1, 2}
  Manners = {{}, {"eager"}, {"alone", "early", "silent"}}
  Platforms = {"linux", "windows", "macos"}
  Fingers = {"f", "g"}
  TouchSlots = {0, 9}
  WireSize = 2
  OutputSize = 3
  Origin = 2
  Threshold = 1
  Nobody = Nobody
  MaxGestures = 2
  MaxTouchEnds = 1
  KeyHosts = {"linux", "windows", "macos"}
  Keys = {9, 70, 80, 224, 225, 226}
  KeyQueue = 2
  MaxPresses = 3
  MaxToggles = 2
INVARIANTS EndpointsTypeOK RemovedOnDisconnect ContactsAgree GesturesBalance KeysAreTold
PROPERTIES LoopbackStops PoliteIsForwarded
CHECK_DEADLOCK FALSE
