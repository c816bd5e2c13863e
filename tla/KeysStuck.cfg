\* Keys of one user whom nothing disturbs, with room for all in the queue.
SPECIFICATION KeySpec
CONSTANTS
  KeyHosts = {"linux", "windows", "macos"}
  Keys = {9, 224}
  KeyQueue = 6
  MaxPresses = 3
  MaxToggles = 0
INVARIANT NothingSticks
CHECK_DEADLOCK FALSE
