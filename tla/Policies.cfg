\* Bases below, at and above the point where the product saturates, and streams
\* whose losses stop; operators' flags and clients' choices on either side of
\* every bound.
SPECIFICATION MCSpec
CONSTANTS
  U32Max <- MCU32Max
  Floor = 20
  Bases <- MCBases
  ShortWindow = 2
  LongWindow = 5
  MaxPli = 4
  Flags <- MCFlags
  Requests <- MCRequests
  Codecs = {0, 1}
INVARIANTS BitrateBounded SessionBounded CheckedIsHonoured
PROPERTIES RecoversToBase
CHECK_DEADLOCK FALSE
