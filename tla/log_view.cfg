SPECIFICATION LogSpec
CONSTANTS
  Capacity = 2
  FileLimit = 2
  CheckEvery = 2
  Longest = 2
  MaxLines = 6
  MaxClears = 1
  MaxRuns = 2
INVARIANTS
  TabFollowsBuffer
  DisplayBounded
  ClearedStaysCleared
  FileAgreesWithBuffer
  FileBounded
\* The bounds end the run: MaxLines logged and MaxRuns started.
CHECK_DEADLOCK FALSE
