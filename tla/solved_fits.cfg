SPECIFICATION FitsSpec
CONSTANTS
  NoValue = NoValue
  PerBlock <- MCPerBlock
  Names <- MCNames
  MaxRounds <- MCMaxRounds
  Edits <- MCEdits
  Uploads <- MCUploads
CHECK_DEADLOCK FALSE
INVARIANTS
  WcsIsOurs
  StillReadable
PROPERTY
  NothingElseTouched
