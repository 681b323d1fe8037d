SPECIFICATION CodesSpec
CONSTANTS
  Sample <- MCSample
  CodeTol = 3
  Errors <- MCErrors
INVARIANTS
  StoredLabellingIsTried
  CandidatesAreConsistent
\* The enumeration ends.
CHECK_DEADLOCK FALSE
