SPECIFICATION Spec
CONSTANTS
  Width = 7
  Height = 3
  Images <- MCImages
  Limit = 0
  PosNaN <- MCPosNaN
  NegNaN <- MCNegNaN
  MaxPixels = 8
  MaxStars = 2
INVARIANTS
  LabelsAreComponents
  StarsAreComponents
\* The extraction ends.
CHECK_DEADLOCK FALSE
