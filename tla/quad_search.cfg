SPECIFICATION Spec
CONSTANTS
  Fields <- MCFields
  Indexes <- MCIndexes
  Band <- MCBand
  MinBackbone = 1
  Diagonal = 3
  MaxQuadStars = 5
  CircleSlack = 142
INVARIANTS
  BrightestFirst
  NoneIsExhaustive
PROPERTIES
  NeverTwice
\* The search ends.
CHECK_DEADLOCK FALSE
