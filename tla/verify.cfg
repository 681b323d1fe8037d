SPECIFICATION Spec
CONSTANTS
  Skies <- MCSkies
  Fields <- MCFields
  Width = 6
  Wcs <- MCWcs
  Band <- MCBand
  Near <- MCNear
  Reach <- MCReach
  Margin <- MCMargin
  Odds <- MCOdds
  Miss = 1
  Cap = 2
  Hopeless = 1
  Accept = 4
  MinMatches = 3
  MinPairs = 2
  MaxField = 4
INVARIANTS
  SolutionIsSupported
  TrueWcsIsKept
\* The guess is decided.
CHECK_DEADLOCK FALSE
