SPECIFICATION LadderSpec
CONSTANTS
  orion = orion
  lyra = lyra
  crux = crux
  main = main
  guider = guider
  Fields <- MCFields
  Shapes <- MCShapes
  Indexes <- MCIndexes
  Wide <- MCWide
  Default <- MCDefault
  Hints <- MCHints
  Slots = 2
  Timeout = 8
  Slice = 2
  Efforts <- MCEfforts
  MaxSolves = 3
INVARIANTS
  OneSlotPerRig
  NoSolutionIsExhaustive
PROPERTY
  OtherRigsStay
\* MaxSolves images are solved: no more come.
CHECK_DEADLOCK FALSE
