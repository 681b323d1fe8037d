SPECIFICATION Spec
SYMMETRY WaitingSymmetry
CONSTANTS
  a = a
  b = b
  c = c
  V1 <- MCV1
  Nova <- MCNova
  Capacity = 1
INVARIANTS
  IdsNeverShared
  NoJobLost
  AnswerIsTrue
PROPERTIES
  OutcomeIsFinal
  KeepsPromise
\* Every request may be answered and the worker idle or dead: the system stops.
CHECK_DEADLOCK FALSE
