SPECIFICATION FairSpec
CONSTANTS
  a = a
  b = b
  V1 <- MCV1
  Nova <- MCNova
  Capacity = 1
PROPERTIES
  AcceptedJobsFinish
  WaitingClientsAnswered
\* Every request may be answered and the worker idle or dead: the system stops.
CHECK_DEADLOCK FALSE
