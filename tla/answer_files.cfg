SPECIFICATION FilesSpec
CONSTANTS
  a = a
  b = b
  c = c
  Jobs <- MCJobs
  Want <- MCWant
  Sizes <- MCSizes
  Budget = 3
INVARIANTS
  WithinBudget
  RefusedOnlyUnderPressure
  FailedAnswerLeavesNoFile
\* Every answer is given and every URL fetched: the handlers are done.
CHECK_DEADLOCK FALSE
