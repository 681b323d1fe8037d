SPECIFICATION Spec
CONSTANTS
  Directories <- MCDirectories
  Bands <- MCBands
  Budget = 5
  Narrow = 1
  Broad = 1
  Queries <- MCQueries
  Radii = {0, 1, 2}
  MaxPrewarms = 2
INVARIANTS
  SearchIsExact
  ReadsStayInside
  BudgetWellSpent
\* A panic or an empty directory ends it.
CHECK_DEADLOCK FALSE
