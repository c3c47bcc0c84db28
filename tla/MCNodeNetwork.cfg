SPECIFICATION MCSpec
CONSTANTS
  Base = base
  n1 = n1
  n2 = n2
  n3 = n3
  Nodes <- MCNodes
  Kids = {k1, k2}
  Items = 2
  Codes = {"leaf"}
  MaxCrashes = 1
CHECK_DEADLOCK FALSE
INVARIANTS
  TypeOK
  KnowsOthers
  NewsSpreads
  ReleasedKnowsSomeone
PROPERTIES
  JoinReturns
  RunsTasksOnce
