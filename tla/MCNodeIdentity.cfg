SPECIFICATION TaskSpec
CONSTANTS
  Base = base
  n1 = n1
  n2 = n2
  n3 = n3
  Nodes <- MCNodes
  Kids = {k1, k2}
  Items = 1
  Codes = {"leaf", "nested"}
  MaxCrashes = 0
CHECK_DEADLOCK FALSE
PROPERTIES
  RepliesReachTheirCaller
