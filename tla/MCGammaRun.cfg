SPECIFICATION FairSpec
CONSTANTS
  Programs <- MCPrograms
  Vars <- MCVars
  Inputs <- MCInputs
  NaN = NaN
  Expressions <- MCExpressions
  Statements <- MCStatements
  Assemblies <- MCAssemblies
  StackSize = 12
  GosubSize = 6
  MaxRuns = 2
  MaxPushed = 1
  Plans <- MCPlans
INVARIANTS
  TypeOK
  IdleIsReady
  FramesNest
  CallLeavesOneNumber
  JumpsLinked
PROPERTIES
  CompiledMeansSource
  RunsEnd
CHECK_DEADLOCK FALSE
