SPECIFICATION Spec
CONSTANTS
  Programs <- ArgumentPrograms
  Vars <- MCVars
  Inputs <- KnownInputs
  NaN = NaN
  Expressions <- MCExpressions
  Statements <- MCStatements
  Assemblies <- MCAssemblies
  StackSize = 12
  GosubSize = 6
  MaxRuns = 1
  MaxPushed = 0
PROPERTY CompiledMeansSource
CHECK_DEADLOCK FALSE
