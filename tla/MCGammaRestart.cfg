SPECIFICATION Spec
CONSTANTS
  Programs <- HandPrograms
  Vars <- MCVars
  Inputs <- KnownInputs
  NaN = NaN
  Expressions <- MCExpressions
  Statements <- MCStatements
  Assemblies <- MCAssemblies
  StackSize = 12
  GosubSize = 6
  MaxRuns = 2
  MaxPushed = 0
PROPERTY RunStartsWhereAsked
CHECK_DEADLOCK FALSE
