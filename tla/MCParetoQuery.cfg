SPECIFICATION Spec
CONSTANTS
  Props <- MCProps
  LessIsBetter <- MCLessIsBetter
  Margin <- MCMargin
  Values <- MCValues
  Offers <- QueryOffers
  NaN = NaN
  Inf = Inf
  Commands <- QueryCommands
  UniqueFactors = {}
  QuerySpecs <- MCQuerySpecs
  TopLimit = 2
  FlagTop = 4
  MaxIds = 3
  MaxWork = 6
PROPERTIES
  QueryShowsUnmatched
  QueryNarrows
  UndoRestores
  LosesOnlyWhenDeep
