SPECIFICATION Spec
CONSTANTS
  Props <- MCProps
  LessIsBetter <- MCLessIsBetter
  Margin <- MCMargin
  Values <- MCValues
  Offers <- CompleteOffers
  NaN = NaN
  Inf = Inf
  Commands <- InsertAndQuery
  UniqueFactors = {}
  QuerySpecs <- MCQuerySpecs
  TopLimit = 2
  FlagTop = 2
  MaxIds = 3
  MaxWork = 6
PROPERTIES
  FrontNotEmpty
