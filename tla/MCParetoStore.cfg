SPECIFICATION Spec
CONSTANTS
  Props <- MCProps
  LessIsBetter <- MCLessIsBetter
  Margin <- MCMargin
  Values <- MCValues
  Offers <- MCOffers
  NaN = NaN
  Inf = Inf
  Commands <- StoreCommands
  UniqueFactors = {2}
  QuerySpecs = {}
  TopLimit = 2
  FlagTop = 2
  MaxIds = 3
  MaxWork = 3
INVARIANTS
  TypeOK
  SlotsDistinct
  NewcomersImprove
  BeatenAreGone
PROPERTIES
  AnswerDesignates
  Promise
  UniqueLeavesNoTwins
  UniqueKeepsTwin
  StarsKeepBest
