SPECIFICATION MCSpec
CONSTANTS
  Names <- MCNames
  IndexOf <- MCIndexOf
  MaxSlots = 5
  MaxContexts = 7
  MaxFollowed = 4
CHECK_DEADLOCK FALSE
INVARIANTS
  TypeOK
  OwnChildren
  NothingLost
  CurrentStands
PROPERTIES
  OthersStay
  SaveLoadRestores
