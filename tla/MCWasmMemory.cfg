SPECIFICATION Spec
CONSTANTS
  PageSize = 4
  InitialPages = 2
  MaxPages = 8
  Sizes <- Lengths
  Nowhere = Nowhere
INVARIANTS
  TypeOK
  ReadsIntact
  RoomForReply
  TrapsOnlyWhenFull
PROPERTIES
  GrowsOnlyWhenShort
CHECK_DEADLOCK FALSE
