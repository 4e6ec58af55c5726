CONSTANTS
  General = General
  Rooms = {r}
  MaxCall = 2
  MaxToken = 2
  MaxSocket = 3
  MaxAct = 4
  MaxMishap = 1
  Names <- MCNames
  Texts <- MCTexts

SPECIFICATION FairSpec

CHECK_DEADLOCK FALSE

INVARIANTS
  TypeOK
  OneSocket
  RoomAgrees
  ShowsRoom
  ShownAsTyped

PROPERTY
  Reconnects
