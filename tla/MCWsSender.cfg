CONSTANTS
  Reader = Reader
  History = {h1}
  Loop = Loop
  Nobody = Nobody
  Size = 2
  Room = 3
  MaxFrame = 3

SPECIFICATION Spec

CHECK_DEADLOCK FALSE

INVARIANTS
  TypeOK
  QueueServed

PROPERTIES
  KeepsStream
