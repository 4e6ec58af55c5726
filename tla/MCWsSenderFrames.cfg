CONSTANTS
  Reader = Reader
  History = {h1}
  Loop = Loop
  Nobody = Nobody
  Size = 2
  Room = 3
  MaxFrame = 2

SPECIFICATION Spec

CHECK_DEADLOCK FALSE

INVARIANTS
  FramesWhole
