CONSTANTS
  Conn = {c1, c2}
  WriteLoop = {w1}
  Fd = {f1, f2}
  Pool = {t1}
  Main = Main
  NoCoro = NoCoro
  NoFd = NoFd
  MaxSend = 1
  MaxAwait = 1
  MaxWrite = 2

SPECIFICATION Spec
SYMMETRY Symmetry

CHECK_DEADLOCK FALSE

INVARIANTS
  TypeOK
  HandleOnce
  NoLostCoroutine
  NoMissedEdge
  NoStranded
