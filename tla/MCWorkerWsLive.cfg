CONSTANTS
  Conn = {c1, c2}
  WriteLoop = {w1}
  Fd = {f1, f2}
  Pool = {t1}
  Main = Main
  NoCoro = NoCoro
  NoFd = NoFd
  MaxSend = 1
  MaxAwait = 0
  MaxWrite = 1

SPECIFICATION FairSpec

CHECK_DEADLOCK FALSE

PROPERTIES
  CleanupReached
