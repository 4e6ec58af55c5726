CONSTANTS
  Conn = {c1}
  WriteLoop = {}
  Fd = {f1}
  Pool = {t1}
  Main = Main
  NoCoro = NoCoro
  NoFd = NoFd
  MaxSend = 2
  MaxAwait = 1
  MaxWrite = 2

SPECIFICATION FairSpec

CHECK_DEADLOCK FALSE

PROPERTIES
  CleanupReached
  DataConsumed
