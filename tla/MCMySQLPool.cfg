CONSTANTS
  Coro = {c1, c2}
  Thread = {t1, t2}
  Conn = {x1, x2}
  Main = Main
  NoCoro = NoCoro
  NoThread = NoThread
  NoConn = NoConn
  MaxQuery = 1
  MaxBreak = 1
  MaxOutage = 1

SPECIFICATION FairSpec

CHECK_DEADLOCK FALSE

INVARIANTS
  TypeOK
  ConnOnce
  NoLostConnWakeup
  NoLostTaskWakeup
  ResultFirst

PROPERTIES
  AnsweredUnlessDrained
  Listens
