CONSTANTS
  Coro = {c1, c2}
  Thread = {t1, t2}
  Conn = {x1}
  Main = Main
  NoCoro = NoCoro
  NoThread = NoThread
  NoConn = NoConn
  MaxQuery = 1
  MaxBreak = 0
  MaxOutage = 1

SPECIFICATION FairSpec


CHECK_DEADLOCK FALSE

PROPERTIES
  Answered
