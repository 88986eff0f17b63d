CONSTANTS
  t1 = t1  t2 = t2  t3 = t3
  w1 = w1  w2 = w2  w3 = w3
  c1 = c1  c2 = c2  c3 = c3  c4 = c4
  None = None
  Thread = {t1, t2}
  Waiter = {w1, w2}
  Conn = {c1}
  Configs <- NoWal
  Switches <- NoSwitch
  Requests <- CancellablePrimary
  WALConnectionPoolSize = 1
  Faults = {"leak"}
  MaxNonce = 1
SPECIFICATION FairSpec
PROPERTIES CanceledRequestEnds ClosedPoolLetsGo EveryRequestAnswered
CHECK_DEADLOCK FALSE
