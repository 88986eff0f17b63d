CONSTANTS
  t1 = t1  t2 = t2  t3 = t3
  w1 = w1  w2 = w2  w3 = w3
  c1 = c1  c2 = c2  c3 = c3  c4 = c4
  None = None
  Thread = {t1, t2, t3}
  Waiter = {w1, w2, w3}
  Conn = {c1, c2, c3}
  Configs <- WalOnly
  Switches <- NoSwitch
  Requests <- MixedPriorities
  WALConnectionPoolSize = 2
  Faults = {}
  MaxNonce = 0
SPECIFICATION Spec
SYMMETRY Symmetry
INVARIANTS NoLostWakeup DequeuedIsUnparked QueueInOrder PoolSizeBound
PROPERTIES NoOvertaking GrantInOrder ImplementsContract
CHECK_DEADLOCK FALSE
