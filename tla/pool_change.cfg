CONSTANTS
  t1 = t1  t2 = t2  t3 = t3
  w1 = w1  w2 = w2  w3 = w3
  c1 = c1  c2 = c2  c3 = c3  c4 = c4
  None = None
  Thread = {t1, t2}
  Waiter = {w1, w2}
  Conn = {c1, c2, c3}
  Configs <- AllConfigs
  Switches <- AnySwitch
  Requests <- PlainRequests
  WALConnectionPoolSize = 2
  Faults = {"open", "reconfigure"}
  MaxNonce = 0
SPECIFICATION Spec
SYMMETRY Symmetry
INVARIANTS ExclusiveOwnership SinglePrimary ConfigurationPropagates
CHECK_DEADLOCK FALSE
