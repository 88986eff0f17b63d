CONSTANTS
  s1 = s1  s2 = s2
  c1 = c1  c2 = c2
  d1 = d1  d2 = d2
  None = None
  Session = {s1, s2}
  Conn = {c1}
  Primary = c1
  Data = {d1}
  Begins <- ListenedAndNot
  Faults = {"busy"}
  MaxNesting = 2
  MaxRunning = 1
SPECIFICATION Spec
INVARIANTS OwnTransactionState
CHECK_DEADLOCK FALSE
