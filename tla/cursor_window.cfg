CONSTANTS
  None = None
  Capacity = 3
  Sizes = {1, 2, 4}
  MaxRows = 4
  MaxChanges = 1
SPECIFICATION Spec
INVARIANTS TypeOK WindowContiguous RequiredRowCopied FillResult
CHECK_DEADLOCK FALSE
