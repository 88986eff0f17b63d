CONSTANTS
  t1 = t1  t2 = t2
  n1 = n1  n2 = n2
  ta = ta  tb = tb  tc = tc
  r1 = r1
  former = former  one = one  two = two
  None = None
  Thread = {t1, t2}
  Name = {n1, n2}
  Table = {ta, tb, tc}
  Row = {r1}
  Schema = {former, one, two}
  New = 2
  CreateSqls <- CreatesOf
  EndsWith <- NameSuffixes
  Updates <- UpdatesOf
  Deletes <- DeletesOf
  Firsts <- FirstFiles
  Instances = 4
  Helpers = 5
  MaxFaults = 1
  MaxCalls <- TwiceAndOnce
  Faults = {"open", "busy", "create", "copy", "restore", "drop", "commit", "crash"}
SPECIFICATION Spec
SYMMETRY Symmetry
CONSTRAINT FewerCalls
INVARIANTS UpgradeKeepsRows VersionMeansSchema HandedIsUpgraded
CHECK_DEADLOCK FALSE
