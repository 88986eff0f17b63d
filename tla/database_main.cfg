\* Two threads, three operations, two closes by the application.
SPECIFICATION FairSpec
CONSTANTS
  Thread = {t1, t2}
  MaxOperations = 3
  MaxCloses = 2
  None = None
INVARIANTS OpenWhileReferenced ConfigurationsAgree
PROPERTIES WalNotEnabledOnAttached ClosedEventually
CHECK_DEADLOCK FALSE
