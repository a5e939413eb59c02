SPECIFICATION Spec
CONSTANTS
  Tasks = {t1}
  Accounts = {a1, a2}
  AnyAccount = AnyAccount
  None = None
  MaxRequeues = 1
  MaxRestarts = 1
  MaxBatch = 1
  MaxCalls = 1
  Faults = {"catalog", "state", "shutdown"}
SYMMETRY Symmetry
INVARIANTS
  RunningHasAttempt
  AttemptsBounded
  CancelReachesRunner
PROPERTIES
  ImplementsSlots
