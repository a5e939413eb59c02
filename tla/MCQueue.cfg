SPECIFICATION Spec
CONSTANTS
  Tasks = {t1, t2, t3}
  Accounts = {a1}
  AnyAccount = AnyAccount
  None = None
  MaxRequeues = 1
  MaxRestarts = 0
  MaxBatch = 2
  MaxCalls = 1
  Faults = {"login", "lapse"}
SYMMETRY Symmetry
INVARIANTS
  NoTaskLost
  NoAccountLost
  ProfileExclusive
  NoLostWakeup
PROPERTIES
  NoOvertaking
