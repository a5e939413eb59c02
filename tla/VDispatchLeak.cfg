SPECIFICATION FairSpec
CONSTANTS
  Tasks = {t1}
  Accounts = {a1}
  AnyAccount = AnyAccount
  None = None
  MaxRequeues = 1
  MaxRestarts = 0
  MaxBatch = 1
  MaxCalls = 1
  Faults = {"catalog", "timeout"}
PROPERTIES
  NeverStuckQueued
