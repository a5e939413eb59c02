SPECIFICATION Spec
CONSTANTS
  Cards = {c1, c2}
  Workers = {w1, w2}
  None = None
  MaxLate = 1
  Faults = {"net", "crash", "disk", "read", "dpapi", "admin"}
INVARIANTS ActivatedIsKept AdmittedWasActive CatalogNeedsLicense NobodyStuck
CHECK_DEADLOCK FALSE
