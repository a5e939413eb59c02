SPECIFICATION FairSpec
CONSTANTS
  Outputs = {o1}
  Uploads = {u1}
  MaxRetries = 1
  Navigations = 2
  Limit = 2
  ZeroLimit = 1
  Grace = 1
  Faults = {"snapshot", "popup", "sidebar", "dialog"}
INVARIANTS InputsAreNew ResultIsOwn OneCloudTask CloudIsReleased
PROPERTIES RunEnds
CHECK_DEADLOCK FALSE
