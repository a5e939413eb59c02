SPECIFICATION Spec
CONSTANTS
  Handlers = {h1, h2}
  MaxRequests = 4
INVARIANTS FreshShot NobodyWaitsInVain
CHECK_DEADLOCK FALSE
