SPECIFICATION FairSpec
CONSTANTS
  MaxLogins = 2
  MaxEvents = 1
  MaxInput = 2
  MaxLate = 1
  Faults = {"exception", "crash", "timeout", "removal", "shutdown"}
INVARIANTS FrameNeedsSlider CompletedIsSaved NoStrayWorker
PROPERTIES ReapSettles LoginEnds
CHECK_DEADLOCK FALSE
