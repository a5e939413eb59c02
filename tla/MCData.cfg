SPECIFICATION Spec
CONSTANTS
  n1 = n1
  n2 = n2
  Names <- TwoNames
  Profile = Profile
  Metadata = Metadata
  None = None
  Torn = Torn
  Roots = 2
  Holdings <- Overlapping
  MaxStarts = 2
  MaxFaults = 1
  Uploads = {u1, u2}
SYMMETRY Symmetry
INVARIANTS TagsFollow
PROPERTIES NothingLost MigratedIsWhole
CHECK_DEADLOCK FALSE
