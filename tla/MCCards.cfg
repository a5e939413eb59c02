SPECIFICATION Spec
CONSTANTS
  Cards = {c1, c2}
  Codes = {}
  Licenses = {l1, l2}
  Machines = {m1}
  Clients = {s1, s2}
  Admins = {d1, d2}
  NoLicense = NoLicense
  Days <- OneDay
  Limit <- OneDevice
  CodeLife = 1
  Requests = {"activate", "generate", "disable card", "enable card", "void card", "disable", "enable", "check"}
  MaxClock = 1
  MaxExpiry = 2
SYMMETRY Symmetry
CHECK_DEADLOCK FALSE
INVARIANTS
  CardUsedOnce
