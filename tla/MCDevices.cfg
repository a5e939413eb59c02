SPECIFICATION Spec
CONSTANTS
  Cards = {c1, c2, c3}
  Codes = {r1, r2}
  Licenses = {l1}
  Machines = {m1, m2, m3}
  Clients = {s1, s2}
  Admins = {d1}
  NoLicense = NoLicense
  Days <- OneDay
  Limit <- OneDevice
  CodeLife = 1
  Requests = {"activate", "rebind", "renew", "generate", "set_permanent", "extend", "rebind-code", "unbind", "disable", "enable"}
  MaxClock = 1
  MaxExpiry = 2
SYMMETRY Symmetry
CHECK_DEADLOCK FALSE
INVARIANTS
  CodeUsedOnce
  DeviceLimit
  ServedIsBound
PROPERTIES
  DisableSticks
  RenewAddsDays
