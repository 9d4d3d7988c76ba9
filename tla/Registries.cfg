SPECIFICATION MCSpec
CONSTANTS
  NumApps = 2
  Puts = {p1, p2}
  Apps = {a, b}
  Ids = {x, y, logs}
  HostId = logs
  OwnId = x
  OwnApp = a
  NoApp = NoApp
  Host = Host
  MaxSwitches = 1
  Atoms = {c, d}
  ItemIds = {i, j}
  MaxOffers = 3
  Keys = {k1, k2}
  Values = {v1}
  Default = Default
  None = None
  MaxEdits = 2
  MaxLoads = 1
  MaxFetches = 1
SYMMETRY MCSymmetry
INVARIANTS
  RegisteredAsEnabled
  MirrorsServer
  RegistriesHoldTheActive
  ShownAsDeclared
  EditsKept
