SPECIFICATION Spec
CONSTANTS
  NumApps = 1
  Puts = {p1}
INVARIANTS
  HotReload
