SPECIFICATION MCSpec
CONSTANTS
  LocalId = n1
  LocalAlias = n0
  Nodes = {n0, n1}
  NoNode = NoNode
  Runs = {r}
  NoRun = NoRun
  NoPane = NoPane
  MaxPaneTabs = 2
  MaxPanes = 2
  MaxIds = 6
  MaxKept = 1
  Sessions = {s1, s2}
  NoSession = NoSession
  FromSeq = 2
  MaxChunks = 3
  MaxOutages = 1
INVARIANTS
  ActiveHasLayout
  LayoutIsWhole
  NoGap
PROPERTIES
  SavedLayoutsKept
  EditsPersist
CHECK_DEADLOCK FALSE
