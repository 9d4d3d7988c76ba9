SPECIFICATION Spec
CONSTANTS
  Peers = {b1, b2}
  NoEntry = NoEntry
  MaxWrites = 2
  MaxBreaks = 1
  Sockets = {k1, k2}
  NoSocket = NoSocket
  Clients = {c1}
  Insts = {i1}
  MaxProcs = 3
  Leaves = {l1, l2}
  SurfaceIds = {s1}
  Titles = {t1, t2}
  NoSurface = NoSurface
  MaxEdits = 4
  Agents = {a1, a2}
  Labels = {x, y}
  NoAgent = NoAgent
  MaxIds = 2
  MaxSockets = 3
  NumDirs = 2
  ExtIds = {e1, e2}
  MaxDiskEdits = 1
  MaxScans = 2
  NoDir = NoDir
  Pages = {g1, g2}
  MaxTerminals = 2
  MaxSurfaces = 2
  MaxPageEdits = 2
  LeafViewers = {w1}
  HubViewers = {w2}
  MaxChunks = 3
  MaxReplay = 2
  MaxReconnects = 1
  MaxCuts = 2
  MaxAgents = 1
  MaxInsts = 5
  MaxLinks = 2
  MaxShared = 2
  MaxStarts = 1
INVARIANTS
  NodesAgree
  RelaysAgree
  ShellsFound
  
  ReportIsTrue
SYMMETRY PairSymmetry
CHECK_DEADLOCK FALSE
