SPECIFICATION ConsoleSpec
CONSTANTS
  t1 = t1
  t2 = t2
  Tabs = {t1, t2}
  Layouts <- MCLayouts
  Runs = {r1, r2}
  NoRun = NoRun
  MaxRequests = 3
  MaxMoves = 2
  Terminals = {x1, x2}
  NoTerminal = NoTerminal
  MaxTouches = 3
  NumDirs = 4
  MaxFetches = 2
  MaxPickerMoves = 5
  Nodes = {n1, n2}
  Folders = {f1, f2}
  NoFolder = NoFolder
  MaxTreeMoves = 4
  Asked = {q1, q2}
  NoRequest = NoRequest
  MaxBreaks = 2
  MaxResponses = 2
  Chats = {c1, c2}
  NoChat = NoChat
  MaxTexts = 3
  MaxStops = 1
  MaxChatBreaks = 1
INVARIANTS
  ConsoleFollows
PROPERTIES
  TabsSettle
CHECK_DEADLOCK FALSE
