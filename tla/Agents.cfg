SPECIFICATION AgentsSpec
CONSTANTS
  Runs = {r1, r2}
  NoRun = NoRun
  MaxSends = 2
  MaxOutput = 1
  Browsers = {b1, b2}
  BufferCap = 2
  MaxInputs = 2
  MaxSubs = 2
  MaxShells = 4
  MaxLosses = 2
  MaxHosts = 3
  MaxRequests = 4
  MaxRespawns = 1
  MaxChanges = 2
  MaxEvents = 4
INVARIANTS
  TurnsAreOwed
  SubscribersAgree
  ShellsKnown
  HostIsCurrent
PROPERTIES
  Settles
CHECK_DEADLOCK FALSE
