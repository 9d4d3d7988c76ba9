SPECIFICATION Spec
CONSTANTS
  Local = l
  Remote = {b}
  NoNode = NoNode
  MaxCalls = 2
  MaxMoves = 2
  MaxFaults = 1
INVARIANTS
  TargetFollowsEntered
  PanelShowsNodeAsked
PROPERTIES
  BarCatchesUp
