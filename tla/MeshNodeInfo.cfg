SPECIFICATION Spec
CONSTANTS
  Local = l
  Remote = {b}
  NoNode = NoNode
  MaxCalls = 2
  MaxMoves = 1
  MaxFaults = 0
INVARIANTS
  InfoIsOfEntered
