SPECIFICATION MCSpec
CONSTANTS
  Streams = {s1, s2}
  NoStream = NoStream
  MaxAttempts = 2
  MaxProbes = 2
  MaxHealthCalls = 2
  MaxMessages = 6
  Sockets = {w1, w2, w3}
  NoSocket = NoSocket
  Calls = {c1}
  MaxLinks = 3
  Sessions = {s1, s2}
  NoSession = NoSession
  MaxBytes = 3
  MaxKeys = 4
  MaxIds = 2
  MaxLosses = 2
INVARIANTS
  OneLiveStream
  QuietAfterDisconnect
  NeverStranded
PROPERTIES
  ImplementsCoreLink
  RouteSettles
  ImplementsEventStream
  DirectSettles
  DirectImplementsCoreLink
  KeysArrive
  ArchivedPageAgrees
CHECK_DEADLOCK FALSE
