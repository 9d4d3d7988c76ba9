SPECIFICATION Safe
CONSTANTS
  Streams = {s1, s2}
  NoStream = NoStream
  MaxAttempts = 2
  MaxProbes = 2
  MaxHealthCalls = 2
PROPERTIES
  SkipsOnlyWhenScheduled
