SPECIFICATION ChatSpec
CONSTANTS
  Runs = {r1, r2}
  NoRun = NoRun
  MaxSends = 2
  MaxOutput = 2
INVARIANTS
  OneRun
CHECK_DEADLOCK FALSE
