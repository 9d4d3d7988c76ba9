SPECIFICATION Spec
CONSTANTS
  Pages = {p, q}
  Ports = {9090, 8080}
  CorePort = 9090
  NoPort = 0
  MaxSpawns = 2
  MaxChanges = 2
  Users = {u, v}
  Handlers = {1, 2}
  Passwords = {"x", "y"}
  NoUser = NoUser
  MaxSecrets = 2
  MaxCrashes = 1
  Panels = {u, v}
  MaxInstalls = 2
  MaxVanish = 1
  NoRun = NoRun
  Chats = {c}
  Clicks = {1, 2}
  RunIds = {1, 2}
  NoChat = NoChat
  MaxDowns = 1
INVARIANTS
  StreamFollowsCalls
  SessionsHold
  OutcomesAreTheirOwn
  RunsAreKnown
PROPERTIES
  TargetSurvivesRestart
CHECK_DEADLOCK FALSE
