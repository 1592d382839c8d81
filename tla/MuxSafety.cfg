SPECIFICATION Spec
CONSTANTS
  cmd = cmd
  web = web
  exec = exec
  oauth = oauth
  s1 = s1
  s2 = s2
  none = none
  Backends <- WebOAuth
  Kind <- MCKind
  SessionIds = {s1, s2}
  NoSession = none
  Modes <- EveryMode
INVARIANTS TypeOK NoNilSession NoOrphanSession CleanExit
PROPERTIES ShutdownDescends ImplementsLife
