SPECIFICATION ImpatientSpec
CONSTANTS
  cmd = cmd
  web = web
  exec = exec
  oauth = oauth
  s1 = s1
  s2 = s2
  none = none
  Backends <- Web
  Kind <- MCKind
  SessionIds = {s1, s2}
  NoSession = none
  Modes <- RetryMode
PROPERTY CloseReturns
