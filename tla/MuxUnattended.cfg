SPECIFICATION UnattendedSpec
CONSTANTS
  cmd = cmd
  web = web
  exec = exec
  oauth = oauth
  s1 = s1
  s2 = s2
  none = none
  Backends <- ExecOAuth
  Kind <- MCKind
  SessionIds = {s1, s2}
  NoSession = none
  Modes <- RetryMode
PROPERTIES SelfHealing EventuallyUp
