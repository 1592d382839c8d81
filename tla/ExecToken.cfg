SPECIFICATION Spec
CONSTANTS
  Callers = {c1, c2}
  NoCaller = none
  Ttl = 3
  Lifetimes = {1}
  Leeway = 1
  MaxTime = 3
  MaxRuns = 7
INVARIANTS TypeOK NoNeedlessRuns LeewayHolds
PROPERTIES CallReturnsOrOrphaned ImplementsCredential
