SPECIFICATION Spec
CONSTANTS
  slack = slack
  mail = mail
  zoho = zoho
  linear = linear
  f1 = f1
  f2 = f2
  shared = shared
  own = own
  none = none
  Flows = {f1, f2}
  Authorizers = {slack, mail, zoho, linear}
  Fixed = {slack, mail, zoho}
  Assignments <- MCAssignments
  PortOf <- MCPortOf
  NoFlow = none
INVARIANTS TypeOK PortReleased WaitingOnlyInFlow AnswerKept
PROPERTIES AnswerCounts CancelledReturnsOrHeldUp ImplementsConsent
