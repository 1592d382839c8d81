SPECIFICATION Spec
CONSTANTS
  a = a
  b = b
  c1 = c1
  c2 = c2
  c3 = c3
  Labels = {a, b}
  Callers = {c1, c2, c3}
  LabelOf <- MCLabelOf
  NoCaller = NoCaller
  Sharings <- MCSharings
  MaxGen = 2
INVARIANTS TypeOK FileFollowsSource
PROPERTIES NoLostUpdate EventuallyPersisted
