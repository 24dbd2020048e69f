CONSTANTS
  l1 = l1
  l2 = l2
  l3 = l3
  A = A
  B = B
  s1 = s1
  s2 = s2
  s3 = s3
  None = None
  Listeners = {l1, l2, l3}
  Symbols = {A, B}
  SymbolOf <- TwoSymbols
  BadSource = {l3}
  Leavers = {l1, l3}
  Subs = {s1, s2}
  NumStreamIds = 3
  MaxPending = 1
  CounterWidth = 8
  MaxDisconnects = 0
  MaxWire = 1
  StreamStates = {"ok"}
  SendOutcomes = {"sent"}
  Decodes = {TRUE}
  SendRecap = TRUE
  StartStreamID = 16
SPECIFICATION Spec
INVARIANTS ThrottleBound ResponseReachesItem
CHECK_DEADLOCK FALSE
