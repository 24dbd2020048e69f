CONSTANTS
  l1 = l1
  l2 = l2
  l3 = l3
  A = A
  B = B
  s1 = s1
  s2 = s2
  s3 = s3
  None = None
  Listeners = {l1, l2, l3}
  Symbols = {A, B}
  SymbolOf <- TwoSymbols
  BadSource = {}
  Leavers = {}
  Subs = {s1, s2}
  NumStreamIds = 2
  MaxPending = 3
  CounterWidth = 8
  MaxDisconnects = 1
  MaxWire = 0
  StreamStates = {"ok"}
  SendOutcomes = {"sent"}
  Decodes = {TRUE}
  SendRecap = TRUE
  StartStreamID = 16
SPECIFICATION FairSpec
PROPERTIES ImageInDueCourse Recovery
CHECK_DEADLOCK FALSE
