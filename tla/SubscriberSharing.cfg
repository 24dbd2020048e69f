CONSTANTS
  l1 = l1
  l2 = l2
  l3 = l3
  A = A
  B = B
  s1 = s1
  s2 = s2
  s3 = s3
  None = None
  Listeners = {l1, l2, l3}
  Symbols = {A}
  SymbolOf <- OneSymbol
  BadSource = {}
  Leavers = {l1, l2}
  Subs = {s1, s2, s3}
  NumStreamIds = 2
  MaxPending = 2
  CounterWidth = 8
  MaxDisconnects = 0
  MaxWire = 0
  StreamStates = {"ok"}
  SendOutcomes = {"sent"}
  Decodes = {TRUE}
  SendRecap = TRUE
  StartStreamID = 16
SPECIFICATION Spec
INVARIANTS PendingClosesCounted StreamOwnership NoCallbackAfterDestroy
PROPERTIES StreamIdsKept
SYMMETRY SymmetryThree
CHECK_DEADLOCK FALSE
