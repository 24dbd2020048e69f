CONSTANTS
  l1 = l1
  l2 = l2
  l3 = l3
  A = A
  B = B
  s1 = s1
  s2 = s2
  s3 = s3
  None = None
  Listeners = {l1}
  Symbols = {A}
  SymbolOf <- OneSymbol
  BadSource = {}
  Leavers = {l1}
  Subs = {s1}
  NumStreamIds = 2
  MaxPending = 1
  CounterWidth = 8
  MaxDisconnects = 1
  MaxWire = 1
  StreamStates = {"ok", "suspect", "nochange", "closed", "closedRecover", "preempted", "nonstreaming"}
  SendOutcomes = {"sent", "noBuffer", "notEncoded", "failed"}
  Decodes = {TRUE, FALSE}
  SendRecap = TRUE
  StartStreamID = 16
SPECIFICATION Spec
INVARIANTS TypeOK
CHECK_DEADLOCK FALSE
