CONSTANTS
  Services = {}
  Strangers = {}
  NumHosts = 2
  Reachable = {2}
  Schedule <- OneEach
  RetryWidth = 4
  MaxDispatches = 1
  MaxPending = 1
  FromFile = {}
  Troubles = {"login", "broken", "silent"}
  MaxTroubles = 1
  MaxAsks = 1
  MayStop = TRUE
SPECIFICATION FairSpec
PROPERTIES LiveAgain SilenceNoticed StopEnds AskAnswered
CHECK_DEADLOCK FALSE
