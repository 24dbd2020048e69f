CONSTANTS
  Services = {"A"}
  Strangers = {}
  NumHosts = 2
  Reachable = {2}
  Schedule <- TwoThenOne
  RetryWidth = 4
  MaxDispatches = 2
  MaxPending = 2
  FromFile = {}
  Troubles = {"login", "directory", "dictionary", "down", "broken", "silent", "init"}
  MaxTroubles = 2
  MaxAsks = 1
  MayStop = FALSE
SPECIFICATION Spec
INVARIANTS EveryItemRequested PlacesComeBack LiveHasSource GoodNewsIsTrue
PROPERTIES KnownNotRefused
CHECK_DEADLOCK FALSE
