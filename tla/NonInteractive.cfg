SPECIFICATION FairSpec
CONSTANTS
  Symbols = {"s1"}
  Troubles = {"refuse", "init", "select", "login", "broken", "silent"}
  MaxTroubles = 2
  MaxConnections = 4
INVARIANTS StateIsTrue
PROPERTIES DirectoryAgain
CHECK_DEADLOCK FALSE
