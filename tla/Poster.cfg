CONSTANTS
  p1 = p1
  p2 = p2
  None = None
  Posters = {p1, p2}
  OnStream = {p2}
  SharedThread = TRUE
  MaxPostId = 7
  MaxPublishes = 3
  MaxDisconnects = 1
SPECIFICATION Spec
INVARIANTS TypeOK AckReachesPost UnansweredIsKnown StaleIsMarked
PROPERTIES QuietOnceShut
CHECK_DEADLOCK FALSE
