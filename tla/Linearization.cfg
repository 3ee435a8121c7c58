SPECIFICATION Spec
CONSTANTS
  Documents <- MCDocuments
  Size <- MCSize
  FrontReserve = 2
  HintReserve = 1
  Slack = 1
  StreamLengths = {1, 3}
  MaxTurns = 3
  NoBox = NoBox
CHECK_DEADLOCK FALSE
INVARIANTS
  LocationsAreTrue
  PagesAreKept
