SPECIFICATION FairSpec
CONSTANTS
    Stream = Stream
    Nothing = Nothing
    Closed = Closed
    Writers = {"change", "add", "pack", "hybrid", "cycle", "damage"}
    MaxNumber = 6
    MaxVersion = 2
    MaxItems = 7
INVARIANTS
    NumbersAreFresh
PROPERTIES
    ImplementsRevisions
    WalkSettles
CHECK_DEADLOCK FALSE
