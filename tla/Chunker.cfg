SPECIFICATION Spec
CONSTANTS
  Target = 3
  Overlap = {0, 1, 2}
  Bodies <- MCBodies
CHECK_DEADLOCK FALSE
INVARIANTS
    EveryPieceOnce
    SectionsAreTrue
    FilledToTarget
    OverlapIsContext
