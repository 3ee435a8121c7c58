CONSTANTS
    Objs = {1, 2, 3}
    Links <- MCLinks
    Conditions <- MCConditions
    Selections <- MCSelections
    Inputs = 2
    Null = Null
    MaxClosure = 3
SPECIFICATION FairSpec
INVARIANTS
    ClosureExact
    OutputExact
PROPERTIES
    Terminates
CHECK_DEADLOCK FALSE
