SPECIFICATION MCFoldSpec
CONSTANTS
    MaxUnits = 127
    MaxWide = 32767
    MaxScale = 2
    RatioScale = 2
    Binds <- MCBinds
    Shapes <- MCShapes
    Fns <- AllFns
    FoldTypes <- MCFoldTypes
    Positions <- MCPositions
    Carried <- MCCarried
    MostParts = 2
    MostRecords = 2
INVARIANTS ContentIsUnderItsSubject
CHECK_DEADLOCK FALSE
