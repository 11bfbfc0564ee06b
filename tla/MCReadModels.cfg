SPECIFICATION ReadModelsSpec
CONSTANTS
    NoValue = "none"
    KeysOf <- MCKeysOf
    Events <- MCEvents
    Programs <- MCPrograms
    MaxLog = 3
    MaxRebuilds = 1
    Ways <- MCWays
    Projectors <- MCProjectors
    Landing <- MCLanding
    Entities <- MCEntities
    Ancestors <- SubjectAncestors
    NoSubject = "no one"
    MaxCount = 2
    MaxWrapDepth = 2
    MaxRecords = 4
    MaxErased = 1
    MaxUnits = 127
    MaxWide = 32767
    MaxScale = 2
    RatioScale = 2
    Binds <- MCBinds
    Shapes <- MCShapes
    Fns <- PlainFns
    FoldTypes <- MCFoldTypes
    Positions <- MCPositions
    Carried <- MCCarried
    MostParts = 2
    MostRecords = 2
INVARIANTS
    ColumnsAreDefined
    PinnedColumnsRefold
    RebuildsAnswer
    GatesStayLive
    MintedAsStored
    RebuildsTheSame
    IdsComeFromTheLog
    ContentIsUnderItsSubject
PROPERTIES WritesNothingGone
CHECK_DEADLOCK FALSE
