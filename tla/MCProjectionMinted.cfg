SPECIFICATION ProjectionSpec
CONSTANTS
    Projectors <- MCProjectors
    Landing <- MovingOn
    Entities <- MCEntities
    Ancestors <- SubjectAncestors
    NoSubject = "no one"
    MaxCount = 2
    MaxWrapDepth = 2
    MaxRecords = 4
    MaxErased = 1
INVARIANT MintedAsStored
CHECK_DEADLOCK FALSE
