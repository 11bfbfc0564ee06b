SPECIFICATION StaticSpec
CONSTANTS
    Runnable <- AllPrograms
    MaxTurns = 2
    Three = {a, b, c}
    Name = {a, b, c, x}
    Applications <- TriggerPrograms
    Longest = 5
    Schemas <- MCSchemas
    Lengths = {0, 1, 2, 3}
    MostTexts = 2
    MaxUnits = 127
    MaxWide = 32767
    MaxScale = 2
    RatioScale = 2
    Amounts <- MCAmounts
    Held <- MCHeld
    Wants <- MCWants
    Numbers <- Numbered
    Undeclared = 1
    MaxForms = 2
    Deployables <- MCDeployables
    Twin <- MCTwin
    Alphabet <- MCAlphabet
    MaxSteps = 2
INVARIANTS
    AcceptedBodiesRun OnlyTheOverlookedIsLate
    VerdictsHold
    LoopsAreRefused
    OnlyTheUntracedOutgrow
    AmountsHold
    AcceptedExpressionsRun SealsAreKnown
    RespellingsPackAlike NoChangeIsMissed SignaturesTellTheOutside
CHECK_DEADLOCK FALSE
