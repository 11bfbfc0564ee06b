SPECIFICATION PromisesSpec
CONSTANTS
    Runnable <- EndingLoops
    MaxTurns = 2
    Applications <- CollapsingPrograms
    Longest = 5
    Schemas <- NamedSchemas
    Lengths = {2}
    MostTexts = 2
    MaxUnits = 127
    MaxWide = 32767
    MaxScale = 2
    RatioScale = 2
    Held <- FewHeld
    Wants <- NoWants
    Numbers <- Numbered
    Undeclared = 1
    MaxForms = 2
    Deployables <- MonthlyOnly
    Twin <- MCTwin
    Alphabet <- MCAlphabet
    MaxSteps = 1
INVARIANT SomePromiseIsKept
CHECK_DEADLOCK FALSE
