SPECIFICATION Spec
CONSTANTS
    Runnable <- RevealingReads
    MaxTurns = 2
INVARIANT NothingIsRevealedLate
CHECK_DEADLOCK FALSE
