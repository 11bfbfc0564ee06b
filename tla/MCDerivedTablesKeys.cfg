SPECIFICATION Spec
CONSTANTS
    NoValue = "none"
    KeysOf <- MCKeysOf
    Events <- MCEvents
    Programs <- LookingUp
    MaxLog = 3
    MaxRebuilds = 1
    Ways <- MCWays
INVARIANT KeysAreEnough
CHECK_DEADLOCK FALSE
