SPECIFICATION Spec
CONSTANTS
  r1 = r1
  r2 = r2
  Run = {r1, r2}
  Request <- AllRequests
  Event <- MCEvent
  Foreign <- MCForeign
  Accepts <- MCAccepts
  Stages <- MCStages
  Reads <- MCReads
  Pre <- MCPre
  Slices <- MCSlices
  Post <- MCPost
  Answers <- Fickle
  Cap = 1
  MaxLog = 2
INVARIANTS TypeOK CarrySound OnePrefix RetriesArePaidFor RetryReadsTheDelta
PROPERTIES CommitsAreCurrent ConflictsAreHonest SerializesCommands
CHECK_DEADLOCK FALSE
