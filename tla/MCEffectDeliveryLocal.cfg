SPECIFICATION Spec
CONSTANTS
  Delivery = {"notify"}
  Subject <- MCSubject
  Event <- MCEvent
  History <- OrderHistory
  Foreign <- MCForeign
  At <- MCAt
  Begins <- MCBegins
  Turn <- MCTurn
  Decide <- MCDecide
  Wraps <- MCWraps
  Replies <- MCReplies
  Attempts = 4
  MaxLog = 3
  MaxCrashes = 1
  MaxRotations = 0
INVARIANTS SkipsAreNotLocal
CHECK_DEADLOCK FALSE
