SPECIFICATION Spec
CONSTANTS
  Delivery = {"notify", "close", "audit", "report"}
  Subject <- MCSubject
  Event <- MCEvent
  History <- OddHistory
  Foreign = {}
  At <- MCAt
  Begins <- MCBegins
  Turn <- MCTurn
  Decide <- MCDecide
  Wraps <- MCWraps
  Replies <- MCReplies
  Attempts = 3
  MaxLog = 4
  MaxCrashes = 1
  MaxRotations = 0
PROPERTIES DeliveriesAreDurable
CHECK_DEADLOCK FALSE
