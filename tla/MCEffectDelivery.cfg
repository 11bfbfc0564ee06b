SPECIFICATION FairSpec
CONSTANTS
  Delivery = {"notify", "close"}
  Subject <- MCSubject
  Event <- MCEvent
  History <- OrderHistory
  Foreign <- MCForeign
  At <- MCAt
  Begins <- MCBegins
  Turn <- MCTurn
  Decide <- MCDecide
  Wraps <- MCWraps
  Replies <- MCReplies
  Attempts = 3
  MaxLog = 3
  MaxCrashes = 2
  MaxRotations = 1
INVARIANTS ReplayFollows NothingIsRepeated RepeatsAreMade AnswersAgree
PROPERTIES AnsweredIsSilent CursorsAdvance
CHECK_DEADLOCK FALSE
