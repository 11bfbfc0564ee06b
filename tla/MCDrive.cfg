SPECIFICATION FairSpec
CONSTANTS
  Event <- MCEvent
  Arms <- MCArms
  NoArm = "no arm"
  ArmOf <- MCArmOf
  Latest <- MCLatest
  Readable <- MCReadable
  Lane <- MCLane
  Appends <- MCAppends
  Backlogs <- MCBacklogs
  Cascade = 2
  Longest = 3
INVARIANTS CollapsedHaveStandIns DeliversWhatItOwes StopsRunawaysOnly
PROPERTIES WalkEnds
CHECK_DEADLOCK FALSE
