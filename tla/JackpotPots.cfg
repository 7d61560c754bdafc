CONSTANTS
  general = general
  game = game
  t1 = t1
  t2 = t2
  t3 = t3
  Pots <- MCPots
  Tickets <- MCTickets
  Contribution <- MCContribution
  Thresholds <- MCThresholds
  Base <- MCBase
  Cap <- MCCap
  DrawsLots <- MCDrawsLots
  Faults = {"database", "answer"}
SPECIFICATION FairSpec
INVARIANTS HitOncePerCycle NoMoneyInvented TrailIsChained CreditsAreWins
PROPERTIES EveryContributionEnds
CHECK_DEADLOCK FALSE
