CONSTANTS
  t1 = t1
  h1 = h1
  n1 = n1
  n2 = n2
  NoNumbers = NoNumbers
  Tickets <- MCTickets
  Hits <- MCHits
  Numbers <- MCNumbers
  Seed = 1
  MaxDraw = 3
  MaxCrashes = 1
  MaxSwitches = 1
  Faults = {"redis", "database"}
SPECIFICATION FairSpec
INVARIANTS AuditSurvivesFailures GateSurvivesFailures NoHitWaitsWhileIdle
PROPERTIES SoldInTimeIsDrawn
CHECK_DEADLOCK FALSE
