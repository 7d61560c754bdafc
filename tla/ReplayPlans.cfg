CONSTANTS
  p1 = p1
  p2 = p2
  Plans <- MCPlans
  Rounds <- MCRounds
  MaxRound = 4
  Replicas = {s1}
  Cancellers = {c1, c2}
  MaxCancels = 2
  Faults = {"event", "commit", "timeout", "unreachable"}
SPECIFICATION Spec
INVARIANTS TicketsMatchPlan CancelledIsRefunded
PROPERTIES OverIsOver
CHECK_DEADLOCK FALSE
