CONSTANTS
  a1 = a1
  a2 = a2
  r1 = r1
  r2 = r2
  r3 = r3
  Agents <- MCAgents
  Requests <- MCRequests
  Amounts <- MCAmounts
  NoRequest = NoRequest
SPECIFICATION FairSpec
INVARIANTS TypeOK AuditChained AnswersAreTrue
PROPERTIES ImplementsLedger EveryRequestEnds
CHECK_DEADLOCK FALSE
