SPECIFICATION Spec
CONSTANTS
  a = a
  left = left
  right = right
  none = none
  Agents <- MCAgents
  Nobody <- none
  Tabs <- MCTabs
  Embedded = TRUE
  MaxRound = 2
  MaxSlip = 2
  MaxLines = 1
  MaxTickets = 2
  MaxLosses = 1
SYMMETRY MCSymmetry
INVARIANTS
  SoldTwiceOnlyAfterLoss
  NoTicketIsStranded
