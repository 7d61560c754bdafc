SPECIFICATION Spec
CONSTANTS
  c1 = c1
  g1 = g1
  g2 = g2
  k1 = k1
  t1 = t1
  e1 = e1
  e2 = e2
  none = none
  Consoles <- MCConsoles
  Games <- MCGames
  Kiosks <- MCKiosks
  Tiers <- MCTiers
  None <- none
  Identities <- MCIdentities
  MaxPots = 2
  Watched = {1}
  Calls <- MCCalls
  MaxBound = 2
SYMMETRY MCSymmetry
INVARIANTS
  EditsKeepMoney
  ThresholdWithinBounds
  EveryPotIsEditable
