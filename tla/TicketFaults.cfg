CONSTANTS
  a1 = a1
  t1 = t1
  t2 = t2
  red = red
  black = black
  NoNumber = NoNumber
  Agents <- MCAgents
  Tickets <- MCTickets
  Numbers <- MCNumbers
  Seller <- MCSeller
  Wager <- MCWager
  Gain <- MCGain
  Jackpots <- MCJackpots
  Malformed = {t2}
  Cashiers = {c1, c2}
  MaxCalls = 2
  Replicas = {s1, s2}
  Batch = 1
  Float = 1
  Faults = {"timeout", "unreachable", "commit", "event"}
SPECIFICATION Spec
INVARIANTS SettledExactly StatusMatchesPayout MoneyBacksStatus PayoutsAreOwed
PROPERTIES LostStaysUnpaid
CHECK_DEADLOCK FALSE
