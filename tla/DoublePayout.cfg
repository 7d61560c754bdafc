CONSTANTS
  a1 = a1
  t1 = t1
  t2 = t2
  red = red
  black = black
  NoNumber = NoNumber
  Agents <- MCAgents
  Tickets <- MCTickets
  Numbers <- MCNumbers
  Seller <- MCSeller
  Wager <- MCWager
  Gain <- MCGain
  Jackpots <- MCJackpots
  Malformed = {}
  Cashiers = {c1, c2}
  MaxCalls = 1
  Replicas = {s1}
  Batch = 2
  Float = 9
  Faults = {}
SPECIFICATION Spec
INVARIANTS PaidAtMostOnce
CHECK_DEADLOCK FALSE
