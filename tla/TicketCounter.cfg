CONSTANTS
  a1 = a1
  t1 = t1
  t2 = t2
  red = red
  black = black
  NoNumber = NoNumber
  Agents <- MCAgents
  Tickets <- MCTickets
  Numbers <- MCNumbers
  Seller <- MCSeller
  Wager <- MCWager
  Gain <- MCGain
  Jackpots <- MCJackpots
  Malformed = {}
  Cashiers = {c1}
  MaxCalls = 3
  Replicas = {s1}
  Batch = 1
  Float = 9
  Faults = {}
SPECIFICATION FairSpec
INVARIANTS PaidAtMostOnce
PROPERTIES PaidIsFinal SoldInTimeIsSettled
CHECK_DEADLOCK FALSE
