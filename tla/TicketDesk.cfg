SPECIFICATION FairSpec
CONSTANTS
  t1 = t1
  t2 = t2
  none = none
  Tickets <- MCTickets
  NoTicket <- none
  MaxGets = 2
  MaxFetches = 2
  MaxPays = 2
  MaxMishaps = 1
INVARIANTS
  ReceiptIsLatestSale
  PaidAgainOnlyUnheard
PROPERTIES
  ListCatchesUp
