SPECIFICATION BetSpec
CONSTANTS
  Games <- MCGames
  Enabled <- MCEnabled
  Stakes <- MCStakes
  MaxLine = 2
  MaxGain = 2000000000
INVARIANTS
  LitIsWhatPays
  ReceiptGainIsPaid
  WinningLinePays
