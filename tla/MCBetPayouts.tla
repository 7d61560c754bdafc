---------------------------- MODULE MCBetPayouts ----------------------------
EXTENDS BetPayouts

\* Every zone of the table, the three that ship hidden as well.
MCGames == {"roulette", "keno"}
MCEnabled == ZoneTypes

\* The smallest stake, which rounding hurts most, an odd number of hundreds, and with
\* 5500 the smallest line that pays more than a receipt in binary fractions announces.
MCStakes == {100, 500, 5000}
=============================================================================
