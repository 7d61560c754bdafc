----------------------------- MODULE MCPotAdmin -----------------------------
EXTENDS PotAdmin, TLC

CONSTANTS c1, g1, g2, k1, t1, e1, e2, none

\* An edit whose modal was closed is to the next one what an edit of another console is.
MCConsoles == {c1}
\* Two games at one kiosk, whose pots could end up in one line; one tier.
MCGames == {g1, g2}
MCKiosks == {k1}
MCTiers == {t1}
MCCalls == {e1, e2}


Named(s, g, k, t) == [scope |-> s, game |-> g, kiosk |-> k, tier |-> t]

\* The last is typed when the scope is changed after the game, and refused.
MCIdentities ==
  {Named("GLOBAL", none, none, none), Named("LOCAL", g1, k1, t1), Named("LOCAL", g2, k1, t1),
   Named("GLOBAL", g1, none, none)}

MCSymmetry == Permutations(MCCalls)
=============================================================================
