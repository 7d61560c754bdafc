---------------------------- MODULE MCJackpotPots ----------------------------
(***************************************************************************)
(* JackpotPots for TLC: the general pot, whose cap bites and which its     *)
(* trigger wins, and a game pot with a seed and a high cap, won by lot.    *)
(* Two tickets are enough for a hit of either pot, and three to feed one   *)
(* on a stale image of it; two pots in either order allow a deadlock.  Two *)
(* of the tickets reach the general pot's threshold alone, so that it can  *)
(* also be hit on an image from before another ticket's hit.               *)
(***************************************************************************)
EXTENDS JackpotPots

CONSTANTS general, game, t1, t2, t3

MCPots == {general, game}
MCTickets == {t1, t2, t3}
MCContribution ==
  [t \in Tickets |-> [p \in Pots |-> IF p = general THEN (IF t = t3 THEN 2 ELSE 4)
                                   ELSE IF t = t3 THEN 0 ELSE 3]]
MCThresholds == [p \in Pots |-> IF p = general THEN {4} ELSE {5, 7}]
MCBase == [p \in Pots |-> IF p = general THEN 0 ELSE 1]
MCCap == [p \in Pots |-> IF p = general THEN 3 ELSE 10]
MCDrawsLots == {game}
=============================================================================
