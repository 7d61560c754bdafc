------------------------- MODULE MCTicketLifecycle -------------------------
(***************************************************************************)
(* TicketLifecycle for TLC: one agent sells two well-formed tickets, or a  *)
(* well-formed one and one whose bets cannot be evaluated; the draw has    *)
(* two outcomes, on which the first ticket wins or loses.  Chunks hold one *)
(* row, so that a round takes several.                                     *)
(***************************************************************************)
EXTENDS TicketLifecycle

CONSTANTS a1, t1, t2, red, black

MCAgents == {a1}
MCTickets == {t1, t2}
MCNumbers == {red, black}
MCSeller == [t \in Tickets |-> a1]
MCWager == [t \in Tickets |-> IF t = t1 THEN 1 ELSE 2]
MCGain == [t \in Tickets |-> [n \in Numbers |-> IF (t = t1) = (n = red) THEN 2 ELSE 0]]
MCJackpots == {3}
=============================================================================
