--------------------------- MODULE MCCashRegister ---------------------------
(***************************************************************************)
(* CashRegister for TLC: two agents, three provisions in flight, amounts   *)
(* that fill a register, empty it exactly, and overdraw it.                *)
(***************************************************************************)
EXTENDS CashRegister

CONSTANTS a1, a2, r1, r2, r3

MCAgents == {a1, a2}
MCRequests == {r1, r2, r3}
MCAmounts == {-1, 2}
=============================================================================
