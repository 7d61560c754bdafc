---------------------------- MODULE MCKenoRounds ----------------------------
(***************************************************************************)
(* KenoRounds for TLC: a history of one synthetic draw, then two draws.    *)
(* The loop can be interrupted at every await, and the second draw is      *)
(* there for what the first one leaves behind.  One ticket and one hit: no *)
(* step relates two tickets or two hits.                                   *)
(***************************************************************************)
EXTENDS KenoRounds

CONSTANTS t1, h1, n1, n2

MCTickets == {t1}
MCHits == {h1}
MCNumbers == {n1, n2}
=============================================================================
