---------------------------- MODULE MCReplayPlans ----------------------------
(***************************************************************************)
(* ReplayPlans for TLC: a plan of three rounds and one of two, in a game   *)
(* long enough to use both up after a round was missed.                    *)
(***************************************************************************)
EXTENDS ReplayPlans

CONSTANTS p1, p2

MCPlans == {p1, p2}
MCRounds == [p \in Plans |-> IF p = p1 THEN 3 ELSE 2]
=============================================================================
