---------------------------- MODULE MCEngineFeed ----------------------------
(***************************************************************************)
(* EngineFeed for TLC: each of the four hooks through two draws, opened    *)
(* twice.  Each opening has one socket at a time, so that the two sockets  *)
(* let the one of the first still be closing while the second connects.    *)
(***************************************************************************)
EXTENDS EngineFeed

MCKinds == AllKinds
=============================================================================
