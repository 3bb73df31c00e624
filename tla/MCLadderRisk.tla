---------------------------- MODULE MCLadderRisk ----------------------------
(* LadderRisk of a market with one neighbour. *)
EXTENDS LadderRisk

MCHoldings == {0, 1}
=============================================================================
