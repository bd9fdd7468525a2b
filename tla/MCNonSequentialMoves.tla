------------------------- MODULE MCNonSequentialMoves -------------------------
(* NonSequentialMoves on twelve nodes.                                         *)
EXTENDS NonSequentialMoves

=============================================================================
