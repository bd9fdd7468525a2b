------------------------------- MODULE MCSolver -------------------------------
(* Solver with three tours, two of them of equal cost.                         *)
EXTENDS Solver, TLC

CONSTANTS best, middle, other

MCTour == {best, middle, other}
MCCostOf == best :> 1 @@ middle :> 2 @@ other :> 2
=============================================================================
