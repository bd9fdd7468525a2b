-------------------------------- MODULE MCMain --------------------------------
(* Main with two solving threads and two tours, one cheaper and one dearer     *)
(* than the known optimum.                                                     *)
EXTENDS Main, TLC

CONSTANTS best, other

MCTour == {best, other}
MCCostOf == best :> 1 @@ other :> 3
=============================================================================
