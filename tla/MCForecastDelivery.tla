------------------------- MODULE MCForecastDelivery -------------------------
(***************************************************************************)
(* Finite instances of ForecastDelivery.                                   *)
(***************************************************************************)
EXTENDS ForecastDelivery, TLC

CONSTANTS r1, r2

TwoRequests == {r1, r2}
RequestSymmetry == Permutations(TwoRequests)
=============================================================================
