-------------------------- MODULE MCForecastServing --------------------------
(***************************************************************************)
(* Finite instances of ForecastServing.                                    *)
(***************************************************************************)
EXTENDS ForecastServing

CONSTANTS h1, h2

MCHandlers == {h1, h2}
=============================================================================
