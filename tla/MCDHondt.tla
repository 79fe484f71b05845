------------------------------- MODULE MCDHondt -------------------------------
(***************************************************************************)
(* Finite instances of DHondt.                                             *)
(***************************************************************************)
EXTENDS DHondt

ThreeParties == {1, 2, 5}
=============================================================================
