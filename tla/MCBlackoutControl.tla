-------------------------- MODULE MCBlackoutControl --------------------------
(***************************************************************************)
(* Finite instances of BlackoutControl: the API's account and another      *)
(* operator's.                                                             *)
(***************************************************************************)
EXTENDS BlackoutControl, TLC

CONSTANTS i1, i2, i3, r1, polityk, operator

TwoInvocations == {i1, i2}
ThreeInvocations == {i1, i2, i3}
OneRequest == {r1}
BothUsers == {polityk, operator}
OneUser == {polityk}

InvocationSymmetry == Permutations(ThreeInvocations)
=============================================================================
