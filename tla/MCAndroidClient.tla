--------------------------- MODULE MCAndroidClient ---------------------------
(***************************************************************************)
(* Finite instances of AndroidClient.                                      *)
(***************************************************************************)
EXTENDS AndroidClient

CONSTANTS l1, l2

TwoLoads == {l1, l2}
NoExpiry == -1
=============================================================================
