---------------------------- MODULE MCBatchScrape ----------------------------
(***************************************************************************)
(* Finite instances of BatchScrape.                                        *)
(***************************************************************************)
EXTENDS BatchScrape

CONSTANTS r1, r2, a, b

TwoRuns == {r1, r2}
TwoItems == {a, b}
=============================================================================
