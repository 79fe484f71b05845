------------------------------ MODULE Collections ------------------------------
(***************************************************************************)
(* The community modules on finite sets and on sequences, under names of   *)
(* their own: Sets!Max(S), Seqs!FoldLeft(op, base, s).                     *)
(***************************************************************************)
EXTENDS Integers, FiniteSets, Sequences

Sets == INSTANCE FiniteSetsExt
Seqs == INSTANCE SequencesExt

SumOver(h, S) == Sets!MapThenSumSet(LAMBDA x : h[x], S)

(* The n-th of a set in an order: n - 1 others are before it.              *)
Nth(S, n, before(_, _)) == CHOOSE x \in S : Cardinality({y \in S : before(y, x)}) = n - 1
================================================================================
