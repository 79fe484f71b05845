------------------------- MODULE MCForecastProduction -------------------------
(***************************************************************************)
(* Finite instances of ForecastProduction: three candidates, of whom 2 and *)
(* 3 are of one party.                                                     *)
(***************************************************************************)
EXTENDS ForecastProduction
LOCAL INSTANCE TLC

CONSTANTS r1, r2, d1, d2

TwoRuns == {r1, r2}
TwoDraws == {d1, d2}
Alike == Permutations(TwoRuns) \cup Permutations(TwoDraws)
TwoParties == <<"A", "B", "B">>

Ask(targetKind, target, kind, n, d) ==
  [targetKind |-> targetKind, target |-> target, kind |-> kind, p |-> <<n, d>>]
FourRequests ==
  {Ask("candidate", 1, "disqualified", 0, 1),
   Ask("party", "B", "party_cancelled", 0, 1),
   Ask("candidate", 1, "manual_probability", 1, 1),
   Ask("party", "B", "manual_probability", 1, 3)}

(* One blend that may tie with the polls alone; then a candidate of whom   *)
(* nothing is known.                                                       *)
TwoInputs ==
  {[polls |-> <<{2}, {3}, {}>>, fund |-> <<{3}, {}, {1}>>],
   [polls |-> <<{2}, {3}, {}>>, fund |-> <<{3}, {}, {}>>]}

Entry(cycle, truth, p05, p10, p50, p90, p95) ==
  [cycle |-> cycle, truth |-> truth,
   q |-> [p05 |-> p05, p10 |-> p10, p50 |-> p50, p90 |-> p90, p95 |-> p95]]
Good(cycle, truth) == Entry(cycle, truth, 1, 2, truth + 2, 60, 70)
Far(cycle, truth) == Entry(cycle, truth, 1, 2, truth + 9, 60, 70)
Narrow(cycle, truth) == Entry(cycle, truth, 1, truth + 1, truth + 2, 60, 70)
Bare(cycle, truth) == [cycle |-> cycle, truth |-> truth, q |-> [p50 |-> truth]]

SomeBacktests ==
  {[entries |-> <<Good(2019, 20), Far(2019, 10), Far(2023, 15)>>, converged |-> TRUE],
   [entries |-> <<Narrow(2019, 5), Good(2019, 20), Far(2019, 9), Good(2019, 8), Good(2023, 12)>>,
    converged |-> TRUE],
   [entries |-> <<Narrow(2019, 5), Bare(2019, 20), Good(2019, 9)>>, converged |-> FALSE]}
==============================================================================
