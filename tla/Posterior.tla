------------------------------ MODULE Posterior ------------------------------
(***************************************************************************)
(* From the two models' draws to the payload of a presidential forecast:   *)
(* the first-round shares (presidential.py), the operator's interventions  *)
(* (interventions.py), the summary and runoff matrix, and the gates that   *)
(* judge the result (calibrate.py).  Everything here is a pure function.   *)
(*                                                                         *)
(* A share is a natural number out of `one`.  A draw of all candidates'    *)
(* shares is a row [share, one]; it sums to one only when the sum of       *)
(* `share` is `one`.  Scaling multiplies both sides, so nothing is rounded.*)
(***************************************************************************)
EXTENDS Collections

CONSTANTS
  NCandidates,  \* candidates are the columns 1..NCandidates
  PartyOf,      \* the party of each candidate
  Draws,        \* Monte Carlo draws
  One,          \* the whole, for the shares that the models draw
  PollWeight, FullWeight   \* poll_weight is PollWeight / FullWeight

Candidates == 1..NCandidates
Pairs == {p \in Candidates \X Candidates : p[1] # p[2]}

-----------------------------------------------------------------------------
(* The combiner.  An input gives for each candidate the shares its polls   *)
(* and its fundamentals may draw, none where that side has no data.        *)

(* sigmoid and logit are monotone: a blend lies between its sides, and     *)
(* both are inside (0, 1).                                                 *)
Blend(p, f) ==
  IF PollWeight = FullWeight THEN {p}
  ELSE IF PollWeight = 0 THEN {f}
  ELSE Sets!Min({p, f})..Sets!Max({p, f})

(* A candidate with one side is drawn from that side alone. *)
Column(polls, fund) ==
  IF polls = {} THEN fund
  ELSE IF fund = {} THEN polls
  ELSE UNION {Blend(p, f) : p \in polls, f \in fund}

(* fit_and_predict refuses fewer than two candidates, and a candidate with *)
(* neither side.                                                           *)
CanFit(input) ==
  NCandidates >= 2 /\ \A c \in Candidates : input.polls[c] \cup input.fund[c] # {}

FirstRoundSamples(input) ==
  [Draws -> {share \in [Candidates -> 1..(One - 1)] :
               \A c \in Candidates : share[c] \in Column(input.polls[c], input.fund[c])}]

-----------------------------------------------------------------------------
(* Rows.                                                                   *)

Total(share) == Sets!MapThenSumSet(LAMBDA c : share[c], DOMAIN share)
Alive(row) == {c \in Candidates : row.share[c] > 0}

(* A row is divided by its sum; a row of zeros stays. *)
Renormalise(row) ==
  IF Total(row.share) = 0 THEN row ELSE [share |-> row.share, one |-> Total(row.share)]

(* The columns that an intervention touches; race-level ones touch none. *)
Affected(i) ==
  CASE i.targetKind = "candidate" -> {c \in Candidates : c = i.target}
    [] i.targetKind = "party" -> {c \in Candidates : PartyOf[c] = i.target}
    [] OTHER -> {}

ZeroOut(row, cols) ==
  Renormalise([share |-> [c \in Candidates |-> IF c \in cols THEN 0 ELSE row.share[c]],
               one |-> row.one])

(* Mutant of Override: the siblings keep their shares.                     *)
OverrideOnly(row, cols, p) ==
  LET t == SumOver(row.share, cols)
      ofTarget(c) == IF t = 0 THEN 1 ELSE row.share[c]
      targets == IF t = 0 THEN Cardinality(cols) ELSE t
  IN [share |-> [c \in Candidates |-> IF c \in cols THEN p[1] * ofTarget(c) * row.one
                                      ELSE p[2] * row.share[c] * targets],
      one |-> p[2] * targets * row.one]

(* _apply_manual_probability: p[1] / p[2] goes to the targets, in the      *)
(* proportion of their shares or evenly if they have none, and the rest to *)
(* the others in proportion; others that have nothing get nothing.         *)
Override(row, cols, p) ==
  LET t == SumOver(row.share, cols)
      s == SumOver(row.share, Candidates \ cols)
      ofTarget(c) == IF t = 0 THEN 1 ELSE row.share[c]
      targets == IF t = 0 THEN Cardinality(cols) ELSE t
      siblings == IF s = 0 THEN 1 ELSE s
  IN [share |-> [c \in Candidates |->
                   IF c \in cols THEN p[1] * ofTarget(c) * siblings
                   ELSE (p[2] - p[1]) * row.share[c] * targets],
      one |-> p[2] * targets * siblings]

ApplyOne(row, i) ==
  LET cols == Affected(i)
  IN IF cols = {} THEN row
     ELSE IF i.kind = "manual_probability" THEN Override(row, cols, i.p)
     ELSE ZeroOut(row, cols)

(* Mutant of InOrder: the newest first.                                    *)
NewestFirst(itvs) == [n \in 1..Cardinality(itvs) |-> Nth(itvs, n, LAMBDA i, k : i.id > k.id)]

(* ORDER BY intervention_id *)
InOrder(itvs) == [n \in 1..Cardinality(itvs) |-> Nth(itvs, n, LAMBDA i, k : i.id < k.id)]

(* apply_interventions_to_samples, on one draw. *)
Transformed(row, itvs) == Seqs!FoldLeft(ApplyOne, Renormalise(row), InOrder(itvs))

(* apply_interventions: without any the posterior passes through. *)
Rows(m, itvs) ==
  [d \in Draws |->
     LET row == [share |-> m[d], one |-> One]
     IN IF itvs = {} THEN row ELSE Transformed(row, itvs)]

(* The two greatest shares by argsort, which leaves equal ones in any order.*)
TopTwos(row) ==
  {p \in Pairs : /\ \A c \in Candidates : row.share[c] <= row.share[p[1]]
                 /\ \A c \in Candidates \ {p[1]} : row.share[c] <= row.share[p[2]]}

-----------------------------------------------------------------------------
(* The payload.  top[d] is the pair of draw d; counts are of draws.        *)

Outright(row, top, c) == top[1] = c /\ 2 * row.share[c] > row.one

Summary(rows, top, c) ==
  [zero |-> \A d \in Draws : rows[d].share[c] = 0,    \* every quantile is zero
   outright |-> Cardinality({d \in Draws : Outright(rows[d], top[d], c)}),
   qualifies |-> Cardinality({d \in Draws : c \in {top[d][1], top[d][2]}})]

(* Mutant of RunoffMatrix: only draws that need a second round.            *)
MatrixOfRunoffs(rows, top) ==
  LET runoffs == {d \in Draws : ~Outright(rows[d], top[d], top[d][1])}
  IN [p \in {top[d] : d \in runoffs} |-> Cardinality({d \in runoffs : top[d] = p})]

RunoffMatrix(rows, top) ==
  [p \in {top[d] : d \in Draws} |-> Cardinality({d \in Draws : top[d] = p})]

Payload(rows, top) ==
  [candidates |-> [c \in Candidates |-> Summary(rows, top, c)],
   matrix |-> RunoffMatrix(rows, top)]

-----------------------------------------------------------------------------
(* The gates.  A backtest is [entries, converged]; an entry has a cycle,   *)
(* the true share and the quantiles that are there, in percent.            *)

IsEntry(e) == e.truth \in Int /\ \A quantile \in DOMAIN e.q : e.q[quantile] \in Int

Covers(e, lo, hi) ==
  {lo, hi} \subseteq DOMAIN e.q /\ e.q[lo] <= e.truth /\ e.truth <= e.q[hi]

(* At least pct of every hundred entries are covered; an entry without the *)
(* two quantiles is not.                                                   *)
Coverage(entries, lo, hi, pct) ==
  /\ entries # <<>>
  /\ 100 * Cardinality({k \in DOMAIN entries : Covers(entries[k], lo, hi)})
       >= pct * Len(entries)

(* The three candidates of a cycle with the greatest true shares, the      *)
(* earlier one first where they are equal.                                 *)
TopThree(entries) ==
  {k \in DOMAIN entries :
     Cardinality({j \in DOMAIN entries :
        /\ entries[j].cycle = entries[k].cycle
        /\ \/ entries[j].truth > entries[k].truth
           \/ entries[j].truth = entries[k].truth /\ j < k}) < 3}

Judged(entries) == {k \in TopThree(entries) : "p50" \in DOMAIN entries[k].q}
AbsError(e) == IF e.q["p50"] >= e.truth THEN e.q["p50"] - e.truth ELSE e.truth - e.q["p50"]

(* Mutant of MedianTwice: one place too low.                               *)
LowerTwice(errors) == errors[Len(errors) \div 2] + errors[Len(errors) \div 2]

(* Twice the median: the middle value, or the two in the middle. *)
MedianTwice(errors) == errors[(Len(errors) + 1) \div 2] + errors[Len(errors) \div 2 + 1]

TopThreeError(entries) ==
  LET judged == Judged(entries)
      closer(j, k) == LET a == AbsError(entries[j])  b == AbsError(entries[k])
                      IN a < b \/ (a = b /\ j < k)
  IN /\ judged # {}
     /\ MedianTwice([n \in 1..Cardinality(judged) |->
                       AbsError(entries[Nth(judged, n, closer)])]) <= 10

PayloadFinite(payload) == \A c \in Candidates : ~payload.candidates[c].zero

RunoffSimplex(payload) ==
  /\ payload.matrix # <<>>
  /\ Total(payload.matrix) = Cardinality(Draws)

GateNames == {"C1", "C2", "C3", "C4", "C5", "C6"}

(* evaluate_all_gates: every gate is evaluated, whatever the others say. *)
FailedGates(payload, backtest) ==
  LET passed == [C1 |-> Coverage(backtest.entries, "p10", "p90", 80),
                 C2 |-> Coverage(backtest.entries, "p05", "p95", 95),
                 C3 |-> TopThreeError(backtest.entries),
                 C4 |-> PayloadFinite(payload),
                 C5 |-> RunoffSimplex(payload),
                 C6 |-> backtest.converged]
  IN {g \in GateNames : ~passed[g]}

=============================================================================
