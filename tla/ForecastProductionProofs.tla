----------------------- MODULE ForecastProductionProofs -----------------------
(***************************************************************************)
(* Proofs about ForecastProduction, for any number of candidates, draws,   *)
(* runs, interventions, inputs, backtests and instants.                    *)
(*                                                                         *)
(* The first half is about Posterior, whose operators are folds: induction *)
(* over sets, sums over columns, the order of ids, one intervention on one *)
(* row, all of them on one row.  The second half is about the runs: the    *)
(* invariant, and what it says of the latest forecast.                     *)
(***************************************************************************)
EXTENDS ForecastProduction, CollectionsProofs

-----------------------------------------------------------------------------
(* One intervention on one row.                                            *)
(* The rows that the models and the interventions make.                    *)
RowSet == [share : [Candidates -> Nat], one : Nat \ {0}]

LEMMA CandidatesFinite ==
  ASSUME NCandidates \in Nat PROVE IsFiniteSet(Candidates)
BY FS_Interval DEF Candidates

LEMMA RowCounts ==
  ASSUME NCandidates \in Nat, NEW row \in RowSet
  PROVE  /\ row.share \in [Candidates -> Nat] /\ row.one \in Nat /\ row.one > 0
         /\ Counts(row.share, Candidates)
         /\ Total(row.share) = SumOver(row.share, Candidates)
         /\ Total(row.share) \in Nat
         /\ Total(row.share) = 0 <=> Alive(row) = {}
<1>1. row.share \in [Candidates -> Nat] /\ row.one \in Nat /\ row.one > 0
  BY DEF RowSet
<1>2. Counts(row.share, Candidates)
  BY <1>1, CandidatesFinite DEF Counts
<1>3. Total(row.share) = SumOver(row.share, Candidates)
  <2>1. DOMAIN row.share = Candidates
    BY <1>1
  <2>. QED BY <2>1 DEF Total, SumOver
<1>4. Total(row.share) \in Nat
  BY <1>2, <1>3, SumType
<1>5. ASSUME Total(row.share) = 0 PROVE Alive(row) = {}
  <2>1. ASSUME NEW c \in Candidates PROVE ~(row.share[c] > 0)
    <3>1. row.share[c] <= 0
      BY <1>2, <1>3, <1>5, SumBounds
    <3>. QED BY <1>1, <3>1
  <2>. QED BY <2>1 DEF Alive
<1>6. ASSUME Alive(row) = {} PROVE Total(row.share) = 0
  <2>1. \A c \in Candidates : row.share[c] = 0
    BY <1>1, <1>6 DEF Alive
  <2>2. SumOver(row.share, Candidates) = 0 * Cardinality(Candidates)
    BY <2>1, CandidatesFinite, SumConstant
  <2>3. Cardinality(Candidates) \in Nat
    BY CandidatesFinite, FS_CardinalityType
  <2>. QED BY <1>3, <2>2, <2>3
<1>. QED BY <1>1, <1>2, <1>3, <1>4, <1>5, <1>6

(* Where everyone is out, the mass is gone; elsewhere it is one again.     *)
LEMMA RenormaliseSpec ==
  ASSUME NCandidates \in Nat, NEW row \in RowSet
  PROVE  LET z == Renormalise(row)
         IN /\ z \in RowSet /\ z.share = row.share /\ Alive(z) = Alive(row)
            /\ \/ Total(z.share) = z.one
               \/ Alive(z) = {} /\ Total(z.share) < z.one
<1>1. CASE Total(row.share) = 0
  <2>1. Renormalise(row) = row
    BY <1>1 DEF Renormalise
  <2>. QED BY <1>1, <2>1, RowCounts
<1>2. CASE Total(row.share) # 0
  <2>. DEFINE z == [share |-> row.share, one |-> Total(row.share)]
  <2>1. Renormalise(row) = z /\ z.share = row.share /\ z.one = Total(row.share)
    BY <1>2 DEF Renormalise
  <2>2. Total(row.share) \in Nat \ {0} /\ row.share \in [Candidates -> Nat]
    BY <1>2, RowCounts
  <2>3. z \in RowSet
    BY <2>2 DEF RowSet
  <2>4. Alive(z) = Alive(row)
    BY DEF Alive
  <2>. HIDE DEF z
  <2>. QED BY <2>1, <2>3, <2>4
<1>. QED BY <1>1, <1>2

LEMMA ZeroOutSpec ==
  ASSUME NCandidates \in Nat, NEW row \in RowSet, NEW cols \in SUBSET Candidates
  PROVE  LET z == ZeroOut(row, cols)
         IN /\ z \in RowSet
            /\ \A c \in Candidates : z.share[c] = IF c \in cols THEN 0 ELSE row.share[c]
            /\ Alive(z) = Alive(row) \ cols
            /\ \/ Total(z.share) = z.one
               \/ Alive(z) = {} /\ Total(z.share) < z.one
<1>. DEFINE share == [c \in Candidates |-> IF c \in cols THEN 0 ELSE row.share[c]]
            y == [share |-> share, one |-> row.one]
<1>1. share \in [Candidates -> Nat] /\ row.one \in Nat \ {0}
  BY RowCounts
<1>2. y \in RowSet /\ y.share = share
  BY <1>1 DEF RowSet
<1>3. ZeroOut(row, cols) = Renormalise(y)
  BY DEF ZeroOut
<1>4. \A c \in Candidates : y.share[c] = IF c \in cols THEN 0 ELSE row.share[c]
  BY <1>2
<1>5. Alive(y) = Alive(row) \ cols
  BY <1>4 DEF Alive
<1>. HIDE DEF y
<1>. QED BY <1>2, <1>3, <1>4, <1>5, RenormaliseSpec

LEMMA Products ==
  ASSUME NEW a \in Nat, NEW b \in Nat, NEW n \in Nat, NEW m \in Nat, a <= b
  PROVE  /\ (a * m) * n + ((b - a) * n) * m = (b * n) * m
         /\ a < b /\ n > 0 => a * n < b * n
         /\ \A w \in Nat : (a * w) * m = (a * m) * w
<1>. DEFINE d == b - a
<1>1. d \in Nat /\ b = a + d
  OBVIOUS
<1>. HIDE DEF d
<1>2. (a * m) * n + (d * n) * m = ((a + d) * n) * m
  BY <1>1
<1>3. (a + d) * n = a * n + d * n
  BY <1>1
<1>4. d > 0 /\ n > 0 => d * n > 0
  BY <1>1
<1>5. a * n \in Nat /\ d * n \in Nat
  BY <1>1
<1>6. \A w \in Nat : (a * w) * m = (a * m) * w
  OBVIOUS
<1>. QED BY <1>1, <1>2, <1>3, <1>4, <1>5, <1>6 DEF d

(* The probability goes to the targets, and the rest to the others unless  *)
(* they have nothing.                                                      *)
LEMMA OverrideSpec ==
  ASSUME NCandidates \in Nat, NEW row \in RowSet, NEW cols \in SUBSET Candidates, cols # {},
         NEW p, p[1] \in Nat, p[2] \in Nat, p[1] <= p[2], p[2] > 0
  PROVE  LET z == Override(row, cols, p)
         IN /\ z \in RowSet
            /\ \A c \in Candidates \ cols : row.share[c] = 0 => z.share[c] = 0
            /\ \/ Total(z.share) = z.one
               \/ Alive(z) \subseteq cols /\ Total(z.share) < z.one
<1>. DEFINE h == row.share
            rest == Candidates \ cols
            t == SumOver(h, cols)
            s == SumOver(h, rest)
            w == [c \in Candidates |-> IF t = 0 THEN 1 ELSE h[c]]
            n == IF t = 0 THEN Cardinality(cols) ELSE t
            m == IF s = 0 THEN 1 ELSE s
            a == p[1]
            b == p[2]
            share == [c \in Candidates |-> IF c \in cols THEN (a * w[c]) * m ELSE ((b - a) * h[c]) * n]
            z == [share |-> share, one |-> (b * n) * m]
<1>1. Override(row, cols, p) = z
  BY DEF Override
<1>2. h \in [Candidates -> Nat] /\ Counts(h, Candidates)
  BY RowCounts
<1>3. /\ IsFiniteSet(Candidates) /\ IsFiniteSet(cols) /\ IsFiniteSet(rest)
      /\ Cardinality(cols) \in Nat /\ Cardinality(cols) > 0
  <2>1. IsFiniteSet(Candidates) /\ IsFiniteSet(cols) /\ IsFiniteSet(rest)
    BY CandidatesFinite, FS_Subset
  <2>2. Cardinality(cols) \in Nat /\ Cardinality(cols) # 0
    BY <2>1, FS_CardinalityType, FS_EmptySet
  <2>. QED BY <2>1, <2>2
<1>4. t \in Nat /\ s \in Nat /\ Counts(h, cols) /\ Counts(h, rest)
  <2>1. cols \in SUBSET Candidates /\ rest \in SUBSET Candidates
    OBVIOUS
  <2>. QED BY <1>2, <2>1, PartCounts
<1>5. n \in Nat /\ n > 0 /\ m \in Nat /\ m > 0 /\ a \in Nat /\ b \in Nat /\ a <= b /\ b > 0 /\ b - a \in Nat
  BY <1>3, <1>4
<1>6. w \in [Candidates -> Nat] /\ Counts(w, cols) /\ SumOver(w, cols) = n
  <2>1. w \in [Candidates -> Nat] /\ Counts(w, cols)
    BY <1>2, <1>3 DEF Counts
  <2>2. CASE t = 0
    <3>1. \A c \in cols : w[c] = 1
      BY <2>2
    <3>2. SumOver(w, cols) = 1 * Cardinality(cols)
      <4>. HIDE DEF w
      <4>. QED BY <1>3, <3>1, SumConstant
    <3>. HIDE DEF w
    <3>. QED BY <1>3, <2>1, <2>2, <3>2
  <2>3. CASE t # 0
    <3>1. \A c \in cols : w[c] = h[c]
      BY <2>3
    <3>2. SumOver(w, cols) = SumOver(h, cols)
      <4>. HIDE DEF w, h
      <4>. QED BY <1>4, <3>1, SumSame
    <3>. HIDE DEF w, h
    <3>. QED BY <2>1, <2>3, <3>2
  <2>. QED BY <2>2, <2>3
<1>7. \A c \in cols : share[c] = (a * m) * w[c]
  <2>1. ASSUME NEW c \in cols PROVE share[c] = (a * m) * w[c]
    <3>1. share[c] = (a * w[c]) * m /\ w[c] \in Nat
      BY <1>6
    <3>. HIDE DEF share, w, m, a
    <3>. QED BY <1>5, <3>1, Products
  <2>. QED BY <2>1
<1>8. \A c \in rest : share[c] = ((b - a) * n) * h[c]
  <2>1. ASSUME NEW c \in rest PROVE share[c] = ((b - a) * n) * h[c]
    <3>. DEFINE d == b - a
    <3>1. share[c] = (d * h[c]) * n /\ h[c] \in Nat /\ d \in Nat
      BY <1>2, <1>5
    <3>2. (d * h[c]) * n = (d * n) * h[c]
      <4>. HIDE DEF share, h, n, d
      <4>. QED BY <1>5, <3>1
    <3>. QED BY <3>1, <3>2
  <2>. QED BY <2>1
<1>. HIDE DEF h, rest, t, s, w, n, m, a, b
<1>9. share \in [Candidates -> Nat]
  <2>1. \A c \in Candidates : (a * w[c]) * m \in Nat /\ ((b - a) * h[c]) * n \in Nat
    BY <1>2, <1>5, <1>6
  <2>. QED BY <2>1
<1>10. (b * n) * m \in Nat /\ (b * n) * m > 0
  <2>1. b * n \in Nat /\ b * n > 0
    BY <1>5
  <2>. DEFINE bn == b * n
  <2>. HIDE DEF bn
  <2>2. bn * m \in Nat /\ bn * m > 0
    <3>1. bn \in Nat /\ bn > 0
      BY <2>1 DEF bn
    <3>. QED BY <1>5, <3>1
  <2>. QED BY <2>2 DEF bn
<1>11. z \in RowSet
  <2>. HIDE DEF share
  <2>. QED BY <1>9, <1>10 DEF RowSet
<1>12. z.share = share /\ z.one = (b * n) * m
  OBVIOUS
<1>13. Total(z.share) = (a * m) * n + ((b - a) * n) * s
  <2>1. a * m \in Nat /\ (b - a) * n \in Nat
    BY <1>5
  <2>2. SumOver(share, cols) = (a * m) * SumOver(w, cols)
    <3>. HIDE DEF share
    <3>. QED BY <1>6, <1>7, <2>1, SumScaled
  <2>3. SumOver(share, rest) = ((b - a) * n) * SumOver(h, rest)
    <3>. HIDE DEF share
    <3>. QED BY <1>4, <1>8, <2>1, SumScaled
  <2>4. Candidates \cap cols = cols /\ Candidates \ cols = rest
    BY DEF rest
  <2>5. Total(z.share) = SumOver(z.share, Candidates) /\ Counts(z.share, Candidates)
    <3>. HIDE DEF z
    <3>. QED BY <1>11, RowCounts
  <2>6. SumOver(share, Candidates) = SumOver(share, cols) + SumOver(share, rest)
    <3>. HIDE DEF share, z
    <3>. QED BY <1>12, <2>4, <2>5, SumSplit
  <2>. HIDE DEF share, z
  <2>. QED BY <1>6, <1>12, <2>2, <2>3, <2>5, <2>6 DEF s
<1>14. CASE s # 0
  <2>1. m = s
    BY <1>14 DEF m
  <2>2. Total(z.share) = z.one
    <3>. HIDE DEF z
    <3>. QED BY <1>5, <1>12, <1>13, <2>1, Products
  <2>3. \A c \in rest : h[c] = 0 => share[c] = 0
    <3>. HIDE DEF share
    <3>. QED BY <1>5, <1>8
  <2>. HIDE DEF z, share
  <2>. QED BY <1>1, <1>11, <1>12, <2>2, <2>3 DEF h, rest
<1>15. CASE s = 0
  <2>1. m = 1
    BY <1>15 DEF m
  <2>2. \A c \in rest : h[c] = 0
    <3>1. \A c \in rest : h[c] <= 0
      BY <1>4, <1>15, SumBounds DEF s
    <3>. QED BY <1>2, <3>1 DEF rest
  <2>3. \A c \in rest : share[c] = 0
    <3>. HIDE DEF share
    <3>. QED BY <1>5, <1>8, <2>2
  <2>4. Total(z.share) = a * n /\ z.one = b * n
    <3>1. (a * m) * n = a * n /\ ((b - a) * n) * s = 0 /\ (b * n) * m = b * n /\ a * n \in Nat
      BY <1>5, <1>15, <2>1
    <3>. HIDE DEF z
    <3>. QED BY <1>12, <1>13, <3>1
  <2>5. \/ Total(z.share) = z.one
        \/ Total(z.share) < z.one
    <3>1. a = b \/ a < b
      BY <1>5
    <3>. HIDE DEF z
    <3>. QED BY <1>5, <2>4, <3>1, Products
  <2>6. Alive(z) \subseteq cols
    <3>. HIDE DEF share
    <3>. QED BY <1>12, <2>3 DEF Alive, rest
  <2>. HIDE DEF z, share
  <2>. QED BY <1>1, <1>11, <1>12, <2>3, <2>5, <2>6 DEF rest
<1>. QED BY <1>14, <1>15

-----------------------------------------------------------------------------
(* A sequence of interventions on one row.                                 *)
Applicable(i) ==
  i.kind = "manual_probability" =>
    i.p[1] \in Nat /\ i.p[2] \in Nat /\ i.p[1] <= i.p[2] /\ i.p[2] > 0

LEMMA AffectedColumns == \A i : Affected(i) \in SUBSET Candidates
BY DEF Affected

(* What one intervention does to a row.                                    *)
LEMMA ApplySpec ==
  ASSUME NCandidates \in Nat, NEW row \in RowSet, NEW i, Applicable(i)
  PROVE  LET z == ApplyOne(row, i)
             cols == Affected(i)
         IN /\ z \in RowSet
            /\ cols = {} => z = row
            /\ (cols # {} /\ i.kind # "manual_probability") =>
                 /\ \A c \in Candidates : z.share[c] = IF c \in cols THEN 0 ELSE row.share[c]
                 /\ Alive(z) = Alive(row) \ cols
                 /\ \/ Total(z.share) = z.one
                    \/ Alive(z) = {} /\ Total(z.share) < z.one
            /\ (cols # {} /\ i.kind = "manual_probability") =>
                 /\ \A c \in Candidates \ cols : row.share[c] = 0 => z.share[c] = 0
                 /\ \/ Total(z.share) = z.one
                    \/ Alive(z) \subseteq cols /\ Total(z.share) < z.one
<1>. DEFINE cols == Affected(i)
<1>0. cols \in SUBSET Candidates
  BY AffectedColumns
<1>1. CASE cols = {}
  BY <1>1 DEF ApplyOne
<1>2. CASE cols # {} /\ i.kind # "manual_probability"
  <2>1. ApplyOne(row, i) = ZeroOut(row, cols)
    BY <1>2 DEF ApplyOne
  <2>. HIDE DEF cols
  <2>. QED BY <1>0, <1>2, <2>1, ZeroOutSpec DEF cols
<1>3. CASE cols # {} /\ i.kind = "manual_probability"
  <2>1. ApplyOne(row, i) = Override(row, cols, i.p)
    BY <1>3 DEF ApplyOne
  <2>. HIDE DEF cols
  <2>2. i.p[1] \in Nat /\ i.p[2] \in Nat /\ i.p[1] <= i.p[2] /\ i.p[2] > 0
    BY <1>3 DEF Applicable
  <2>. DEFINE p == i.p
              z == Override(row, cols, p)
  <2>3. p[1] \in Nat /\ p[2] \in Nat /\ p[1] <= p[2] /\ p[2] > 0
    BY <2>2
  <2>. HIDE DEF p
  <2>4. /\ z \in RowSet
        /\ \A c \in Candidates \ cols : row.share[c] = 0 => z.share[c] = 0
        /\ \/ Total(z.share) = z.one
           \/ Alive(z) \subseteq cols /\ Total(z.share) < z.one
    BY <1>0, <1>3, <2>3, OverrideSpec
  <2>5. ApplyOne(row, i) = z
    BY <2>1 DEF p
  <2>. HIDE DEF z
  <2>. QED BY <1>3, <2>4, <2>5 DEF cols
<1>. QED BY <1>1, <1>2, <1>3

Folded(row, seq) == Seqs!FoldLeft(ApplyOne, row, seq)

(* The fold of a sequence of interventions, one by one.                    *)
IsTrace(f, row, seq, n) ==
  /\ f \in [0..n -> RowSet]
  /\ f[0] = row
  /\ \A k \in 1..n : f[k] = ApplyOne(f[k - 1], seq[k])
  /\ Folded(row, seq) = f[n]

LEMMA Trace ==
  ASSUME NCandidates \in Nat, NEW row \in RowSet, NEW itvs, \A i \in itvs : Applicable(i),
         NEW n \in Nat, NEW seq \in [1..n -> itvs]
  PROVE  \E f : IsTrace(f, row, seq, n)
<1>. DEFINE D == 1..n
            step == [a \in D \X RowSet |-> ApplyOne(a[2], seq[a[1]])]
            pick == [s \in SUBSET D |-> LastOf(s)]
            IsIter(g) == g = [s \in SUBSET D |-> IF s = {} THEN row
                                ELSE ApplyOne(g[s \ {LastOf(s)}], seq[LastOf(s)])]
            iter == CHOOSE g : IsIter(g)
<1>1. IsFiniteSet(D)
  BY FS_Interval
<1>2. step \in [D \X RowSet -> RowSet]
  <2>1. \A k \in D, r \in RowSet : ApplyOne(r, seq[k]) \in RowSet
    BY ApplySpec
  <2>. QED BY <2>1
<1>3. \A s \in SUBSET D : s # {} => pick[s] \in s
  BY LastOfPart
<1>4. PICK g \in [SUBSET D -> RowSet] : IsFold(g, D, row, step, pick)
  <2>. HIDE DEF D, step, pick
  <2>. QED BY <1>1, <1>2, <1>3, FoldExists
<1>5. IsIter(g)
  <2>1. g = [s \in SUBSET D |-> IF s = {} THEN row ELSE step[<<pick[s], g[s \ {pick[s]}]>>]]
    BY <1>4 DEF IsFold
  <2>2. ASSUME NEW s \in SUBSET D, s # {}
        PROVE  step[<<pick[s], g[s \ {pick[s]}]>>] = ApplyOne(g[s \ {LastOf(s)}], seq[LastOf(s)])
    <3>1. pick[s] = LastOf(s) /\ LastOf(s) \in D /\ s \ {LastOf(s)} \in SUBSET D
      BY <1>3, <2>2
    <3>2. <<LastOf(s), g[s \ {LastOf(s)}]>> \in D \X RowSet
      BY <3>1
    <3>. HIDE DEF D, pick
    <3>. QED BY <3>1, <3>2
  <2>. HIDE DEF D, step, pick
  <2>3. \A s \in SUBSET D : g[s] = IF s = {} THEN row ELSE ApplyOne(g[s \ {LastOf(s)}], seq[LastOf(s)])
    BY <2>1, <2>2
  <2>. QED BY <2>1, <2>3
<1>6. IsIter(iter)
  BY <1>5
<1>7. Folded(row, seq) = iter[D]
  <2>1. DOMAIN seq = D
    OBVIOUS
  <2>2. Folded(row, seq) =
          (CHOOSE h : h = [s \in SUBSET DOMAIN seq |-> IF s = {} THEN row
                             ELSE ApplyOne(h[s \ {LastOf(s)}], seq[LastOf(s)])])[DOMAIN seq]
    BY DEF Folded, Seqs!FoldLeft, Seqs!MapThenFoldSet, Seqs!Max, LastOf
  <2>. QED BY <2>1, <2>2
<1>. HIDE DEF iter
<1>8. iter[1..0] = row
  <2>1. 1..0 = {} /\ {} \in SUBSET D
    OBVIOUS
  <2>. HIDE DEF D
  <2>. QED BY <1>6, <2>1
<1>9. ASSUME NEW k \in 1..n PROVE iter[1..k] = ApplyOne(iter[1..(k - 1)], seq[k])
  <2>1. 1..k \in SUBSET D /\ 1..k # {}
    <3>1. k \in Nat /\ 1 <= k /\ k <= n
      OBVIOUS
    <3>2. 1 \in 1..k /\ \A j \in 1..k : j \in 1..n
      BY <3>1
    <3>. QED BY <3>2
  <2>2. LastOf(1..k) = k /\ (1..k) \ {k} = 1..(k - 1)
    BY LastOfInterval
  <2>3. iter[1..k] = ApplyOne(iter[(1..k) \ {LastOf(1..k)}], seq[LastOf(1..k)])
    <3>. HIDE DEF D
    <3>. QED BY <1>6, <2>1
  <2>. QED BY <2>2, <2>3
<1>. DEFINE Good == {k \in Nat : k <= n => iter[1..k] \in RowSet}
<1>10. 0 \in Good
  BY <1>8
<1>11. ASSUME NEW k \in Nat, k \in Good PROVE k + 1 \in Good
  <2>. SUFFICES ASSUME k + 1 <= n PROVE iter[1..(k + 1)] \in RowSet
    OBVIOUS
  <2>1. iter[1..k] \in RowSet /\ k + 1 \in 1..n /\ (k + 1) - 1 = k
    BY <1>11
  <2>2. iter[1..(k + 1)] = ApplyOne(iter[1..k], seq[k + 1])
    BY <1>9, <2>1
  <2>3. Applicable(seq[k + 1])
    BY <2>1
  <2>. QED BY <2>1, <2>2, <2>3, ApplySpec
<1>. HIDE DEF Good
<1>12. \A k \in Nat : k \in Good
  BY <1>10, <1>11, NatInduct
<1>. DEFINE f == [k \in 0..n |-> iter[1..k]]
<1>13. f \in [0..n -> RowSet]
  BY <1>12 DEF Good
<1>14. f[0] = row /\ f[n] = iter[D]
  BY <1>8
<1>15. \A k \in 1..n : f[k] = ApplyOne(f[k - 1], seq[k])
  BY <1>9
<1>. HIDE DEF f, D
<1>. QED BY <1>7, <1>13, <1>14, <1>15 DEF IsTrace

-----------------------------------------------------------------------------
(* Every intervention of a set, in the order of ids.                       *)
Identified(itvs) ==
  /\ IsFiniteSet(itvs)
  /\ \A i \in itvs : i.id \in Int
  /\ \A i, k \in itvs : i.id = k.id => i = k

(* The sequence holds every intervention once, in the order of the ids.    *)
LEMMA InOrderSpec ==
  ASSUME NEW itvs, Identified(itvs)
  PROVE  LET s == InOrder(itvs)
             n == Cardinality(itvs)
         IN /\ n \in Nat /\ s \in [1..n -> itvs]
            /\ \A i \in itvs : \E k \in 1..n : s[k] = i
            /\ \A j, k \in 1..n : s[j].id < s[k].id <=> j < k
<1>. DEFINE s == InOrder(itvs)
            n == Cardinality(itvs)
            R == {p \in itvs \X itvs : p[1].id < p[2].id}
            rank(x) == Cardinality(Before(R, itvs, x))
<1>1. IsOrder(R, itvs)
  BY DEF IsOrder, Identified
<1>2. \A i, k \in itvs : <<i, k>> \in R <=> i.id < k.id
  OBVIOUS
<1>3. n \in Nat /\ IsFiniteSet(itvs)
  BY FS_CardinalityType DEF Identified
<1>4. \A x \in itvs : Before(R, itvs, x) = {y \in itvs : y.id < x.id}
  BY DEF Before
<1>5. ASSUME NEW k \in 1..n PROVE s[k] \in itvs /\ rank(s[k]) = k - 1
  <2>1. PICK x \in itvs : rank(x) = k - 1
    <3>. HIDE DEF R
    <3>. QED BY <1>1, <1>3, OrderNumbers
  <2>2. s[k] = CHOOSE y \in itvs : Cardinality({z \in itvs : z.id < y.id}) = k - 1
    BY DEF InOrder, Nth
  <2>3. Cardinality({z \in itvs : z.id < x.id}) = k - 1
    BY <1>4, <2>1
  <2>4. s[k] \in itvs /\ Cardinality({z \in itvs : z.id < s[k].id}) = k - 1
    <3>. HIDE DEF s, n
    <3>. QED BY <2>2, <2>3
  <2>. QED BY <1>4, <2>4
<1>6. s \in [1..n -> itvs]
  <2>1. s = [k \in 1..n |-> s[k]]
    BY DEF InOrder
  <2>. HIDE DEF s
  <2>. QED BY <1>5, <2>1
<1>. HIDE DEF s
<1>7. ASSUME NEW x \in itvs, NEW y \in itvs
      PROVE  /\ rank(x) \in 0..(n - 1)
             /\ x.id < y.id <=> rank(x) < rank(y)
  <2>. HIDE DEF R
  <2>. QED BY <1>1, <1>2, <1>3, OrderRanks
<1>8. ASSUME NEW j \in 1..n, NEW k \in 1..n PROVE s[j].id < s[k].id <=> j < k
  <2>1. s[j] \in itvs /\ s[k] \in itvs /\ rank(s[j]) = j - 1 /\ rank(s[k]) = k - 1
    BY <1>5
  <2>2. s[j].id < s[k].id <=> rank(s[j]) < rank(s[k])
    BY <1>7, <2>1
  <2>. HIDE DEF rank
  <2>. QED BY <1>3, <2>1, <2>2
<1>9. ASSUME NEW i \in itvs PROVE \E k \in 1..n : s[k] = i
  <2>. DEFINE k == rank(i) + 1
  <2>1. rank(i) \in 0..(n - 1)
    BY <1>7
  <2>2. k \in 1..n /\ k - 1 = rank(i)
    <3>. HIDE DEF rank
    <3>. QED BY <1>3, <2>1
  <2>3. s[k] \in itvs /\ rank(s[k]) = rank(i)
    <3>. HIDE DEF k
    <3>. QED BY <1>5, <2>2
  <2>4. ~(rank(s[k]) < rank(i)) /\ ~(rank(i) < rank(s[k]))
    <3>. HIDE DEF rank, k
    <3>. QED BY <2>1, <2>3
  <2>5. ~(s[k].id < i.id) /\ ~(i.id < s[k].id)
    <3>. HIDE DEF rank, k
    <3>. QED BY <1>7, <2>3, <2>4
  <2>6. s[k] = i
    <3>. HIDE DEF rank, k
    <3>. QED BY <2>3, <2>5 DEF Identified
  <2>. HIDE DEF k
  <2>. QED BY <2>2, <2>6
<1>. QED BY <1>3, <1>6, <1>8, <1>9 DEF s

-----------------------------------------------------------------------------
Touched(seen) == UNION {Affected(i) : i \in seen}

(* What holds of a row after the interventions seen so far.                *)
Mass(x, seen) ==
  \/ Total(x.share) = x.one
  \/ /\ Total(x.share) < x.one
     /\ \E i \in seen : i.kind = "manual_probability" /\ Alive(x) \subseteq Affected(i)
  \/ /\ Alive(x) = {}
     /\ Candidates = Touched(seen)
Untouched(x, seen) ==
  (\A i \in seen : i.kind # "manual_probability") => Alive(x) = Candidates \ Touched(seen)

LEMMA MassStep ==
  ASSUME NCandidates \in Nat, NEW row \in RowSet, NEW seen, NEW i, Applicable(i),
         Mass(row, seen), Untouched(row, seen)
  PROVE  Mass(ApplyOne(row, i), seen \cup {i}) /\ Untouched(ApplyOne(row, i), seen \cup {i})
<1>. DEFINE z == ApplyOne(row, i)
            cols == Affected(i)
            all == seen \cup {i}
<1>1. Touched(all) = Touched(seen) \cup cols
  BY DEF Touched
<1>2. cols \in SUBSET Candidates /\ Touched(all) \in SUBSET Candidates /\ Alive(z) \in SUBSET Candidates
  BY AffectedColumns DEF Touched, Alive
<1>3. i \in all /\ seen \subseteq all
  OBVIOUS
<1>4. CASE cols = {}
  <2>1. z = row /\ Touched(all) = Touched(seen)
    BY <1>1, <1>4, ApplySpec
  <2>. HIDE DEF z, cols, all
  <2>2. Mass(z, all)
    BY <1>3, <2>1 DEF Mass
  <2>3. Untouched(z, all)
    BY <1>3, <2>1 DEF Untouched
  <2>. QED BY <2>2, <2>3 DEF z, all
<1>5. CASE cols # {} /\ i.kind # "manual_probability"
  <2>1. /\ Alive(z) = Alive(row) \ cols
        /\ \/ Total(z.share) = z.one
           \/ Alive(z) = {} /\ Total(z.share) < z.one
    BY <1>5, ApplySpec
  <2>. HIDE DEF z, cols, all
  <2>2. Untouched(z, all)
    BY <1>1, <1>3, <2>1 DEF Untouched
  <2>3. ASSUME \E k \in seen : k.kind = "manual_probability" PROVE Mass(z, all)
    BY <1>3, <2>1, <2>3 DEF Mass
  <2>4. ASSUME \A k \in seen : k.kind # "manual_probability" PROVE Mass(z, all)
    <3>1. \A k \in all : k.kind # "manual_probability"
      BY <1>5, <2>4 DEF all
    <3>2. Alive(z) = Candidates \ Touched(all)
      BY <2>2, <3>1 DEF Untouched
    <3>3. Alive(z) = {} => Candidates = Touched(all)
      BY <1>2, <3>2
    <3>. QED BY <2>1, <3>3 DEF Mass
  <2>5. Mass(z, all)
    BY <2>3, <2>4
  <2>. QED BY <2>2, <2>5 DEF z, all
<1>6. CASE cols # {} /\ i.kind = "manual_probability"
  <2>1. \/ Total(z.share) = z.one
        \/ Alive(z) \subseteq cols /\ Total(z.share) < z.one
    BY <1>6, ApplySpec
  <2>. HIDE DEF z, all
  <2>2. Mass(z, all)
    BY <1>3, <1>6, <2>1 DEF Mass
  <2>3. Untouched(z, all)
    BY <1>3, <1>6 DEF Untouched
  <2>. QED BY <2>2, <2>3 DEF z, all
<1>. QED BY <1>4, <1>5, <1>6

(* c's last intervention among the first k removed it.                     *)
Removal(i, c) == c \in Affected(i) /\ i.kind # "manual_probability"
OutBy(s, k, c) ==
  /\ \E j \in 1..k : Removal(s[j], c)
  /\ \A j \in 1..k : (c \in Affected(s[j]) /\ s[j].kind = "manual_probability") =>
       \E l \in 1..k : l > j /\ Removal(s[l], c)

LEMMA OutStep ==
  ASSUME NCandidates \in Nat, NEW row \in RowSet, NEW c \in Candidates, NEW s, NEW k \in Nat,
         Applicable(s[k + 1]), OutBy(s, k, c) => row.share[c] = 0, OutBy(s, k + 1, c)
  PROVE  ApplyOne(row, s[k + 1]).share[c] = 0
<1>. DEFINE i == s[k + 1]
            z == ApplyOne(row, i)
            cols == Affected(i)
<1>0. row.share \in [Candidates -> Nat]
  BY RowCounts
<1>1. CASE c \in cols
  <2>1. i.kind # "manual_probability"
    <3>. SUFFICES ASSUME i.kind = "manual_probability" PROVE FALSE
      OBVIOUS
    <3>1. k + 1 \in 1..(k + 1)
      OBVIOUS
    <3>2. \E l \in 1..(k + 1) : l > k + 1
      BY <1>1, <3>1 DEF OutBy
    <3>. QED BY <3>2
  <2>2. z.share[c] = IF c \in cols THEN 0 ELSE row.share[c]
    BY <1>1, <2>1, ApplySpec
  <2>. QED BY <1>1, <2>2
<1>2. CASE c \notin cols
  <2>1. row.share[c] = 0
    <3>1. ASSUME NEW j \in 1..(k + 1), Removal(s[j], c) PROVE j \in 1..k
      BY <1>2, <3>1 DEF Removal
    <3>2. \E j \in 1..k : Removal(s[j], c)
      BY <3>1 DEF OutBy
    <3>3. ASSUME NEW j \in 1..k, c \in Affected(s[j]), s[j].kind = "manual_probability"
          PROVE  \E l \in 1..k : l > j /\ Removal(s[l], c)
      <4>1. j \in 1..(k + 1)
        OBVIOUS
      <4>2. PICK l \in 1..(k + 1) : l > j /\ Removal(s[l], c)
        BY <3>3, <4>1 DEF OutBy
      <4>. QED BY <3>1, <4>2
    <3>4. OutBy(s, k, c)
      BY <3>2, <3>3 DEF OutBy
    <3>. QED BY <3>4
  <2>2. CASE cols = {}
    <3>1. z = row
      BY <2>2, ApplySpec
    <3>. QED BY <2>1, <3>1
  <2>3. CASE cols # {} /\ i.kind # "manual_probability"
    <3>1. z.share[c] = IF c \in cols THEN 0 ELSE row.share[c]
      BY <2>3, ApplySpec
    <3>. QED BY <1>2, <2>1, <3>1
  <2>4. CASE cols # {} /\ i.kind = "manual_probability"
    <3>1. \A b \in Candidates \ cols : row.share[b] = 0 => z.share[b] = 0
      BY <2>4, ApplySpec
    <3>. QED BY <1>2, <2>1, <3>1
  <2>. QED BY <2>2, <2>3, <2>4
<1>. QED BY <1>1, <1>2

(* The last of c's interventions, by id, is a removal.                     *)
RemovedIn(itvs, c) ==
  /\ \E i \in itvs : c \in Affected(i) /\ i.kind # "manual_probability"
  /\ \A i \in itvs :
       (c \in Affected(i) /\ i.kind = "manual_probability") =>
         \E k \in itvs :
            k.id > i.id /\ c \in Affected(k) /\ k.kind # "manual_probability"

LEMMA TransformedSpec ==
  ASSUME NCandidates \in Nat, NEW row \in RowSet, \A c \in Candidates : row.share[c] > 0,
         NEW itvs, Identified(itvs), \A i \in itvs : Applicable(i)
  PROVE  LET x == Transformed(row, itvs)
         IN /\ x \in RowSet
            /\ Mass(x, itvs)
            /\ \A c \in Candidates : RemovedIn(itvs, c) => x.share[c] = 0
<1>. DEFINE x == Transformed(row, itvs)
            s == InOrder(itvs)
            n == Cardinality(itvs)
            start == Renormalise(row)
<1>1. /\ n \in Nat /\ s \in [1..n -> itvs]
      /\ \A i \in itvs : \E k \in 1..n : s[k] = i
      /\ \A j, k \in 1..n : s[j].id < s[k].id <=> j < k
  BY InOrderSpec
<1>2. /\ start \in RowSet /\ start.share = row.share /\ Alive(start) = Candidates
      /\ Total(start.share) = start.one \/ Alive(start) = {}
  <2>1. Alive(row) = Candidates
    BY DEF Alive
  <2>. QED BY <2>1, RenormaliseSpec
<1>3. x = Folded(start, s)
  BY DEF Transformed, Folded
<1>. HIDE DEF x, s, n, start
<1>t. PICK f : IsTrace(f, start, s, n)
  BY <1>1, <1>2, Trace
<1>4. /\ f \in [0..n -> RowSet]
      /\ f[0] = start
      /\ \A k \in 1..n : f[k] = ApplyOne(f[k - 1], s[k])
      /\ Folded(start, s) = f[n]
  BY <1>t DEF IsTrace
<1>. DEFINE seen(k) == {s[j] : j \in 1..k}
            Good == {k \in Nat : k <= n =>
                       /\ Mass(f[k], seen(k)) /\ Untouched(f[k], seen(k))
                       /\ \A c \in Candidates : OutBy(s, k, c) => f[k].share[c] = 0}
<1>5. 0 \in Good
  <2>1. seen(0) = {} /\ 1..0 = {}
    OBVIOUS
  <2>2. Touched({}) = {}
    BY DEF Touched
  <2>3. Mass(start, {})
    BY <1>2, <2>2 DEF Mass
  <2>4. Untouched(start, {})
    BY <1>2, <2>2 DEF Untouched
  <2>5. \A c \in Candidates : ~OutBy(s, 0, c)
    BY <2>1 DEF OutBy
  <2>. HIDE DEF seen
  <2>. QED BY <1>4, <2>1, <2>3, <2>4, <2>5
<1>6. ASSUME NEW k \in Nat, k \in Good PROVE k + 1 \in Good
  <2>. SUFFICES ASSUME k + 1 <= n
                PROVE  /\ Mass(f[k + 1], seen(k + 1)) /\ Untouched(f[k + 1], seen(k + 1))
                       /\ \A c \in Candidates : OutBy(s, k + 1, c) => f[k + 1].share[c] = 0
    OBVIOUS
  <2>1. k + 1 \in 1..n /\ (k + 1) - 1 = k /\ k \in 0..n /\ k <= n
    BY <1>1
  <2>2. f[k + 1] = ApplyOne(f[k], s[k + 1]) /\ f[k] \in RowSet /\ Applicable(s[k + 1])
    BY <1>1, <1>4, <2>1
  <2>3. seen(k + 1) = seen(k) \cup {s[k + 1]}
    <3>1. \A j : j \in 1..(k + 1) <=> j \in 1..k \/ j = k + 1
      OBVIOUS
    <3>. QED BY <3>1
  <2>4. /\ Mass(f[k], seen(k)) /\ Untouched(f[k], seen(k))
        /\ \A c \in Candidates : OutBy(s, k, c) => f[k].share[c] = 0
    BY <1>6, <2>1
  <2>. HIDE DEF seen, Good
  <2>5. Mass(f[k + 1], seen(k + 1)) /\ Untouched(f[k + 1], seen(k + 1))
    <3>. DEFINE y == f[k]  i == s[k + 1]  b == seen(k)
    <3>1. y \in RowSet /\ Applicable(i) /\ Mass(y, b) /\ Untouched(y, b)
      BY <2>2, <2>4
    <3>2. f[k + 1] = ApplyOne(y, i) /\ seen(k + 1) = b \cup {i}
      BY <2>2, <2>3
    <3>. HIDE DEF y, i, b
    <3>. QED BY <3>1, <3>2, MassStep
  <2>6. \A c \in Candidates : OutBy(s, k + 1, c) => f[k + 1].share[c] = 0
    <3>. SUFFICES ASSUME NEW c \in Candidates, OutBy(s, k + 1, c) PROVE f[k + 1].share[c] = 0
      OBVIOUS
    <3>. DEFINE y == f[k]
    <3>1. y \in RowSet /\ Applicable(s[k + 1]) /\ f[k + 1] = ApplyOne(y, s[k + 1])
          /\ (OutBy(s, k, c) => y.share[c] = 0)
      BY <2>2, <2>4
    <3>. HIDE DEF y
    <3>. QED BY <3>1, OutStep
  <2>. QED BY <2>5, <2>6
<1>. HIDE DEF Good
<1>7. n \in Good
  BY <1>1, <1>5, <1>6, NatInduct
<1>8. seen(n) = itvs
  BY <1>1
<1>9. x = f[n] /\ x \in RowSet
  BY <1>1, <1>3, <1>4
<1>10. Mass(x, itvs) /\ \A c \in Candidates : OutBy(s, n, c) => x.share[c] = 0
  <2>1. n \in Nat /\ n <= n
    BY <1>1
  <2>. HIDE DEF seen
  <2>2. /\ Mass(f[n], seen(n))
        /\ \A c \in Candidates : OutBy(s, n, c) => f[n].share[c] = 0
    BY <1>7, <2>1 DEF Good
  <2>3. f[n] = x /\ seen(n) = itvs
    BY <1>8, <1>9
  <2>. QED BY <2>2, <2>3
<1>11. ASSUME NEW c \in Candidates, RemovedIn(itvs, c) PROVE OutBy(s, n, c)
  <2>1. \E j \in 1..n : Removal(s[j], c)
    BY <1>1, <1>11 DEF RemovedIn, Removal
  <2>2. ASSUME NEW j \in 1..n, c \in Affected(s[j]), s[j].kind = "manual_probability"
        PROVE  \E l \in 1..n : l > j /\ Removal(s[l], c)
    <3>1. s[j] \in itvs
      BY <1>1
    <3>2. PICK i \in itvs : i.id > s[j].id /\ Removal(i, c)
      BY <1>11, <2>2, <3>1 DEF RemovedIn, Removal
    <3>3. PICK l \in 1..n : s[l] = i
      BY <1>1
    <3>4. i.id \in Int /\ s[j].id \in Int
      BY <3>1 DEF Identified
    <3>5. s[j].id < s[l].id
      BY <3>2, <3>3, <3>4
    <3>. QED BY <1>1, <3>2, <3>3, <3>5
  <2>. QED BY <2>1, <2>2 DEF OutBy
<1>. QED BY <1>9, <1>10, <1>11 DEF x

-----------------------------------------------------------------------------
(* The runs.                                                               *)
(* A run loads what is active at its own timestamp, and the runs that had  *)
(* committed before it have timestamps no later than its own.              *)
Chronology ==
  \A r \in Runs :
    /\ pc[r] = "start" => earlier[r] = {}
    /\ pc[r] \in {"start", "begun"} => applied[r] = {}
    /\ gen[r] <= now
    /\ \A e \in earlier[r] : pc[e] = "committed" /\ gen[e] <= gen[r]
    /\ \A i \in applied[r] : Active(i, gen[r])

(* The promise, as soon as a run has loaded.                               *)
LoadedKeep ==
  \A r \in Runs : pc[r] \in {"loaded", "committed"} =>
    \A e \in earlier[r] : \A i \in applied[e] : gen[r] < i.until => i \in applied[r]

(* The table holds finitely many rows, each with an id of its own and one  *)
(* of the requests in it.                                                  *)
TableIsSound == Identified(table) /\ \A i \in table : Applicable(i)

(* The forecast comes from some draws of the two models and from what its  *)
(* run has loaded.                                                         *)
Made(f, m) ==
  /\ f.samples = Rows(m, applied[f.run])
  /\ f.top \in Tops(f.samples)
LatestIsMade == \A f \in Written : \E m \in FirstRoundSamples(input) : Made(f, m)

Inv == TypeOK /\ Chronology /\ LoadedKeep /\ TableIsSound /\ LatestIsMade

-----------------------------------------------------------------------------
LEMMA TimesAreIntegers == (\A t \in Times : t \in Int) /\ Never \in Int /\ MaxTime \in Nat /\ MaxRows \in Nat
BY ProductionAssumption DEF Times, Never

LEMMA RowTypes ==
  ASSUME TypeOK, NEW i \in table
  PROVE  i.from \in Int /\ i.until \in Int
<1>. DEFINE w == [id |-> i.id, from |-> i.from, until |-> i.until]
<1>1. w \in Window
  BY DEF TypeOK
<1>2. w.from \in Times /\ w.until \in 1..Never
  BY <1>1 DEF Window
<1>3. w.from = i.from /\ w.until = i.until
  OBVIOUS
<1>. HIDE DEF w
<1>4. w.from \in Int /\ w.until \in Int
  <2>1. w.from \in Int
    BY <1>2, TimesAreIntegers
  <2>2. w.until \in Int
    BY <1>2, TimesAreIntegers
  <2>. QED BY <2>1, <2>2
<1>. QED BY <1>3, <1>4

LEMMA InitInv == Init => Inv
<1>. SUFFICES ASSUME Init PROVE Inv
  OBVIOUS
<1>1. TypeOK
  BY TimesAreIntegers, ProductionAssumption DEF Init, TypeOK, Times, Committed, Written
<1>2. Chronology
  BY DEF Init, Chronology
<1>3. LoadedKeep
  BY DEF Init, LoadedKeep
<1>4. TableIsSound
  BY FS_EmptySet DEF Init, TableIsSound, Identified
<1>5. LatestIsMade
  BY DEF Init, LatestIsMade, Written
<1>. QED BY <1>1, <1>2, <1>3, <1>4, <1>5 DEF Inv

-----------------------------------------------------------------------------
LEMMA OperatorInv ==
  ASSUME Inv, NEW id \in 1..MaxRows, NEW q \in Requests, NEW from \in Times,
         NEW until \in Times \cup {Never}, Intervene(id, q, from, until)
  PROVE  Inv'
<1>. DEFINE i == Intervention(id, q, from, until)
<1>1. /\ \A k \in table : k.id # id
      /\ table' = table \cup {i} /\ from < until
      /\ UNCHANGED <<now, input, pc, gen, applied, latest, earlier>>
  BY DEF Intervene, runVars
<1>2. [id |-> i.id, from |-> i.from, until |-> i.until] \in Window
  <2>1. i.id = id /\ i.from = from /\ i.until = until
    BY DEF Intervention
  <2>2. until \in 1..Never
    BY <1>1, ProductionAssumption DEF Times, Never
  <2>. QED BY <2>1, <2>2 DEF Window
<1>i. i.id = id /\ Applicable(i)
  BY ProductionAssumption DEF Intervention, Applicable
<1>. HIDE DEF i
<1>3. TypeOK'
  BY <1>1, <1>2 DEF Inv, TypeOK, Written, Committed
<1>4. Chronology'
  BY <1>1 DEF Inv, Chronology
<1>5. LoadedKeep'
  BY <1>1 DEF Inv, LoadedKeep
<1>6. TableIsSound'
  <2>1. IsFiniteSet(table')
    BY <1>1, FS_AddElement DEF Inv, TableIsSound, Identified
  <2>2. \A k \in table' : k.id \in Int /\ Applicable(k)
    BY <1>1, <1>i DEF Inv, TableIsSound, Identified
  <2>3. \A j, k \in table' : j.id = k.id => j = k
    BY <1>1, <1>i DEF Inv, TableIsSound, Identified
  <2>. QED BY <2>1, <2>2, <2>3 DEF TableIsSound, Identified
<1>7. LatestIsMade'
  BY <1>1 DEF Inv, LatestIsMade, Written, Made
<1>. QED BY <1>3, <1>4, <1>5, <1>6, <1>7 DEF Inv

LEMMA BeginInv ==
  ASSUME Inv, NEW r \in Runs, Begin(r)
  PROVE  Inv'
<1>1. /\ pc[r] = "start"
      /\ pc' = [pc EXCEPT ![r] = "begun"]
      /\ gen' = [gen EXCEPT ![r] = now]
      /\ earlier' = [earlier EXCEPT ![r] = Committed]
      /\ UNCHANGED <<now, input, table, applied, latest>>
  BY DEF Begin
<1>2. TypeOK'
  <2>1. Committed' = Committed
    BY <1>1 DEF Inv, TypeOK, Committed
  <2>. QED BY <1>1, <2>1 DEF Inv, TypeOK, Written, Committed
<1>3. Chronology'
  <2>. SUFFICES ASSUME NEW s \in Runs
                PROVE /\ pc'[s] = "start" => earlier'[s] = {}
                      /\ pc'[s] \in {"start", "begun"} => applied'[s] = {}
                      /\ gen'[s] <= now'
                      /\ \A e \in earlier'[s] : pc'[e] = "committed" /\ gen'[e] <= gen'[s]
                      /\ \A i \in applied'[s] : Active(i, gen'[s])
    BY DEF Chronology
  <2>1. applied[r] = {}
    BY <1>1 DEF Inv, Chronology
  <2>2. CASE s = r
    <3>1. earlier'[s] = Committed /\ gen'[s] = now /\ pc'[s] = "begun" /\ applied'[s] = {}
      BY <1>1, <2>1, <2>2 DEF Inv, TypeOK
    <3>2. ASSUME NEW e \in Committed PROVE pc'[e] = "committed" /\ gen'[e] <= now
      BY <1>1 DEF Inv, TypeOK, Committed, Chronology
    <3>3. now' = now /\ now <= now
      BY <1>1, TimesAreIntegers DEF Inv, TypeOK
    <3>. QED BY <3>1, <3>2, <3>3
  <2>3. CASE s # r
    <3>1. /\ earlier'[s] = earlier[s] /\ gen'[s] = gen[s] /\ pc'[s] = pc[s]
          /\ applied'[s] = applied[s] /\ now' = now
      BY <1>1, <2>3 DEF Inv, TypeOK
    <3>2. ASSUME NEW e \in earlier[s] PROVE pc'[e] = "committed" /\ gen'[e] <= gen[s]
      BY <1>1, <3>1 DEF Inv, TypeOK, Chronology
    <3>. QED BY <3>1, <3>2 DEF Inv, Chronology
  <2>. QED BY <2>2, <2>3
<1>4. LoadedKeep'
  <2>. SUFFICES ASSUME NEW s \in Runs, pc'[s] \in {"loaded", "committed"},
                       NEW e \in earlier'[s], NEW i \in applied'[e], gen'[s] < i.until
                PROVE i \in applied'[s]
    BY DEF LoadedKeep
  <2>1. s # r
    BY <1>1 DEF Inv, TypeOK
  <2>. QED BY <1>1, <2>1 DEF Inv, TypeOK, LoadedKeep
<1>5. TableIsSound' /\ LatestIsMade'
  BY <1>1 DEF Inv, TableIsSound, LatestIsMade, Written, Made
<1>. QED BY <1>2, <1>3, <1>4, <1>5 DEF Inv

(* The heart of it: what an earlier run applied was active at its own,     *)
(* earlier timestamp, so unless it has expired it is active now too.       *)
LEMMA LoadInv ==
  ASSUME Inv, NEW r \in Runs, Load(r)
  PROVE  Inv'
<1>. DEFINE found == {i \in table : Active(i, gen[r])}
<1>1. /\ pc[r] = "begun"
      /\ pc' = [pc EXCEPT ![r] = "loaded"]
      /\ applied' = [applied EXCEPT ![r] = found]
      /\ UNCHANGED <<now, input, table, gen, latest, earlier>>
  BY DEF Load
<1>2. found \subseteq table /\ \A i \in found : Active(i, gen[r])
  OBVIOUS
<1>3. ASSUME NEW i \in table, Active(i, gen[r]) PROVE i \in found
  BY <1>3
<1>. HIDE DEF found
<1>4. TypeOK'
  <2>1. Committed' = Committed
    BY <1>1 DEF Inv, TypeOK, Committed
  <2>2. applied' \in [Runs -> SUBSET table']
    BY <1>1, <1>2 DEF Inv, TypeOK
  <2>. QED BY <1>1, <2>1, <2>2 DEF Inv, TypeOK, Written, Committed
<1>5. Chronology'
  <2>. SUFFICES ASSUME NEW s \in Runs
                PROVE /\ pc'[s] = "start" => earlier'[s] = {}
                      /\ pc'[s] \in {"start", "begun"} => applied'[s] = {}
                      /\ gen'[s] <= now'
                      /\ \A e \in earlier'[s] : pc'[e] = "committed" /\ gen'[e] <= gen'[s]
                      /\ \A i \in applied'[s] : Active(i, gen'[s])
    BY DEF Chronology
  <2>1. \A e \in earlier[s] : e # r
    BY <1>1 DEF Inv, Chronology
  <2>2. \A e \in earlier[s] : e \in Runs
    BY DEF Inv, TypeOK
  <2>3. CASE s = r
    BY <1>1, <1>2, <2>1, <2>2, <2>3 DEF Inv, TypeOK, Chronology
  <2>4. CASE s # r
    BY <1>1, <2>1, <2>2, <2>4 DEF Inv, TypeOK, Chronology
  <2>. QED BY <2>3, <2>4
<1>6. LoadedKeep'
  <2>. SUFFICES ASSUME NEW s \in Runs, pc'[s] \in {"loaded", "committed"},
                       NEW e \in earlier'[s], NEW i \in applied'[e], gen'[s] < i.until
                PROVE i \in applied'[s]
    BY DEF LoadedKeep
  <2>1. e \in earlier[s] /\ e \in Runs /\ e # r /\ gen[e] <= gen[s]
    BY <1>1 DEF Inv, TypeOK, Chronology
  <2>2. i \in applied[e] /\ i \in table /\ Active(i, gen[e]) /\ gen[s] < i.until
    BY <1>1, <2>1 DEF Inv, TypeOK, Chronology
  <2>3. CASE s = r
    <3>1. gen[e] \in Int /\ gen[r] \in Int /\ i.from \in Int
      BY <2>1, <2>2, TimesAreIntegers, RowTypes DEF Inv, TypeOK
    <3>2. Active(i, gen[r])
      BY <2>1, <2>2, <2>3, <3>1 DEF Active
    <3>. QED BY <1>1, <1>3, <2>2, <2>3, <3>2 DEF Inv, TypeOK
  <2>4. CASE s # r
    BY <1>1, <2>1, <2>2, <2>4 DEF Inv, TypeOK, LoadedKeep
  <2>. QED BY <2>3, <2>4
<1>7. TableIsSound'
  BY <1>1 DEF Inv, TableIsSound
<1>8. LatestIsMade'
  <2>1. ASSUME NEW f \in Written PROVE applied'[f.run] = applied[f.run]
    BY <1>1 DEF Inv, TypeOK, Committed
  <2>. QED BY <1>1, <2>1 DEF Inv, LatestIsMade, Written, Made
<1>. QED BY <1>4, <1>5, <1>6, <1>7, <1>8 DEF Inv

LEMMA CommitInv ==
  ASSUME Inv, NEW r \in Runs, NEW m \in FirstRoundSamples(input), NEW x, x = Rows(m, applied[r]),
         NEW t \in Tops(x), Commit(r, x, t)
  PROVE  Inv'
<1>0. t \in [Draws -> Pairs]
  BY DEF Tops
<1>1. /\ pc[r] = "loaded"
      /\ pc' = [pc EXCEPT ![r] = "committed"]
      /\ latest' = [run |-> r, samples |-> x, top |-> t]
      /\ UNCHANGED <<now, input, table, gen, applied, earlier>>
  BY DEF Commit
<1>2. \A f \in Written' : f.run \in Committed' /\ f.top \in [Draws -> Pairs]
  <2>1. \A f \in Written' : f = latest'
    BY DEF Written
  <2>2. latest'.run = r /\ latest'.top = t
    BY <1>1
  <2>3. r \in Committed'
    BY <1>1 DEF Inv, TypeOK, Committed
  <2>. QED BY <1>0, <2>1, <2>2, <2>3
<1>3. TypeOK'
  BY <1>1, <1>2 DEF Inv, TypeOK
<1>4. Chronology'
  BY <1>1 DEF Inv, TypeOK, Chronology
<1>5. LoadedKeep'
  BY <1>1 DEF Inv, TypeOK, LoadedKeep
<1>6. TableIsSound'
  BY <1>1 DEF Inv, TableIsSound
<1>7. LatestIsMade'
  <2>1. \A f \in Written' : f = latest'
    BY DEF Written
  <2>2. latest'.run = r /\ latest'.samples = x /\ latest'.top = t
    BY <1>1
  <2>. QED BY <1>1, <2>1, <2>2 DEF LatestIsMade, Made
<1>. QED BY <1>3, <1>4, <1>5, <1>6, <1>7 DEF Inv

LEMMA TickInv == Inv /\ Tick => Inv'
<1>. SUFFICES ASSUME Inv, Tick PROVE Inv'
  OBVIOUS
<1>1. /\ now < MaxTime /\ now' = now + 1
      /\ UNCHANGED <<input, table, pc, gen, applied, latest, earlier>>
  BY DEF Tick, runVars
<1>2. TypeOK'
  BY <1>1, TimesAreIntegers DEF Inv, TypeOK, Written, Committed, Times
<1>3. Chronology'
  <2>1. \A r \in Runs : gen[r] <= now'
    BY <1>1, TimesAreIntegers DEF Inv, TypeOK, Chronology, Times
  <2>. QED BY <1>1, <2>1 DEF Inv, Chronology
<1>4. LoadedKeep'
  BY <1>1 DEF Inv, LoadedKeep
<1>5. TableIsSound' /\ LatestIsMade'
  BY <1>1 DEF Inv, TableIsSound, LatestIsMade, Written, Made
<1>. QED BY <1>2, <1>3, <1>4, <1>5 DEF Inv

-----------------------------------------------------------------------------
LEMMA StutterInv == Inv /\ UNCHANGED vars => Inv'
BY DEF Inv, TypeOK, Chronology, LoadedKeep, TableIsSound, LatestIsMade, Made, Written, Committed,
  vars, runVars

LEMMA StepInv == Inv /\ [Next]_vars => Inv'
<1>. SUFFICES ASSUME Inv, [Next]_vars PROVE Inv'
  OBVIOUS
<1>1. CASE Operator
  BY <1>1, OperatorInv DEF Operator
<1>2. ASSUME NEW r \in Runs, Run(r) PROVE Inv'
  <2>1. CASE Begin(r)
    BY <2>1, BeginInv
  <2>2. CASE Load(r)
    BY <2>2, LoadInv
  <2>3. ASSUME NEW m \in FirstRoundSamples(input), NEW t \in Tops(Rows(m, applied[r])),
               Commit(r, Rows(m, applied[r]), t)
        PROVE  Inv'
    <3>. DEFINE x == Rows(m, applied[r])
    <3>1. x = Rows(m, applied[r]) /\ t \in Tops(x) /\ Commit(r, x, t)
      BY <2>3
    <3>. HIDE DEF x
    <3>. QED BY <3>1, CommitInv
  <2>. QED BY <1>2, <2>1, <2>2, <2>3 DEF Run
<1>3. CASE Tick
  BY <1>3, TickInv
<1>4. CASE UNCHANGED vars
  BY <1>4, StutterInv
<1>. QED BY <1>1, <1>2, <1>3, <1>4 DEF Next

LEMMA Invariance == Spec => []Inv
<1>. QED BY InitInv, StepInv, PTL DEF Spec

(* Every state of every run has its type.                                  *)
THEOREM TypeCorrect == Spec => []TypeOK
<1>1. Inv => TypeOK
  BY DEF Inv
<1>. QED BY <1>1, Invariance, PTL

(* However many runs and interventions there are, and whatever the order   *)
(* of their ids, a run applies what a forecast committed before it began   *)
(* applied, unless that has expired.                                       *)
THEOREM InterventionsAreKept == Spec => []SuccessorsKeepInterventions
<1>1. Inv => SuccessorsKeepInterventions
  BY DEF Inv, LoadedKeep, SuccessorsKeepInterventions, Committed
<1>. QED BY <1>1, Invariance, PTL

-----------------------------------------------------------------------------
(* What a draw of the latest forecast is.                                  *)
(* What every draw of the latest forecast is.                              *)
LEMMA LatestRows ==
  ASSUME Inv, NEW f \in Written, NEW d \in Draws
  PROVE  LET x == f.samples[d]
             itvs == applied[f.run]
         IN /\ x \in RowSet
            /\ itvs # {} => Mass(x, itvs)
            /\ \A c \in Candidates : RemovedIn(itvs, c) => x.share[c] = 0
            /\ f.top[d] \in TopTwos(x)
<1>. DEFINE x == f.samples[d]
            itvs == applied[f.run]
<1>1. f.run \in Runs
  BY DEF Inv, TypeOK, Committed
<1>2. itvs \in SUBSET table
  BY <1>1 DEF Inv, TypeOK
<1>3. Identified(itvs)
  BY <1>2, FS_Subset DEF Inv, TableIsSound, Identified
<1>4. \A i \in itvs : Applicable(i)
  BY <1>2 DEF Inv, TableIsSound
<1>5. PICK m \in FirstRoundSamples(input) : Made(f, m)
  BY DEF Inv, LatestIsMade
<1>. DEFINE row == [share |-> m[d], one |-> One]
<1>6. m[d] \in [Candidates -> 1..(One - 1)]
  BY <1>5 DEF FirstRoundSamples
<1>7. NCandidates \in Nat /\ One \in Nat \ {0}
  BY ProductionAssumption
<1>8. row \in RowSet /\ \A c \in Candidates : row.share[c] > 0
  <2>1. m[d] \in [Candidates -> Nat] /\ \A c \in Candidates : m[d][c] > 0
    BY <1>6, <1>7
  <2>. QED BY <1>7, <2>1 DEF RowSet
<1>9. x = IF itvs = {} THEN row ELSE Transformed(row, itvs)
  BY <1>5 DEF Made, Rows
<1>10. f.top[d] \in TopTwos(x)
  BY <1>5 DEF Made, Tops
<1>. HIDE DEF row, x, itvs
<1>11. CASE itvs = {}
  <2>1. \A c \in Candidates : ~RemovedIn(itvs, c)
    BY <1>11 DEF RemovedIn
  <2>. QED BY <1>8, <1>9, <1>10, <1>11, <2>1 DEF x, itvs
<1>12. CASE itvs # {}
  <2>1. x = Transformed(row, itvs)
    BY <1>9, <1>12
  <2>2. /\ x \in RowSet
        /\ Mass(x, itvs)
        /\ \A c \in Candidates : RemovedIn(itvs, c) => x.share[c] = 0
    BY <1>3, <1>4, <1>7, <1>8, <2>1, TransformedSpec
  <2>. QED BY <1>10, <2>2 DEF x, itvs
<1>. QED BY <1>11, <1>12

(* Whatever the interventions are and in whatever order they were made,    *)
(* no draw of the latest forecast gains mass or loses any, except where    *)
(* nobody is left to receive it.                                           *)
THEOREM MassConserved == Spec => []MassIsConserved
<1>1. ASSUME Inv PROVE MassIsConserved
  <2>1. ASSUME NEW f \in Written, applied[f.run] # {}, NEW d \in Draws
        PROVE  Mass(f.samples[d], applied[f.run])
    BY <1>1, <2>1, LatestRows
  <2>. QED BY <2>1 DEF MassIsConserved, Mass, Touched
<1>. QED BY <1>1, Invariance, PTL

LEMMA FinalistsHaveShares ==
  ASSUME NEW x \in RowSet, NEW p \in TopTwos(x), NEW c \in {p[1], p[2]}, x.share[c] = 0
  PROVE  Cardinality(Alive(x)) < 2
<1>1. p \in Pairs /\ p[1] \in Candidates /\ p[2] \in Candidates
  BY DEF TopTwos, Pairs
<1>2. \A b \in Candidates : x.share[b] \in Nat
  BY DEF RowSet
<1>3. Alive(x) \subseteq {p[1]}
  BY <1>2 DEF TopTwos, Alive
<1>4. IsFiniteSet({p[1]}) /\ Cardinality({p[1]}) = 1
  BY FS_Singleton
<1>5. Cardinality(Alive(x)) <= 1 /\ Cardinality(Alive(x)) \in Nat
  BY <1>3, <1>4, FS_Subset, FS_CardinalityType
<1>. QED BY <1>5

(* A candidate whose last intervention is a removal has no share in any    *)
(* draw of the latest forecast, and reaches a runoff only by default.      *)
THEOREM RemovedAreOut == Spec => []RemovedStayOut
<1>1. ASSUME Inv PROVE RemovedStayOut
  <2>. SUFFICES ASSUME NEW f \in Written, NEW c \in Candidates, Removed(f.run, c), NEW d \in Draws
                PROVE  /\ f.samples[d].share[c] = 0
                       /\ c \in {f.top[d][1], f.top[d][2]} => Cardinality(Alive(f.samples[d])) < 2
    BY DEF RemovedStayOut
  <2>1. RemovedIn(applied[f.run], c)
    BY DEF Removed, RemovedIn
  <2>2. /\ f.samples[d] \in RowSet /\ f.samples[d].share[c] = 0
        /\ f.top[d] \in TopTwos(f.samples[d])
    BY <1>1, <2>1, LatestRows
  <2>. QED BY <2>2, FinalistsHaveShares
<1>. QED BY <1>1, Invariance, PTL

-----------------------------------------------------------------------------
(* The draws of a set of pairs, counted by the matrix and one by one.      *)
PairsOf(top) == {top[d] : d \in Draws}
Drawn(top, T) == {d \in Draws : top[d] \in T}

LEMMA MatrixCounts ==
  ASSUME IsFiniteSet(Draws), NEW rows, NEW top, NEW S \in SUBSET PairsOf(top)
  PROVE  SumOver(RunoffMatrix(rows, top), S) = Cardinality(Drawn(top, S))
<1>. DEFINE M == RunoffMatrix(rows, top)
            P == {top[d] : d \in Draws}
            drawn(T) == {d \in Draws : top[d] \in T}
            Good == {T \in SUBSET P : SumOver(M, T) = Cardinality(drawn(T))}
<1>1. \A p \in P : M[p] = Cardinality({d \in Draws : top[d] = p})
  BY DEF RunoffMatrix
<1>2. \A T : IsFiniteSet(drawn(T)) /\ Cardinality(drawn(T)) \in Nat
  BY FS_Subset, FS_CardinalityType
<1>3. \A p : {d \in Draws : top[d] = p} = drawn({p})
  OBVIOUS
<1>4. IsFiniteSet(P)
  <2>. DEFINE g == [d \in Draws |-> top[d]]
  <2>1. g \in Surjection(Draws, P)
    BY DEF Surjection
  <2>. HIDE DEF g, P
  <2>. QED BY <2>1, FS_Surjection
<1>. HIDE DEF M, drawn
<1>5. \A p \in P : M[p] = Cardinality(drawn({p})) /\ M[p] \in Nat
  <2>. SUFFICES ASSUME NEW p \in P PROVE M[p] = Cardinality(drawn({p})) /\ M[p] \in Nat
    OBVIOUS
  <2>1. M[p] = Cardinality({d \in Draws : top[d] = p})
    BY <1>1
  <2>2. M[p] = Cardinality(drawn({p}))
    BY <1>3, <2>1
  <2>. QED BY <1>2, <2>2
<1>. HIDE DEF P
<1>6. Counts(M, P)
  BY <1>4, <1>5 DEF Counts
<1>7. {} \in Good
  <2>1. drawn({}) = {}
    BY DEF drawn
  <2>2. SumOver(M, {}) = 0 /\ Cardinality({}) = 0
    BY SumEmpty, FS_EmptySet
  <2>. QED BY <2>1, <2>2
<1>8. ASSUME NEW T \in SUBSET P, NEW p \in P \ T, T \in Good PROVE T \cup {p} \in Good
  <2>1. SumOver(M, T \cup {p}) = M[p] + SumOver(M, T)
    BY <1>6, SumAdd
  <2>2. drawn(T \cup {p}) = drawn({p}) \cup drawn(T) /\ drawn({p}) \cap drawn(T) = {}
    BY DEF drawn
  <2>. DEFINE u == drawn({p})  v == drawn(T)
  <2>3. IsFiniteSet(u) /\ IsFiniteSet(v) /\ Cardinality(u) \in Nat /\ Cardinality(v) \in Nat
    BY <1>2
  <2>4. Cardinality(drawn(T \cup {p})) = Cardinality(u) + Cardinality(v)
    <3>1. drawn(T \cup {p}) = u \cup v /\ u \cap v = {}
      BY <2>2
    <3>. HIDE DEF u, v
    <3>2. Cardinality(u \cup v) = Cardinality(u) + Cardinality(v) - Cardinality(u \cap v)
      BY <2>3, FS_Union
    <3>3. Cardinality(u \cap v) = 0
      BY <3>1, FS_EmptySet
    <3>4. Cardinality(u \cup v) = Cardinality(u) + Cardinality(v)
      BY <2>3, <3>2, <3>3
    <3>. QED BY <3>1, <3>4
  <2>5. SumOver(M, T) = Cardinality(drawn(T)) /\ M[p] = Cardinality(drawn({p}))
    BY <1>5, <1>8
  <2>. QED BY <2>1, <2>4, <2>5
<1>9. P \in Good /\ \A T \in SUBSET P : T \in Good
  <2>1. ASSUME NEW U \in SUBSET P PROVE U \in Good
    <3>1. IsFiniteSet(U)
      BY <1>4, FS_Subset
    <3>2. \A T \in SUBSET U : \A p \in U \ T : T \in Good => T \cup {p} \in Good
      BY <1>8
    <3>. HIDE DEF Good
    <3>. QED BY <1>7, <3>1, <3>2, SetInduct
  <2>. QED BY <2>1
<1>10. S \in Good
  BY <1>9 DEF P, PairsOf
<1>. QED BY <1>10 DEF M, drawn, Drawn

(* The summary and the runoff matrix of the latest forecast always agree.  *)
THEOREM PayloadCoherent == Spec => []PayloadIsCoherent
<1>1. ASSUME Inv PROVE PayloadIsCoherent
  <2>. SUFFICES ASSUME NEW f \in Written
                PROVE  LET p == PayloadOf(f)
                           qualifies(c) == {x \in DOMAIN p.matrix : c \in {x[1], x[2]}}
                       IN /\ Total(p.matrix) = Cardinality(Draws)
                          /\ \A c \in Candidates :
                               /\ p.candidates[c].qualifies = SumOver(p.matrix, qualifies(c))
                               /\ p.candidates[c].outright <= p.candidates[c].qualifies
    BY DEF PayloadIsCoherent
  <2>. DEFINE M == RunoffMatrix(f.samples, f.top)
              P == {f.top[d] : d \in Draws}
              q(c) == {x \in P : c \in {x[1], x[2]}}
              s(c) == Summary(f.samples, f.top, c)
              runoffs(c) == {d \in Draws : c \in {f.top[d][1], f.top[d][2]}}
              wins(c) == {d \in Draws : Outright(f.samples[d], f.top[d], c)}
  <2>1. DOMAIN M = P
    BY DEF RunoffMatrix
  <2>2. IsFiniteSet(Draws)
    BY ProductionAssumption
  <2>3. \A S \in SUBSET P : SumOver(M, S) = Cardinality({d \in Draws : f.top[d] \in S})
    <3>. DEFINE x == f.samples  t == f.top
    <3>1. \A S \in SUBSET PairsOf(t) : SumOver(RunoffMatrix(x, t), S) = Cardinality(Drawn(t, S))
      <4>. HIDE DEF x, t
      <4>. QED BY <2>2, MatrixCounts
    <3>. QED BY <3>1 DEF PairsOf, Drawn
  <2>4. Total(M) = Cardinality(Draws)
    <3>1. Total(M) = SumOver(M, P)
      BY <2>1 DEF Total, SumOver
    <3>2. {d \in Draws : f.top[d] \in P} = Draws
      OBVIOUS
    <3>. QED BY <2>3, <3>1, <3>2
  <2>5. ASSUME NEW c \in Candidates
        PROVE  s(c).qualifies = SumOver(M, q(c)) /\ s(c).outright <= s(c).qualifies
    <3>1. s(c).qualifies = Cardinality(runoffs(c)) /\ s(c).outright = Cardinality(wins(c))
      BY DEF Summary
    <3>2. {d \in Draws : f.top[d] \in q(c)} = runoffs(c)
      OBVIOUS
    <3>3. SumOver(M, q(c)) = Cardinality(runoffs(c))
      <4>1. q(c) \in SUBSET P
        OBVIOUS
      <4>. QED BY <2>3, <3>2, <4>1
    <3>4. wins(c) \subseteq runoffs(c)
      BY DEF Outright
    <3>5. IsFiniteSet(runoffs(c))
      BY <2>2, FS_Subset
    <3>6. Cardinality(wins(c)) <= Cardinality(runoffs(c))
      BY <3>4, <3>5, FS_Subset
    <3>. QED BY <3>1, <3>3, <3>6
  <2>6. PayloadOf(f).matrix = M /\ \A c \in Candidates : PayloadOf(f).candidates[c] = s(c)
    BY DEF PayloadOf, Payload
  <2>. HIDE DEF M, P, s
  <2>. QED BY <2>1, <2>4, <2>5, <2>6
<1>. QED BY <1>1, Invariance, PTL

-----------------------------------------------------------------------------
(* The gates.                                                              *)
(* A pass of all gates.                                                    *)
LEMMA AllGatesPassed ==
  ASSUME NEW payload, NEW b, FailedGates(payload, b) = {}
  PROVE  /\ Coverage(b.entries, "p10", "p90", 80)
         /\ Coverage(b.entries, "p05", "p95", 95)
         /\ TopThreeError(b.entries)
         /\ PayloadFinite(payload)
<1>. DEFINE passed == [C1 |-> Coverage(b.entries, "p10", "p90", 80),
                       C2 |-> Coverage(b.entries, "p05", "p95", 95),
                       C3 |-> TopThreeError(b.entries),
                       C4 |-> PayloadFinite(payload),
                       C5 |-> RunoffSimplex(payload),
                       C6 |-> b.converged]
<1>1. \A g \in GateNames : passed[g]
  <2>1. {g \in GateNames : ~passed[g]} = {}
    BY DEF FailedGates
  <2>. HIDE DEF passed
  <2>. QED BY <2>1
<1>2. passed["C1"] /\ passed["C2"] /\ passed["C3"] /\ passed["C4"]
  <2>. HIDE DEF passed
  <2>. QED BY <1>1 DEF GateNames
<1>3. /\ passed["C1"] = Coverage(b.entries, "p10", "p90", 80)
      /\ passed["C2"] = Coverage(b.entries, "p05", "p95", 95)
      /\ passed["C3"] = TopThreeError(b.entries)
      /\ passed["C4"] = PayloadFinite(payload)
  OBVIOUS
<1>. HIDE DEF passed
<1>. QED BY <1>2, <1>3

LEMMA UpToCount ==
  ASSUME NEW n \in Nat PROVE IsFiniteSet(1..n) /\ Cardinality(1..n) = n
BY FS_Interval

LEMMA CoverageSpec ==
  ASSUME NEW S, NEW entries \in Seq(S), NEW lo, NEW hi, NEW pct \in 0..100,
         Coverage(entries, lo, hi, pct)
  PROVE  LET outside == {k \in DOMAIN entries : ~Covers(entries[k], lo, hi)}
         IN 100 * Cardinality(outside) <= (100 - pct) * Len(entries)
<1>. DEFINE D == DOMAIN entries
            inside == {k \in D : Covers(entries[k], lo, hi)}
            outside == {k \in D : ~Covers(entries[k], lo, hi)}
            n == Len(entries)
<1>1. n \in Nat /\ IsFiniteSet(D) /\ Cardinality(D) = n
  <2>1. n \in Nat /\ D = 1..n
    OBVIOUS
  <2>. HIDE DEF D, n
  <2>. QED BY <2>1, UpToCount
<1>2. 100 * Cardinality(inside) >= pct * n
  BY DEF Coverage
<1>3. inside \cup outside = D /\ inside \cap outside = {}
  OBVIOUS
<1>. HIDE DEF D, n, inside, outside
<1>4. IsFiniteSet(inside) /\ IsFiniteSet(outside)
  BY <1>1, <1>3, FS_Subset
<1>5. Cardinality(inside) \in Nat /\ Cardinality(outside) \in Nat
  BY <1>4, FS_CardinalityType
<1>6. n = Cardinality(inside) + Cardinality(outside)
  <2>1. Cardinality(inside \cup outside)
          = Cardinality(inside) + Cardinality(outside) - Cardinality(inside \cap outside)
    BY <1>4, FS_Union
  <2>2. Cardinality(inside \cap outside) = 0
    BY <1>3, FS_EmptySet
  <2>3. Cardinality(inside \cup outside) = Cardinality(inside) + Cardinality(outside)
    BY <1>5, <2>1, <2>2
  <2>. QED BY <1>1, <1>3, <2>3
<1>7. 100 * Cardinality(outside) <= (100 - pct) * n
  <2>1. 100 * n = 100 * Cardinality(inside) + 100 * Cardinality(outside)
    BY <1>5, <1>6
  <2>2. (100 - pct) * n = 100 * n - pct * n
    BY <1>1
  <2>3. pct * n \in Nat
    BY <1>1
  <2>. QED BY <1>1, <1>2, <1>5, <2>1, <2>2, <2>3
<1>. QED BY <1>7 DEF outside, D, n

-----------------------------------------------------------------------------
LEMMA JudgedErrors ==
  ASSUME NEW S, NEW entries \in Seq(S), \A k \in DOMAIN entries : IsEntry(entries[k])
  PROVE  /\ IsFiniteSet(Judged(entries)) /\ Judged(entries) \in SUBSET Nat
         /\ \A k \in Judged(entries) : AbsError(entries[k]) \in Nat
<1>1. Len(entries) \in Nat /\ DOMAIN entries = 1..Len(entries)
  OBVIOUS
<1>2. Judged(entries) \in SUBSET (1..Len(entries))
  BY <1>1 DEF Judged, TopThree
<1>3. IsFiniteSet(Judged(entries))
  BY <1>1, <1>2, UpToCount, FS_Subset
<1>4. ASSUME NEW k \in Judged(entries) PROVE AbsError(entries[k]) \in Nat
  <2>1. IsEntry(entries[k])
    BY <1>1, <1>2
  <2>2. entries[k].truth \in Int /\ "p50" \in DOMAIN entries[k].q
    BY <2>1 DEF IsEntry, Judged
  <2>4. entries[k].q["p50"] \in Int
    BY <2>1, <2>2 DEF IsEntry
  <2>. QED BY <2>2, <2>4 DEF AbsError
<1>. QED BY <1>1, <1>2, <1>3, <1>4

(* If twice the median is ten at most, half of the errors are five at most.*)
LEMMA MedianSpec ==
  ASSUME NEW S, NEW entries \in Seq(S), \A k \in DOMAIN entries : IsEntry(entries[k]),
         TopThreeError(entries)
  PROVE  LET near == {k \in Judged(entries) : AbsError(entries[k]) <= 5}
         IN near # {} /\ 2 * Cardinality(near) >= Cardinality(Judged(entries))
<1>. DEFINE J == Judged(entries)
            err(k) == AbsError(entries[k])
            near == {k \in J : err(k) <= 5}
            n == Cardinality(J)
            R == {p \in J \X J : err(p[1]) < err(p[2]) \/ (err(p[1]) = err(p[2]) /\ p[1] < p[2])}
            rank(x) == Cardinality(Before(R, J, x))
            nth(k) == CHOOSE x \in J :
                        Cardinality({y \in J : err(y) < err(x) \/ (err(y) = err(x) /\ y < x)}) = k - 1
            errors == [k \in 1..n |-> err(nth(k))]
            low == (n + 1) \div 2
            high == n \div 2 + 1
<1>1. IsFiniteSet(J) /\ J \in SUBSET Nat /\ \A k \in J : err(k) \in Nat
  BY JudgedErrors
<1>2. J # {} /\ MedianTwice(errors) <= 10
  BY DEF TopThreeError, Nth
<1>3. n \in Nat /\ n >= 1
  BY <1>1, <1>2, FS_CardinalityType, FS_EmptySet
<1>4. IsOrder(R, J)
  <2>. HIDE DEF J, err
  <2>. QED BY <1>1 DEF IsOrder
<1>5. \A x \in J : Before(R, J, x) = {y \in J : err(y) < err(x) \/ (err(y) = err(x) /\ y < x)}
  <2>. HIDE DEF J, err
  <2>. QED BY DEF Before
<1>6. \A x, y \in J : err(x) < err(y) => <<x, y>> \in R
  <2>. HIDE DEF J, err
  <2>. QED OBVIOUS
<1>. HIDE DEF J, err, R
<1>7. ASSUME NEW k \in 1..n PROVE nth(k) \in J /\ rank(nth(k)) = k - 1
  <2>1. PICK x \in J : rank(x) = k - 1
    BY <1>1, <1>4, OrderNumbers
  <2>2. Cardinality({y \in J : err(y) < err(x) \/ (err(y) = err(x) /\ y < x)}) = k - 1
    BY <1>5, <2>1
  <2>3. /\ nth(k) \in J
        /\ Cardinality({y \in J : err(y) < err(nth(k)) \/ (err(y) = err(nth(k)) /\ y < nth(k))}) = k - 1
    BY <2>2
  <2>. QED BY <1>5, <2>3
<1>8. low \in 1..n /\ high \in 1..n /\ low <= high /\ 2 * low >= n
  <2>. HIDE DEF n
  <2>. QED BY <1>3, Z3
<1>9. err(nth(low)) + err(nth(high)) <= 10
  <2>1. Len(errors) = n
    <3>. HIDE DEF n, nth
    <3>. QED BY <1>3
  <2>2. errors[low] = err(nth(low)) /\ errors[high] = err(nth(high))
    <3>. HIDE DEF n, nth, low, high
    <3>. QED BY <1>8
  <2>3. MedianTwice(errors) = errors[low] + errors[high]
    <3>. HIDE DEF errors
    <3>. QED BY <2>1 DEF MedianTwice
  <2>. HIDE DEF errors
  <2>. QED BY <1>2, <2>2, <2>3
<1>. DEFINE a == nth(low)  b == nth(high)
<1>10. a \in J /\ b \in J /\ rank(a) = low - 1 /\ rank(b) = high - 1
  BY <1>7, <1>8
<1>11. \A x, y \in J : <<x, y>> \in R <=> rank(x) < rank(y)
  BY <1>1, <1>4, OrderRanks
<1>12. err(a) + err(b) <= 10
  BY <1>9
<1>. HIDE DEF a, b, nth, rank
<1>13. err(a) <= err(b)
  <2>1. ~(rank(b) < rank(a))
    <3>. HIDE DEF low, high, n
    <3>. QED BY <1>3, <1>8, <1>10
  <2>2. ~(err(b) < err(a))
    BY <1>6, <1>10, <1>11, <2>1
  <2>. QED BY <1>1, <1>10, <2>2
<1>14. err(a) <= 5
  <2>1. err(a) \in Nat /\ err(b) \in Nat
    BY <1>1, <1>10
  <2>. QED BY <1>12, <1>13, <2>1
<1>15. Before(R, J, a) \cup {a} \subseteq near /\ a \notin Before(R, J, a)
  <2>1. \A y \in Before(R, J, a) : y \in J /\ err(y) <= 5 /\ y # a
    <3>. SUFFICES ASSUME NEW y \in Before(R, J, a) PROVE y \in J /\ err(y) <= 5 /\ y # a
      OBVIOUS
    <3>1. y \in J /\ (err(y) < err(a) \/ (err(y) = err(a) /\ y < a))
      BY <1>5, <1>10
    <3>2. err(y) \in Nat /\ err(a) \in Nat /\ y \in Nat /\ a \in Nat
      BY <1>1, <1>10, <3>1
    <3>. QED BY <1>14, <3>1, <3>2
  <2>. QED BY <1>10, <1>14, <2>1
<1>16. IsFiniteSet(near) /\ Cardinality(near) \in Nat
  <2>1. near \subseteq J
    OBVIOUS
  <2>. HIDE DEF near
  <2>. QED BY <1>1, <2>1, FS_Subset, FS_CardinalityType
<1>17. Cardinality(Before(R, J, a) \cup {a}) = low
  <2>. DEFINE B == Before(R, J, a)
  <2>1. IsFiniteSet(B)
    BY <1>1, FS_Subset DEF Before
  <2>2. Cardinality(B) = low - 1
    BY <1>10 DEF rank
  <2>3. a \notin B
    BY <1>15
  <2>4. IsFiniteSet(B \cup {a}) /\ (B \cup {a}) \ {a} = B /\ a \in B \cup {a}
    <3>. HIDE DEF B
    <3>. QED BY <2>1, <2>3, FS_AddElement
  <2>. HIDE DEF B
  <2>5. Cardinality(B \cup {a}) \in Nat /\ Cardinality(B) = Cardinality(B \cup {a}) - 1
    BY <2>4, TakeOut
  <2>6. low \in Nat
    <3>. HIDE DEF low, n
    <3>. QED BY <1>3, <1>8
  <2>7. Cardinality(B \cup {a}) = low
    <3>. HIDE DEF low
    <3>. QED BY <2>2, <2>5, <2>6
  <2>. QED BY <2>7 DEF B
<1>18. low <= Cardinality(near)
  <2>. HIDE DEF near, low
  <2>. QED BY <1>15, <1>16, <1>17, FS_Subset
<1>19. near # {}
  BY <1>15
<1>20. 2 * Cardinality(near) >= n
  <2>1. low \in Nat
    <3>. HIDE DEF low, n
    <3>. QED BY <1>3, <1>8
  <2>. HIDE DEF near, low, n
  <2>. QED BY <1>3, <1>8, <1>16, <1>18, <2>1
<1>. QED BY <1>19, <1>20 DEF near, n, J, err

(* Whatever the backtests yield, a forecast that passes every gate keeps   *)
(* what ADR-013 promises of it.                                            *)
THEOREM PassIsCalibrated == Spec => []PassMeansCalibrated
<1>1. ASSUME Inv PROVE PassMeansCalibrated
  <2>. SUFFICES ASSUME NEW f \in Written, NEW b \in Backtests, FailedGates(PayloadOf(f), b) = {}
                PROVE
                  LET outside(lo, hi) == {k \in DOMAIN b.entries : ~Covers(b.entries[k], lo, hi)}
                      near == {k \in Judged(b.entries) : AbsError(b.entries[k]) <= 5}
                  IN /\ 5 * Cardinality(outside("p10", "p90")) <= Len(b.entries)
                     /\ 20 * Cardinality(outside("p05", "p95")) <= Len(b.entries)
                     /\ near # {} /\ 2 * Cardinality(near) >= Cardinality(Judged(b.entries))
                     /\ \A c \in Candidates : \E d \in Draws : f.samples[d].share[c] > 0
    BY DEF PassMeansCalibrated
  <2>. DEFINE e == b.entries
              out10 == {k \in DOMAIN e : ~Covers(e[k], "p10", "p90")}
              out05 == {k \in DOMAIN e : ~Covers(e[k], "p05", "p95")}
              near == {k \in Judged(e) : AbsError(e[k]) <= 5}
  <2>0. e \in Seq(Seqs!ToSet(e)) /\ \A k \in DOMAIN e : IsEntry(e[k])
    BY ProductionAssumption
  <2>1. Len(e) \in Nat
    BY <2>0
  <2>2. /\ Coverage(e, "p10", "p90", 80)
        /\ Coverage(e, "p05", "p95", 95)
        /\ TopThreeError(e)
        /\ PayloadFinite(PayloadOf(f))
    BY AllGatesPassed
  <2>3. ASSUME NEW c \in Candidates PROVE \E d \in Draws : f.samples[d].share[c] > 0
    <3>1. ~(\A d \in Draws : f.samples[d].share[c] = 0)
      BY <2>2 DEF PayloadFinite, PayloadOf, Payload, Summary
    <3>2. PICK d \in Draws : f.samples[d].share[c] # 0
      BY <3>1
    <3>3. f.samples[d] \in RowSet
      BY <1>1, LatestRows
    <3>4. f.samples[d].share[c] \in Nat
      BY <3>3 DEF RowSet
    <3>. QED BY <3>2, <3>4
  <2>. HIDE DEF e
  <2>4. near # {} /\ 2 * Cardinality(near) >= Cardinality(Judged(e))
    BY <2>0, <2>2, MedianSpec
  <2>5. IsFiniteSet(DOMAIN e)
    <3>1. DOMAIN e = 1..Len(e)
      BY <2>0
    <3>. QED BY <2>1, <3>1, UpToCount
  <2>6. Cardinality(out10) \in Nat /\ Cardinality(out05) \in Nat
    BY <2>5, FS_Subset, FS_CardinalityType
  <2>7. 100 * Cardinality(out10) <= (100 - 80) * Len(e)
    <3>1. 80 \in 0..100
      OBVIOUS
    <3>. QED BY <2>0, <2>2, <3>1, CoverageSpec
  <2>8. 100 * Cardinality(out05) <= (100 - 95) * Len(e)
    <3>1. 95 \in 0..100
      OBVIOUS
    <3>. QED BY <2>0, <2>2, <3>1, CoverageSpec
  <2>9. 5 * Cardinality(out10) <= Len(e) /\ 20 * Cardinality(out05) <= Len(e)
    <3>. HIDE DEF out10, out05
    <3>. QED BY <2>1, <2>6, <2>7, <2>8
  <2>. QED BY <2>3, <2>4, <2>9 DEF e, out10, out05, near
<1>. QED BY <1>1, Invariance, PTL
===============================================================================
