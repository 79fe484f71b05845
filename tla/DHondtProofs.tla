----------------------------- MODULE DHondtProofs -----------------------------
(***************************************************************************)
(* Proofs about DHondt, for all parties, votes and seats.                  *)
(***************************************************************************)
EXTENDS DHondt, FiniteSetTheorems, TLAPS

(* No party has more seats than there were rounds, and the scan's best is  *)
(* one of the scanned parties as soon as there is one.                     *)
Rounds ==
  /\ \A p \in Parties : result[p] <= given
  /\ scanned # {} => best # None

Typed == TypeOK /\ Rounds

LEMMA TypedHolds == Spec => []Typed
<1>. USE DHondtAssumption DEF None
<1>1. Init => Typed
  BY DEF Init, Typed, TypeOK, Rounds
<1>2. Typed /\ [Next]_vars => Typed'
  <2>. SUFFICES ASSUME Typed, [Next]_vars PROVE Typed'
    OBVIOUS
  <2>1. ASSUME NEW p \in Parties, Scan(p) PROVE Typed'
    BY <2>1 DEF Typed, TypeOK, Rounds, Scan, Eligible
  <2>2. ASSUME Award PROVE Typed'
    <3>1. best \in Parties /\ given \in 0..MaxSeats /\ given + 1 \in 0..MaxSeats
      BY <2>2 DEF Typed, TypeOK, Award, Eligible
    <3>2. result[best] \in Nat /\ result[best] <= given
      BY <3>1 DEF Typed, TypeOK, Rounds
    <3>3. result' \in [Parties -> 0..MaxSeats]
      BY <2>2, <3>1, <3>2 DEF Typed, TypeOK, Award
    <3>4. ASSUME NEW p \in Parties PROVE result'[p] <= given + 1
      BY <2>2, <3>1, <3>2 DEF Typed, TypeOK, Rounds, Award
    <3>. QED BY <2>2, <3>1, <3>3, <3>4 DEF Typed, TypeOK, Rounds, Award, Eligible
  <2>3. CASE UNCHANGED vars
    BY <2>3 DEF Typed, TypeOK, Rounds, vars, Eligible
  <2>. QED BY <2>1, <2>2, <2>3 DEF Next
<1>. QED BY <1>1, <1>2, PTL DEF Spec

(* Allocate's variables keep their types; in particular no party gets more *)
(* seats than there are.                                                   *)
THEOREM TypeCorrect == Spec => []TypeOK
<1>1. Typed => TypeOK
  BY DEF Typed
<1>. QED BY <1>1, TypedHolds, PTL

-----------------------------------------------------------------------------
(* Arithmetic of quotients a/x, written as products.                       *)

LEMMA Monotone ==
  ASSUME NEW a \in Nat, NEW b \in Nat, NEW c \in Nat, a <= b
  PROVE  a * c <= b * c
OBVIOUS

LEMMA StrictlyMonotone ==
  ASSUME NEW a \in Nat, NEW b \in Nat, NEW c \in Nat, a < b, c > 0
  PROVE  a * c < b * c
<1>1. a + 1 <= b
  OBVIOUS
<1>2. (a + 1) * c <= b * c
  BY <1>1, Monotone
<1>3. (a + 1) * c = a * c + c
  OBVIOUS
<1>4. a * c \in Nat /\ b * c \in Nat
  OBVIOUS
<1>. QED BY <1>2, <1>3, <1>4

(* If a/x exceeds b/y, which is at least c/z, then a/x exceeds c/z.        *)
LEMMA QuotientsOrdered ==
  ASSUME NEW a \in Nat, NEW b \in Nat, NEW c \in Nat,
         NEW x \in Nat, NEW y \in Nat, NEW z \in Nat, x > 0, y > 0, z > 0,
         a * y > b * x, b * z >= c * y
  PROVE  a * z > c * x
<1>. DEFINE ay == a * y  bx == b * x  bz == b * z  cy == c * y  az == a * z  cx == c * x
<1>1. ay \in Nat /\ bx \in Nat /\ bz \in Nat /\ cy \in Nat /\ az \in Nat /\ cx \in Nat
  OBVIOUS
<1>2. bx * z < ay * z
  BY <1>1, StrictlyMonotone
<1>3. cy * x <= bz * x
  BY <1>1, Monotone
<1>4. bx * z = bz * x /\ ay * z = az * y /\ cy * x = cx * y
  OBVIOUS
<1>5. cx * y < az * y
  <2>1. cx * y \in Nat /\ az * y \in Nat /\ bz * x \in Nat
    OBVIOUS
  <2>. HIDE DEF ay, bx, bz, cy, az, cx
  <2>. QED BY <1>2, <1>3, <1>4, <2>1
<1>6. ASSUME az <= cx PROVE FALSE
  <2>1. az * y <= cx * y
    BY <1>1, <1>6, Monotone
  <2>2. cx * y \in Nat /\ az * y \in Nat
    OBVIOUS
  <2>. HIDE DEF ay, bx, bz, cy, az, cx
  <2>. QED BY <1>5, <2>1, <2>2
<1>. QED BY <1>1, <1>6

-----------------------------------------------------------------------------
(* p's next quotient exceeds q's, or equals it and p has the lower id.     *)
Leads(p, q) ==
  \/ votes[p] * (result[q] + 1) > votes[q] * (result[p] + 1)
  \/ votes[p] * (result[q] + 1) = votes[q] * (result[p] + 1) /\ p < q

(* The scan goes up through the ids, and its best leads what it has seen.  *)
ScanOrder == \A p \in scanned, q \in Eligible \ scanned : p < q
BestLeads == best # None => \A q \in scanned \ {best} : Leads(best, q)

Highest == Typed /\ ScanOrder /\ BestLeads /\ AveragesAreHighest

LEMMA PartyTypes ==
  Typed => \A p \in Eligible : /\ p \in Parties /\ p \in Nat
                               /\ votes[p] \in Nat /\ votes[p] > 0
                               /\ result[p] \in Nat
BY DHondtAssumption DEF Typed, TypeOK, Eligible

LEMMA ScanKeeps ==
  ASSUME Highest, Typed', NEW p \in Parties, Scan(p)
  PROVE  Highest'
<1>. USE DEF None
<1>1. /\ votes' = votes /\ result' = result /\ Eligible' = Eligible
      /\ scanned' = scanned \cup {p} /\ p \in Eligible /\ p \notin scanned
  BY DEF Scan, Eligible
<1>2. \A q \in Eligible : q \in Nat
  BY PartyTypes DEF Highest
<1>3. scanned \subseteq Eligible /\ (best # None => best \in scanned)
  BY DEF Highest, Typed, TypeOK
<1>4. ScanOrder'
  <2>1. \A q \in Eligible \ scanned : p <= q
    BY DEF Scan
  <2>. QED BY <1>1, <1>2, <1>3, <2>1 DEF Highest, ScanOrder
<1>5. BestLeads'
  <2>1. CASE best = None
    <3>1. scanned = {} /\ best' = p
      BY <2>1 DEF Highest, Typed, Rounds, Scan
    <3>. QED BY <1>1, <3>1 DEF BestLeads
  <2>2. CASE best # None /\ Beats(p, best)
    <3>1. best' = p
      BY <2>2 DEF Scan
    <3>2. ASSUME NEW q \in scanned
          PROVE  votes[best] * (result[q] + 1) >= votes[q] * (result[best] + 1)
      <4>1. CASE q = best
        BY <4>1, <1>3, PartyTypes DEF Highest
      <4>2. CASE q # best
        <5>1. Leads(best, q)
          BY <2>2, <4>2 DEF Highest, BestLeads
        <5>2. /\ votes[best] * (result[q] + 1) \in Nat
              /\ votes[q] * (result[best] + 1) \in Nat
          BY <1>3, <2>2, PartyTypes DEF Highest
        <5>. QED BY <5>1, <5>2 DEF Leads
      <4>. QED BY <4>1, <4>2
    <3>3. ASSUME NEW q \in scanned
          PROVE  votes[p] * (result[q] + 1) > votes[q] * (result[p] + 1)
      <4>1. /\ votes[p] \in Nat /\ votes[best] \in Nat /\ votes[q] \in Nat
            /\ result[p] + 1 \in Nat /\ result[best] + 1 \in Nat /\ result[q] + 1 \in Nat
            /\ result[p] + 1 > 0 /\ result[best] + 1 > 0 /\ result[q] + 1 > 0
        BY <1>1, <1>3, <2>2, PartyTypes DEF Highest
      <4>2. votes[p] * (result[best] + 1) > votes[best] * (result[p] + 1)
        BY <2>2 DEF Beats
      <4>3. votes[best] * (result[q] + 1) >= votes[q] * (result[best] + 1)
        BY <3>2
      <4>. QED BY <4>1, <4>2, <4>3, QuotientsOrdered
    <3>. QED BY <1>1, <3>1, <3>3 DEF BestLeads, Leads
  <2>3. CASE best # None /\ ~Beats(p, best)
    <3>1. best' = best
      BY <2>3 DEF Scan
    <3>2. Leads(best, p)
      <4>1. best < p
        BY <1>1, <1>3, <2>3 DEF Highest, ScanOrder
      <4>2. /\ votes[best] * (result[p] + 1) \in Nat
            /\ votes[p] * (result[best] + 1) \in Nat
        BY <1>1, <1>3, <2>3, PartyTypes DEF Highest
      <4>. QED BY <2>3, <4>1, <4>2 DEF Beats, Leads
    <3>. QED BY <1>1, <2>3, <3>1, <3>2 DEF Highest, BestLeads, Leads
  <2>. QED BY <2>1, <2>2, <2>3
<1>6. AveragesAreHighest'
  BY <1>1 DEF Highest, AveragesAreHighest
<1>. QED BY <1>4, <1>5, <1>6 DEF Highest

LEMMA AwardKeeps ==
  ASSUME Highest, Typed', Award
  PROVE  Highest'
<1>. USE DEF None
<1>1. /\ votes' = votes /\ Eligible' = Eligible /\ scanned' = {} /\ best' = None
      /\ scanned = Eligible /\ best # None
  BY DEF Award, Eligible
<1>2. best \in Eligible /\ best \in Parties
  BY <1>1, PartyTypes DEF Highest, Typed, TypeOK
<1>3. result'[best] = result[best] + 1
  BY <1>2 DEF Award, Highest, Typed, TypeOK
<1>4. \A p \in Parties : p # best => result'[p] = result[p]
  BY DEF Award, Highest, Typed, TypeOK
<1>5. ASSUME NEW p \in Eligible, NEW q \in Eligible, p # q, result'[p] > 0
      PROVE  \/ votes[p] * (result'[q] + 1) > votes[q] * result'[p]
             \/ votes[p] * (result'[q] + 1) = votes[q] * result'[p] /\ p < q
  <2>0. /\ p \in Parties /\ q \in Parties
        /\ votes[p] \in Nat /\ votes[p] > 0 /\ votes[q] \in Nat
        /\ result[p] \in Nat /\ result[q] \in Nat
    BY PartyTypes DEF Highest
  <2>1. CASE p = best
    <3>1. Leads(best, q)
      BY <1>1, <1>5, <2>1 DEF Highest, BestLeads
    <3>2. result'[p] = result[best] + 1 /\ result'[q] = result[q]
      BY <1>3, <1>4, <1>5, <2>0, <2>1
    <3>. QED BY <2>1, <3>1, <3>2 DEF Leads
  <2>2. CASE q = best
    <3>1. result'[p] = result[p] /\ result'[q] = result[q] + 1
      BY <1>3, <1>4, <1>5, <2>0, <2>2
    <3>2. \/ votes[p] * (result[q] + 1) > votes[q] * result[p]
          \/ votes[p] * (result[q] + 1) = votes[q] * result[p]
      BY <1>5, <3>1 DEF Highest, AveragesAreHighest
    <3>3. votes[p] * (result[q] + 1 + 1) = votes[p] * (result[q] + 1) + votes[p]
      BY <2>0
    <3>4. votes[p] * (result[q] + 1) \in Nat /\ votes[q] * result[p] \in Nat
      BY <2>0
    <3>5. votes[p] * (result[q] + 1 + 1) > votes[q] * result[p]
      BY <2>0, <3>2, <3>3, <3>4
    <3>. QED BY <3>1, <3>5
  <2>3. CASE p # best /\ q # best
    <3>1. result'[p] = result[p] /\ result'[q] = result[q]
      BY <1>4, <2>0, <2>3
    <3>. QED BY <1>5, <3>1 DEF Highest, AveragesAreHighest
  <2>. QED BY <2>1, <2>2, <2>3
<1>6. AveragesAreHighest'
  BY <1>1, <1>5 DEF AveragesAreHighest
<1>. QED BY <1>1, <1>6 DEF Highest, ScanOrder, BestLeads

(* Highest averages, with ties to the lower id, after every comparison and *)
(* every round of Allocate, for any parties, votes and seats.              *)
THEOREM HighestAverages == Spec => []AveragesAreHighest
<1>1. Init => (Typed => Highest)
  BY DEF Init, Highest, ScanOrder, BestLeads, AveragesAreHighest, Eligible
<1>2. Highest /\ Typed' /\ [Next]_vars => Highest'
  <2>. SUFFICES ASSUME Highest, Typed', [Next]_vars PROVE Highest'
    OBVIOUS
  <2>1. CASE UNCHANGED vars
    BY <2>1 DEF Highest, ScanOrder, BestLeads, Leads, AveragesAreHighest, Eligible, vars
  <2>. QED BY <2>1, ScanKeeps, AwardKeeps DEF Next
<1>3. Highest => AveragesAreHighest
  BY DEF Highest
<1>. QED BY <1>1, <1>2, <1>3, TypedHolds, PTL DEF Spec

-----------------------------------------------------------------------------
(* The quotients of the seats awarded so far.  There is one for every      *)
(* round, and every one of them precedes all the others of the table.      *)
Won == {c \in Table : c[2] <= result[c[1]]}

Counted ==
  /\ Cardinality(Won) = given
  /\ \A p \in Parties \ Eligible : result[p] = 0

LEMMA UpTo ==
  ASSUME NEW n \in Nat
  PROVE  IsFiniteSet(1..n) /\ Cardinality(1..n) = n
<1>1. 1 \in Int /\ n \in Int
  OBVIOUS
<1>2. IsFiniteSet(1..n) /\ Cardinality(1..n) = IF 1 > n THEN 0 ELSE n - 1 + 1
  BY <1>1, FS_Interval
<1>. QED BY <1>2

LEMMA TableIsFinite == IsFiniteSet(Table)
<1>1. IsFiniteSet(Eligible)
  BY DHondtAssumption, FS_Subset DEF Eligible
<1>2. IsFiniteSet(1..MaxSeats)
  BY DHondtAssumption, UpTo
<1>. QED BY <1>1, <1>2, FS_Product DEF Table

LEMMA TableTypes ==
  ASSUME Typed, NEW c \in Table
  PROVE  /\ c = <<c[1], c[2]>>
         /\ c[1] \in Eligible /\ c[1] \in Parties /\ c[1] \in Nat
         /\ c[2] \in Nat /\ c[2] > 0
         /\ votes[c[1]] \in Nat /\ votes[c[1]] > 0 /\ result[c[1]] \in Nat
BY PartyTypes, DHondtAssumption DEF Table

LEMMA AwardCounts ==
  ASSUME Typed, Typed', Counted, Award
  PROVE  Counted'
<1>. DEFINE c == <<best, result[best] + 1>>
<1>1. /\ best \in Eligible /\ best \in Parties /\ result[best] \in Nat
      /\ result \in [Parties -> 0..MaxSeats] /\ MaxSeats \in Nat
      /\ Eligible' = Eligible /\ Table' = Table /\ given' = given + 1
  BY PartyTypes, DHondtAssumption DEF Award, Typed, TypeOK, Eligible, Table
<1>2. result'[best] = result[best] + 1 /\ \A p \in Parties : p # best => result'[p] = result[p]
  BY <1>1 DEF Award
<1>3. c \in Table /\ c[1] = best /\ c[2] = result[best] + 1
  BY <1>1, <1>2 DEF Typed, TypeOK, Table
<1>4. c \notin Won
  BY <1>1, <1>3 DEF Won
<1>5. Won' = Won \cup {c}
  <2>1. ASSUME NEW d \in Table PROVE d[2] <= result'[d[1]] <=> d \in Won \cup {c}
    <3>1. CASE d[1] = best
      <4>1. d[2] <= result[best] + 1 <=> d[2] <= result[best] \/ d[2] = result[best] + 1
        BY <1>1, TableTypes
      <4>2. d[2] = result[best] + 1 <=> d = c
        BY <3>1, TableTypes
      <4>3. d \in Won <=> d[2] <= result[best]
        BY <3>1 DEF Won
      <4>. QED BY <1>2, <3>1, <4>1, <4>2, <4>3
    <3>2. CASE d[1] # best
      <4>1. result'[d[1]] = result[d[1]]
        BY <1>2, <3>2, TableTypes
      <4>. QED BY <1>3, <3>2, <4>1 DEF Won
    <3>. QED BY <3>1, <3>2
  <2>2. Won' = {d \in Table : d[2] <= result'[d[1]]}
    BY <1>1 DEF Won
  <2>. QED BY <1>3, <2>1, <2>2 DEF Won
<1>6. IsFiniteSet(Won)
  BY TableIsFinite, FS_Subset DEF Won
<1>7. Cardinality(Won') = Cardinality(Won) + 1
  BY <1>4, <1>5, <1>6, FS_AddElement
<1>8. Cardinality(Won)' = Cardinality(Won')
  OBVIOUS
<1>9. \A p \in Parties \ Eligible : result'[p] = 0
  BY <1>1, <1>2 DEF Counted
<1>. QED BY <1>1, <1>7, <1>9 DEF Counted

LEMMA CountedHolds == Spec => []Counted
<1>1. Init /\ Typed => Counted
  <2>. SUFFICES ASSUME Init, Typed PROVE Counted
    OBVIOUS
  <2>1. \A d \in Table : ~(d[2] <= result[d[1]])
    BY TableTypes DEF Init
  <2>2. Won = {}
    BY <2>1 DEF Won
  <2>. QED BY <2>2, FS_EmptySet DEF Init, Counted, Eligible
<1>2. Typed /\ Typed' /\ Counted /\ [Next]_vars => Counted'
  <2>1. ASSUME UNCHANGED <<votes, result, given>>, Counted PROVE Counted'
    BY <2>1 DEF Counted, Won, Table, Eligible
  <2>. QED BY <2>1, AwardCounts DEF Next, Scan, vars
<1>. QED BY <1>1, <1>2, TypedHolds, PTL DEF Spec

(* What a seat was awarded for precedes what none was awarded for.         *)
LEMMA WonPrecede ==
  ASSUME Typed, AveragesAreHighest, NEW c \in Won, NEW d \in Table \ Won
  PROVE  Precedes(c, d)
<1>. DEFINE p == c[1]  i == c[2]  q == d[1]  j == d[2]
<1>1. /\ p \in Eligible /\ q \in Eligible /\ p \in Nat /\ q \in Nat
      /\ votes[p] \in Nat /\ votes[q] \in Nat /\ votes[p] > 0 /\ votes[q] > 0
      /\ result[p] \in Nat /\ result[q] \in Nat
      /\ i \in Nat /\ j \in Nat /\ i > 0 /\ j > 0
      /\ i <= result[p] /\ j > result[q]
  BY TableTypes DEF Won
<1>. HIDE DEF p, i, q, j
<1>2. CASE p = q
  <2>1. i < j
    BY <1>1, <1>2
  <2>2. i * votes[p] < j * votes[p]
    BY <1>1, <2>1, StrictlyMonotone
  <2>3. i * votes[p] = votes[p] * i /\ j * votes[p] = votes[p] * j
    BY <1>1
  <2>. QED BY <1>2, <2>2, <2>3 DEF Precedes, p, i, q, j
<1>3. CASE p # q
  <2>1. (result[q] + 1) * votes[p] <= j * votes[p]
    BY <1>1, Monotone
  <2>2. i * votes[q] <= result[p] * votes[q]
    BY <1>1, Monotone
  <2>3. \/ votes[p] * (result[q] + 1) > votes[q] * result[p]
        \/ votes[p] * (result[q] + 1) = votes[q] * result[p] /\ p < q
    BY <1>1, <1>3 DEF AveragesAreHighest
  <2>4. /\ (result[q] + 1) * votes[p] = votes[p] * (result[q] + 1)
        /\ j * votes[p] = votes[p] * j
        /\ i * votes[q] = votes[q] * i
        /\ result[p] * votes[q] = votes[q] * result[p]
        /\ votes[p] * (result[q] + 1) \in Int /\ votes[p] * j \in Int
        /\ votes[q] * i \in Int /\ votes[q] * result[p] \in Int
    BY <1>1
  <2>5. \/ votes[p] * j > votes[q] * i
        \/ votes[p] * j = votes[q] * i /\ p < q
    BY <2>1, <2>2, <2>3, <2>4
  <2>. QED BY <2>5 DEF Precedes, p, i, q, j
<1>. QED BY <1>2, <1>3

LEMMA PrecedesIsStrict ==
  ASSUME Typed, NEW a \in Table, NEW b \in Table, Precedes(a, b)
  PROVE  ~Precedes(b, a)
<1>1. votes[a[1]] * b[2] \in Nat /\ votes[b[1]] * a[2] \in Nat /\ a[1] \in Nat /\ b[1] \in Nat
  BY TableTypes
<1>. QED BY <1>1 DEF Precedes

LEMMA WonAreTop ==
  ASSUME Typed, Counted, AveragesAreHighest
  PROVE  TopQuotients = Won
<1>0. IsFiniteSet(Table) /\ IsFiniteSet(Won) /\ Won \subseteq Table
  BY TableIsFinite, FS_Subset DEF Won
<1>1. ASSUME NEW c \in Won PROVE Cardinality({a \in Table : Precedes(a, c)}) < given
  <2>. DEFINE before == {a \in Table : Precedes(a, c)}
  <2>1. before \subseteq Won \ {c}
    BY <1>0, WonPrecede, PrecedesIsStrict
  <2>2. IsFiniteSet(Won \ {c}) /\ Cardinality(Won \ {c}) = given - 1
    BY <1>0, FS_RemoveElement DEF Counted
  <2>3. Cardinality(before) <= given - 1 /\ Cardinality(before) \in Nat
    <3>. HIDE DEF before
    <3>. QED BY <2>1, <2>2, FS_Subset, FS_CardinalityType
  <2>. QED BY <2>3 DEF Typed, TypeOK
<1>2. ASSUME NEW c \in Table \ Won PROVE ~(Cardinality({a \in Table : Precedes(a, c)}) < given)
  <2>. DEFINE before == {a \in Table : Precedes(a, c)}
  <2>1. Won \subseteq before
    BY <1>0, <1>2, WonPrecede
  <2>2. IsFiniteSet(before)
    BY <1>0, FS_Subset
  <2>3. given <= Cardinality(before) /\ Cardinality(before) \in Nat
    <3>. HIDE DEF before
    <3>. QED BY <2>1, <2>2, FS_Subset, FS_CardinalityType DEF Counted
  <2>. QED BY <2>3 DEF Typed, TypeOK
<1>. QED BY <1>0, <1>1, <1>2 DEF TopQuotients

(* Of every party as many quotients are among the first as it has seats.   *)
LEMMA SeatsOfParty ==
  ASSUME Typed, Counted, NEW p \in Parties
  PROVE  result[p] = Cardinality({c \in Won : c[1] = p})
<1>. DEFINE mine == {c \in Won : c[1] = p}
<1>1. CASE p \notin Eligible
  <2>1. mine = {}
    BY <1>1, TableTypes DEF Won
  <2>. QED BY <1>1, <2>1, FS_EmptySet DEF Counted
<1>2. CASE p \in Eligible
  <2>1. result[p] \in 0..MaxSeats /\ MaxSeats \in Nat
    BY DHondtAssumption DEF Typed, TypeOK
  <2>2. mine = {p} \X (1..result[p])
    <3>1. ASSUME NEW c \in mine PROVE c \in {p} \X (1..result[p])
      <4>1. c \in Table /\ c[2] <= result[p] /\ c[1] = p
        BY DEF Won
      <4>2. c = <<p, c[2]>> /\ c[2] \in 1..result[p]
        BY <2>1, <4>1, TableTypes
      <4>. QED BY <4>2
    <3>2. ASSUME NEW i \in 1..result[p] PROVE <<p, i>> \in mine
      BY <1>2, <2>1 DEF Won, Table
    <3>. QED BY <3>1, <3>2
  <2>3. IsFiniteSet(1..result[p]) /\ Cardinality(1..result[p]) = result[p]
    BY <2>1, UpTo
  <2>4. IsFiniteSet({p}) /\ Cardinality({p}) = 1
    BY FS_Singleton
  <2>5. Cardinality(mine) = 1 * result[p]
    BY <2>2, <2>3, <2>4, FS_Product
  <2>. QED BY <2>1, <2>5
<1>. QED BY <1>1, <1>2

(* The loop implements the textbook definition: after every round of       *)
(* Allocate each party has a seat for each of its quotients among the      *)
(* first ones of the whole table, for any parties, votes and seats.        *)
THEOREM TopQuotientsWin == Spec => []SeatsAreTopQuotients
<1>1. Typed /\ Counted /\ AveragesAreHighest => SeatsAreTopQuotients
  BY WonAreTop, SeatsOfParty DEF SeatsAreTopQuotients
<1>. QED BY <1>1, TypedHolds, CountedHolds, HighestAverages, PTL
=============================================================================
