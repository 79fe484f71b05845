--------------------------- MODULE CollectionsProofs ---------------------------
(***************************************************************************)
(* Facts about the operators of Collections that several proofs need:      *)
(* induction over sets, folds, sums, the n-th element of a set.            *)
(***************************************************************************)
EXTENDS Collections, FiniteSetTheorems, TLAPS

-----------------------------------------------------------------------------
(* Induction over numbers and over finite sets.                            *)
(* Induction, with the set of the good ones in place of a predicate.       *)
LEMMA NatLeast ==
  ASSUME NEW T \in SUBSET Nat, T # {}
  PROVE  \E n \in T : \A m \in T : n <= m
<1>1. PICK n \in T : \A m \in T : ~(<<m, n>> \in OpToRel(<, Nat))
  BY NatLessThanWellFounded, WFMin
<1>2. \A m \in T : ~(m < n)
  BY <1>1 DEF OpToRel
<1>. QED BY <1>2

LEMMA NatInduct ==
  ASSUME NEW Good, 0 \in Good, \A n \in Nat : n \in Good => n + 1 \in Good
  PROVE  \A n \in Nat : n \in Good
<1>. SUFFICES ASSUME Nat \ Good # {} PROVE FALSE
  OBVIOUS
<1>1. PICK n \in Nat \ Good : \A m \in Nat \ Good : n <= m
  BY NatLeast
<1>2. n - 1 \in Nat /\ n - 1 \notin Good /\ ~(n <= n - 1)
  BY <1>1
<1>. QED BY <1>1, <1>2

LEMMA TakeOut ==
  ASSUME NEW S, IsFiniteSet(S), NEW x \in S
  PROVE  /\ IsFiniteSet(S \ {x})
         /\ Cardinality(S) \in Nat /\ Cardinality(S \ {x}) = Cardinality(S) - 1
BY FS_RemoveElement, FS_CardinalityType

LEMMA SetInduct ==
  ASSUME NEW S, IsFiniteSet(S), NEW Good, {} \in Good,
         \A T \in SUBSET S : \A x \in S \ T : T \in Good => T \cup {x} \in Good
  PROVE  S \in Good
<1>. DEFINE Sizes == {n \in Nat : \A T \in SUBSET S : Cardinality(T) = n => T \in Good}
<1>1. \A T \in SUBSET S : IsFiniteSet(T) /\ Cardinality(T) \in Nat
  BY FS_Subset, FS_CardinalityType
<1>2. 0 \in Sizes
  BY <1>1, FS_EmptySet
<1>3. ASSUME NEW n \in Nat, n \in Sizes PROVE n + 1 \in Sizes
  <2>. SUFFICES ASSUME NEW T \in SUBSET S, Cardinality(T) = n + 1 PROVE T \in Good
    OBVIOUS
  <2>1. PICK x \in T : TRUE
    BY <1>1, FS_EmptySet
  <2>2. Cardinality(T \ {x}) = n /\ T \ {x} \in SUBSET S
    <3>1. IsFiniteSet(T)
      BY <1>1
    <3>. QED BY <2>1, <3>1, TakeOut
  <2>3. T \ {x} \in Good
    BY <1>3, <2>2
  <2>4. (T \ {x}) \cup {x} = T /\ x \in S \ (T \ {x})
    BY <2>1
  <2>. QED BY <2>2, <2>3, <2>4
<1>. HIDE DEF Sizes
<1>4. \A n \in Nat : n \in Sizes
  BY <1>2, <1>3, NatInduct
<1>. QED BY <1>1, <1>4 DEF Sizes

(* Folding over the subsets of a finite set: the function exists.          *)
IsFold(g, D, base, step, pick) ==
  g = [s \in SUBSET D |-> IF s = {} THEN base ELSE step[<<pick[s], g[s \ {pick[s]}]>>]]

LEMMA FoldExists ==
  ASSUME NEW D, IsFiniteSet(D), NEW A, NEW base \in A, NEW step \in [D \X A -> A],
         NEW pick, \A s \in SUBSET D : s # {} => pick[s] \in s
  PROVE  \E g \in [SUBSET D -> A] : IsFold(g, D, base, step, pick)
<1>. DEFINE Upto(n) == {s \in SUBSET D : Cardinality(s) <= n}
            Value(g, s) == IF s = {} THEN base ELSE step[<<pick[s], g[s \ {pick[s]}]>>]
            Fine(g, n) == g \in [Upto(n) -> A] /\ \A s \in Upto(n) : g[s] = Value(g, s)
            Good == {n \in Nat : \E g \in [Upto(n) -> A] : Fine(g, n)}
<1>1. \A s \in SUBSET D : IsFiniteSet(s) /\ Cardinality(s) \in Nat
  BY FS_Subset, FS_CardinalityType
<1>2. ASSUME NEW n \in Nat, NEW s \in Upto(n + 1), s # {}
      PROVE  s \ {pick[s]} \in Upto(n) /\ pick[s] \in D
  <2>1. pick[s] \in s /\ s \in SUBSET D /\ s \ {pick[s]} \in SUBSET D
    BY <1>2
  <2>2. Cardinality(s \ {pick[s]}) = Cardinality(s) - 1 /\ Cardinality(s) \in Nat
    BY <1>1, <2>1, TakeOut
  <2>. QED BY <1>2, <2>1, <2>2
<1>3. 0 \in Good
  <2>1. \A s \in Upto(0) : s = {}
    BY <1>1, FS_EmptySet
  <2>2. Fine([s \in Upto(0) |-> base], 0)
    BY <2>1
  <2>. QED BY <2>2
<1>4. ASSUME NEW n \in Nat, n \in Good PROVE n + 1 \in Good
  <2>1. PICK g \in [Upto(n) -> A] : Fine(g, n)
    BY <1>4
  <2>. DEFINE h == [s \in Upto(n + 1) |-> Value(g, s)]
  <2>2. \A s \in Upto(n + 1) : Value(g, s) \in A
    BY <1>2, <2>1
  <2>3. \A s \in Upto(n) : s \in Upto(n + 1) /\ h[s] = g[s]
    BY <1>1, <2>1
  <2>4. ASSUME NEW s \in Upto(n + 1) PROVE h[s] = Value(h, s)
    <3>1. CASE s = {}
      BY <3>1
    <3>2. CASE s # {}
      <4>1. h[s \ {pick[s]}] = g[s \ {pick[s]}]
        BY <1>2, <2>3, <3>2
      <4>. HIDE DEF Upto
      <4>2. h[s] = step[<<pick[s], g[s \ {pick[s]}]>>]
        BY <3>2
      <4>. QED BY <3>2, <4>1, <4>2
    <3>. QED BY <3>1, <3>2
  <2>5. h \in [Upto(n + 1) -> A]
    BY <2>2
  <2>6. Fine(h, n + 1)
    BY <2>4, <2>5
  <2>. HIDE DEF h, Fine, Upto
  <2>7. \E k \in [Upto(n + 1) -> A] : Fine(k, n + 1)
    BY <2>5, <2>6
  <2>. QED BY <2>7
<1>. HIDE DEF Good
<1>5. Cardinality(D) \in Good
  BY <1>1, <1>3, <1>4, NatInduct
<1>6. PICK g \in [Upto(Cardinality(D)) -> A] : Fine(g, Cardinality(D))
  BY <1>5 DEF Good
<1>7. Upto(Cardinality(D)) = SUBSET D
  <2>1. \A s \in SUBSET D : Cardinality(s) <= Cardinality(D)
    BY FS_Subset
  <2>. QED BY <2>1
<1>8. g \in [SUBSET D -> A] /\ \A s \in SUBSET D : g[s] = Value(g, s)
  BY <1>6, <1>7
<1>. HIDE DEF Upto, Fine
<1>9. IsFold(g, D, base, step, pick)
  BY <1>8 DEF IsFold
<1>. QED BY <1>8, <1>9

-----------------------------------------------------------------------------
(* Sums.                                                                   *)
(* SumOver adds up in the order in which CHOOSE takes the elements out.    *)
First(s) == CHOOSE x \in s : TRUE
IsSum(g, h, S) == g = [s \in SUBSET S |-> IF s = {} THEN 0 ELSE h[First(s)] + g[s \ {First(s)}]]
Numbers(h, S) == IsFiniteSet(S) /\ \A x \in S : h[x] \in Int
Counts(h, S) == IsFiniteSet(S) /\ \A x \in S : h[x] \in Nat

LEMMA SumExists ==
  ASSUME NEW h, NEW S, Numbers(h, S)
  PROVE  \E g \in [SUBSET S -> Int] : IsSum(g, h, S)
<1>. DEFINE step == [a \in S \X Int |-> h[a[1]] + a[2]]
            pick == [s \in SUBSET S |-> First(s)]
<1>1. step \in [S \X Int -> Int]
  BY DEF Numbers
<1>2. \A s \in SUBSET S : s # {} => pick[s] \in s
  BY DEF First
<1>3. IsFiniteSet(S) /\ 0 \in Int
  BY DEF Numbers
<1>4. PICK g \in [SUBSET S -> Int] : IsFold(g, S, 0, step, pick)
  <2>. HIDE DEF step, pick
  <2>. QED BY <1>1, <1>2, <1>3, FoldExists
<1>5. ASSUME NEW s \in SUBSET S, s # {}
      PROVE step[<<pick[s], g[s \ {pick[s]}]>>] = h[First(s)] + g[s \ {First(s)}]
  BY <1>5, <1>2
<1>6. IsSum(g, h, S)
  <2>1. g = [s \in SUBSET S |-> IF s = {} THEN 0 ELSE step[<<pick[s], g[s \ {pick[s]}]>>]]
    BY <1>4 DEF IsFold
  <2>. HIDE DEF step, pick
  <2>2. \A s \in SUBSET S : g[s] = IF s = {} THEN 0 ELSE h[First(s)] + g[s \ {First(s)}]
    BY <1>5, <2>1
  <2>. QED BY <2>2 DEF IsSum
<1>. QED BY <1>6

LEMMA SumUnique ==
  ASSUME NEW h, NEW S, IsFiniteSet(S), NEW T \in SUBSET S, NEW g, NEW k,
         IsSum(g, h, S), IsSum(k, h, T)
  PROVE  g[T] = k[T]
<1>. DEFINE Good == {n \in Nat : \A U \in SUBSET T : Cardinality(U) <= n => g[U] = k[U]}
<1>1. \A U \in SUBSET T : IsFiniteSet(U) /\ Cardinality(U) \in Nat
  BY FS_Subset, FS_CardinalityType
<1>2. /\ \A U \in SUBSET T : g[U] = IF U = {} THEN 0 ELSE h[First(U)] + g[U \ {First(U)}]
      /\ \A U \in SUBSET T : k[U] = IF U = {} THEN 0 ELSE h[First(U)] + k[U \ {First(U)}]
  BY DEF IsSum
<1>3. 0 \in Good
  <2>1. \A U \in SUBSET T : Cardinality(U) <= 0 => U = {}
    BY <1>1, FS_EmptySet
  <2>. QED BY <1>2, <2>1
<1>4. ASSUME NEW n \in Nat, n \in Good PROVE n + 1 \in Good
  <2>0. g[{}] = k[{}]
    BY <1>2
  <2>. SUFFICES ASSUME NEW U \in SUBSET T, Cardinality(U) <= n + 1, U # {} PROVE g[U] = k[U]
    BY <2>0
  <2>1. First(U) \in U
    BY DEF First
  <2>2. U \ {First(U)} \in SUBSET T /\ Cardinality(U \ {First(U)}) <= n
    BY <1>1, <2>1, TakeOut
  <2>. QED BY <1>2, <1>4, <2>2
<1>. HIDE DEF Good
<1>5. Cardinality(T) \in Good
  BY <1>1, <1>3, <1>4, NatInduct
<1>. QED BY <1>1, <1>5 DEF Good

LEMMA SumIs ==
  ASSUME NEW h, NEW S, Numbers(h, S)
  PROVE  \E g \in [SUBSET S -> Int] :
           IsSum(g, h, S) /\ \A T \in SUBSET S : SumOver(h, T) = g[T]
<1>1. PICK g \in [SUBSET S -> Int] : IsSum(g, h, S)
  BY SumExists
<1>2. ASSUME NEW T \in SUBSET S PROVE SumOver(h, T) = g[T]
  <2>1. Numbers(h, T)
    BY FS_Subset DEF Numbers
  <2>2. \E k : IsSum(k, h, T)
    BY <2>1, SumExists
  <2>. DEFINE k == CHOOSE k : IsSum(k, h, T)
  <2>3. IsSum(k, h, T)
    BY <2>2
  <2>4. SumOver(h, T) = k[T]
    BY DEF SumOver, Sets!MapThenSumSet, Sets!MapThenFoldSet, IsSum, First
  <2>. HIDE DEF k
  <2>. QED BY <1>1, <2>3, <2>4, SumUnique DEF Numbers
<1>. QED BY <1>1, <1>2

LEMMA SumIsNumber ==
  ASSUME NEW h, NEW S, Numbers(h, S)
  PROVE  SumOver(h, S) \in Int
<1>1. PICK g \in [SUBSET S -> Int] : IsSum(g, h, S) /\ \A T \in SUBSET S : SumOver(h, T) = g[T]
  BY SumIs
<1>2. SumOver(h, S) = g[S] /\ S \in SUBSET S
  BY <1>1
<1>. QED BY <1>2

LEMMA SumEmpty == \A h : SumOver(h, {}) = 0
<1>. SUFFICES ASSUME NEW h PROVE SumOver(h, {}) = 0
  OBVIOUS
<1>1. Numbers(h, {})
  BY FS_EmptySet DEF Numbers
<1>. QED BY <1>1, SumIs DEF IsSum

LEMMA SumFirst ==
  ASSUME NEW h, NEW S, Numbers(h, S), S # {}
  PROVE  SumOver(h, S) = h[First(S)] + SumOver(h, S \ {First(S)})
<1>1. PICK g \in [SUBSET S -> Int] :
         IsSum(g, h, S) /\ \A T \in SUBSET S : SumOver(h, T) = g[T]
  BY SumIs
<1>2. g[S] = h[First(S)] + g[S \ {First(S)}]
  BY <1>1 DEF IsSum
<1>. QED BY <1>1, <1>2

(* Any element may be taken out first.                                     *)
LEMMA SumWithout ==
  ASSUME NEW h, NEW S, Numbers(h, S), NEW x \in S
  PROVE  SumOver(h, S) = h[x] + SumOver(h, S \ {x})
<1>. DEFINE Good == {n \in Nat : \A T \in SUBSET S : Cardinality(T) = n =>
                       \A y \in T : SumOver(h, T) = h[y] + SumOver(h, T \ {y})}
<1>1. \A T \in SUBSET S : /\ IsFiniteSet(T) /\ Cardinality(T) \in Nat /\ Numbers(h, T)
                          /\ SumOver(h, T) \in Int
  <2>1. \A T \in SUBSET S : IsFiniteSet(T) /\ Cardinality(T) \in Nat /\ Numbers(h, T)
    BY FS_Subset, FS_CardinalityType DEF Numbers
  <2>. QED BY <2>1, SumIsNumber
<1>2. 0 \in Good
  BY <1>1, FS_EmptySet
<1>3. ASSUME NEW n \in Nat, n \in Good PROVE n + 1 \in Good
  <2>. SUFFICES ASSUME NEW T \in SUBSET S, Cardinality(T) = n + 1, NEW y \in T
                PROVE  SumOver(h, T) = h[y] + SumOver(h, T \ {y})
    OBVIOUS
  <2>. DEFINE c == First(T)
  <2>1. c \in T
    BY DEF First
  <2>2. SumOver(h, T) = h[c] + SumOver(h, T \ {c})
    BY <1>1, SumFirst
  <2>. HIDE DEF c
  <2>3. CASE c = y
    BY <2>2, <2>3
  <2>4. CASE c # y
    <3>1. /\ Cardinality(T \ {c}) = n /\ Cardinality(T \ {y}) = n
          /\ T \ {c} \in SUBSET S /\ T \ {y} \in SUBSET S
          /\ y \in T \ {c} /\ c \in T \ {y}
      BY <1>1, <2>1, <2>4, TakeOut
    <3>2. /\ SumOver(h, T \ {c}) = h[y] + SumOver(h, (T \ {c}) \ {y})
          /\ SumOver(h, T \ {y}) = h[c] + SumOver(h, (T \ {y}) \ {c})
      BY <1>3, <3>1
    <3>. DEFINE R == (T \ {c}) \ {y}
    <3>3. (T \ {y}) \ {c} = R /\ R \in SUBSET S
      OBVIOUS
    <3>4. h[c] \in Int /\ h[y] \in Int /\ SumOver(h, R) \in Int
      BY <1>1, <2>1, <3>3 DEF Numbers
    <3>5. /\ SumOver(h, T \ {c}) = h[y] + SumOver(h, R)
          /\ SumOver(h, T \ {y}) = h[c] + SumOver(h, R)
      BY <3>2, <3>3
    <3>. HIDE DEF R
    <3>. QED BY <2>2, <3>4, <3>5
  <2>. QED BY <2>3, <2>4
<1>. HIDE DEF Good
<1>4. Cardinality(S) \in Good
  BY <1>1, <1>2, <1>3, NatInduct
<1>. QED BY <1>4 DEF Good

LEMMA SumWith ==
  ASSUME NEW h, NEW S, Numbers(h, S), NEW x \in S, NEW T \in SUBSET S, x \notin T
  PROVE  SumOver(h, T \cup {x}) = h[x] + SumOver(h, T)
<1>1. Numbers(h, T \cup {x})
  BY FS_Subset DEF Numbers
<1>2. (T \cup {x}) \ {x} = T
  OBVIOUS
<1>3. x \in T \cup {x}
  OBVIOUS
<1>4. SumOver(h, T \cup {x}) = h[x] + SumOver(h, (T \cup {x}) \ {x})
  BY <1>1, <1>3, SumWithout
<1>. QED BY <1>2, <1>4

(* Counts are natural numbers, and so is their sum.                        *)
LEMMA CountsAreNumbers ==
  ASSUME NEW h, NEW S, Counts(h, S)
  PROVE  Numbers(h, S)
BY DEF Counts, Numbers

LEMMA SumRemove ==
  ASSUME NEW h, NEW S, Counts(h, S), NEW x \in S
  PROVE  SumOver(h, S) = h[x] + SumOver(h, S \ {x})
BY CountsAreNumbers, SumWithout

LEMMA SumAdd ==
  ASSUME NEW h, NEW S, Counts(h, S), NEW x \in S, NEW T \in SUBSET S, x \notin T
  PROVE  SumOver(h, T \cup {x}) = h[x] + SumOver(h, T)
BY CountsAreNumbers, SumWith

LEMMA SumType ==
  ASSUME NEW h, NEW S, Counts(h, S)
  PROVE  SumOver(h, S) \in Nat
<1>. DEFINE Good == {T \in SUBSET S : SumOver(h, T) \in Nat}
<1>1. {} \in Good
  BY SumEmpty
<1>2. ASSUME NEW T \in SUBSET S, NEW x \in S \ T, T \in Good PROVE T \cup {x} \in Good
  <2>1. SumOver(h, T \cup {x}) = h[x] + SumOver(h, T)
    BY SumAdd
  <2>2. h[x] \in Nat /\ SumOver(h, T) \in Nat
    BY <1>2 DEF Counts
  <2>. QED BY <2>1, <2>2
<1>. HIDE DEF Good
<1>3. S \in Good
  BY <1>1, <1>2, SetInduct DEF Counts
<1>. QED BY <1>3 DEF Good

(* A sum over a set and the sum over another that stands for it.           *)
LEMMA SumReindexed ==
  ASSUME NEW h, NEW S, Numbers(h, S), NEW f, NEW b, NEW R,
         \A x \in S : b[x] \in R /\ f[b[x]] = h[x],
         \A x, y \in S : b[x] = b[y] => x = y,
         \A y \in R : \E x \in S : b[x] = y
  PROVE  SumOver(f, R) = SumOver(h, S)
<1>. DEFINE Image(T) == {b[x] : x \in T}
            Good == {T \in SUBSET S : IsFiniteSet(Image(T)) /\ SumOver(f, Image(T)) = SumOver(h, T)}
<1>1. {} \in Good
  <2>1. Image({}) = {}
    OBVIOUS
  <2>. QED BY <2>1, SumEmpty, FS_EmptySet
<1>2. ASSUME NEW T \in SUBSET S, NEW x \in S \ T, T \in Good PROVE T \cup {x} \in Good
  <2>1. Image(T \cup {x}) = Image(T) \cup {b[x]} /\ b[x] \notin Image(T)
    BY <1>2
  <2>2. IsFiniteSet(Image(T) \cup {b[x]})
    <3>1. IsFiniteSet(Image(T))
      BY <1>2
    <3>. HIDE DEF Image
    <3>. QED BY <3>1, FS_AddElement
  <2>3. Numbers(f, Image(T) \cup {b[x]})
    <3>1. \A y \in Image(T) \cup {b[x]} : f[y] \in Int
      BY DEF Numbers
    <3>. HIDE DEF Image
    <3>. QED BY <2>2, <3>1 DEF Numbers
  <2>4. SumOver(f, Image(T) \cup {b[x]}) = f[b[x]] + SumOver(f, Image(T))
    <3>. HIDE DEF Image
    <3>. QED BY <2>1, <2>3, SumWith
  <2>5. SumOver(h, T \cup {x}) = h[x] + SumOver(h, T)
    BY SumWith
  <2>6. SumOver(f, Image(T)) = SumOver(h, T) /\ f[b[x]] = h[x]
    BY <1>2
  <2>. HIDE DEF Image
  <2>. QED BY <2>1, <2>2, <2>4, <2>5, <2>6
<1>3. S \in Good
  <2>. HIDE DEF Good
  <2>. QED BY <1>1, <1>2, SetInduct DEF Numbers
<1>4. Image(S) = R
  OBVIOUS
<1>. HIDE DEF Image
<1>. QED BY <1>3, <1>4

LEMMA PartCounts ==
  ASSUME NEW h, NEW S, Counts(h, S), NEW T \in SUBSET S
  PROVE  Counts(h, T) /\ SumOver(h, T) \in Nat
<1>1. Counts(h, T)
  BY FS_Subset DEF Counts
<1>. QED BY <1>1, SumType

LEMMA SumSplit ==
  ASSUME NEW h, NEW S, Counts(h, S), NEW T
  PROVE  SumOver(h, S) = SumOver(h, S \cap T) + SumOver(h, S \ T)
<1>. DEFINE Good == {U \in SUBSET S : SumOver(h, U) = SumOver(h, U \cap T) + SumOver(h, U \ T)}
<1>1. {} \in Good
  <2>1. {} \cap T = {} /\ {} \ T = {}
    OBVIOUS
  <2>2. SumOver(h, {}) = SumOver(h, {}) + SumOver(h, {})
    BY SumEmpty
  <2>. QED BY <2>1, <2>2
<1>2. ASSUME NEW U \in SUBSET S, NEW x \in S \ U, U \in Good PROVE U \cup {x} \in Good
  <2>1. SumOver(h, U \cup {x}) = h[x] + SumOver(h, U)
    BY SumAdd
  <2>2. /\ SumOver(h, U \cap T) \in Nat /\ SumOver(h, U \ T) \in Nat /\ h[x] \in Nat
        /\ SumOver(h, U) = SumOver(h, U \cap T) + SumOver(h, U \ T)
    <3>1. U \cap T \in SUBSET S /\ U \ T \in SUBSET S
      OBVIOUS
    <3>. QED BY <1>2, <3>1, PartCounts DEF Counts
  <2>3. CASE x \in T
    <3>1. (U \cup {x}) \cap T = (U \cap T) \cup {x} /\ (U \cup {x}) \ T = U \ T
      BY <1>2, <2>3
    <3>2. SumOver(h, (U \cap T) \cup {x}) = h[x] + SumOver(h, U \cap T)
      <4>1. U \cap T \in SUBSET S /\ x \notin U \cap T
        OBVIOUS
      <4>. QED BY <4>1, SumAdd
    <3>. DEFINE a == SumOver(h, U \cap T)  b == SumOver(h, U \ T)
    <3>3. /\ SumOver(h, (U \cup {x}) \cap T) = h[x] + a
          /\ SumOver(h, (U \cup {x}) \ T) = b
          /\ SumOver(h, U \cup {x}) = h[x] + (a + b)
      BY <2>1, <2>2, <3>1, <3>2
    <3>4. h[x] + (a + b) = (h[x] + a) + b
      BY <2>2
    <3>. HIDE DEF a, b
    <3>. QED BY <1>2, <3>3, <3>4
  <2>4. CASE x \notin T
    <3>1. (U \cup {x}) \cap T = U \cap T /\ (U \cup {x}) \ T = (U \ T) \cup {x}
      BY <1>2, <2>4
    <3>2. SumOver(h, (U \ T) \cup {x}) = h[x] + SumOver(h, U \ T)
      <4>1. U \ T \in SUBSET S /\ x \notin U \ T
        OBVIOUS
      <4>. QED BY <4>1, SumAdd
    <3>. DEFINE a == SumOver(h, U \cap T)  b == SumOver(h, U \ T)
    <3>3. /\ SumOver(h, (U \cup {x}) \cap T) = a
          /\ SumOver(h, (U \cup {x}) \ T) = h[x] + b
          /\ SumOver(h, U \cup {x}) = h[x] + (a + b)
      BY <2>1, <2>2, <3>1, <3>2
    <3>4. h[x] + (a + b) = a + (h[x] + b)
      BY <2>2
    <3>. HIDE DEF a, b
    <3>. QED BY <1>2, <3>3, <3>4
  <2>. QED BY <2>3, <2>4
<1>. HIDE DEF Good
<1>3. S \in Good
  BY <1>1, <1>2, SetInduct DEF Counts
<1>. QED BY <1>3 DEF Good

(* Multiplying every term multiplies the sum.                              *)
LEMMA SumScaled ==
  ASSUME NEW h, NEW f, NEW S, Counts(h, S), NEW k \in Nat, \A x \in S : f[x] = k * h[x]
  PROVE  SumOver(f, S) = k * SumOver(h, S)
<1>. DEFINE Good == {U \in SUBSET S : SumOver(f, U) = k * SumOver(h, U)}
<1>1. {} \in Good
  <2>1. SumOver(f, {}) = 0 /\ SumOver(h, {}) = 0 /\ 0 = k * 0
    BY SumEmpty
  <2>. QED BY <2>1
<1>0. Counts(f, S)
  BY DEF Counts
<1>2. ASSUME NEW U \in SUBSET S, NEW x \in S \ U, U \in Good PROVE U \cup {x} \in Good
  <2>1. SumOver(h, U \cup {x}) = h[x] + SumOver(h, U) /\ SumOver(f, U \cup {x}) = f[x] + SumOver(f, U)
    BY <1>0, SumAdd
  <2>2. SumOver(h, U) \in Nat /\ h[x] \in Nat /\ f[x] = k * h[x] /\ SumOver(f, U) = k * SumOver(h, U)
    BY <1>2, PartCounts DEF Counts
  <2>. DEFINE a == h[x]  b == SumOver(h, U)
  <2>3. k * (a + b) = k * a + k * b
    <3>1. a \in Nat /\ b \in Nat
      BY <2>2
    <3>. HIDE DEF a, b
    <3>. QED BY <3>1
  <2>4. SumOver(f, U \cup {x}) = k * SumOver(h, U \cup {x})
    BY <2>1, <2>2, <2>3
  <2>. QED BY <2>4
<1>. HIDE DEF Good
<1>3. S \in Good
  BY <1>1, <1>2, SetInduct DEF Counts
<1>. QED BY <1>3 DEF Good

LEMMA SumSame ==
  ASSUME NEW h, NEW f, NEW S, Counts(h, S), \A x \in S : f[x] = h[x]
  PROVE  SumOver(f, S) = SumOver(h, S)
<1>1. \A x \in S : f[x] = 1 * h[x]
  BY DEF Counts
<1>2. SumOver(f, S) = 1 * SumOver(h, S)
  BY <1>1, SumScaled
<1>. QED BY <1>2, SumType

LEMMA SumConstant ==
  ASSUME NEW f, NEW S, IsFiniteSet(S), NEW k \in Nat, \A x \in S : f[x] = k
  PROVE  SumOver(f, S) = k * Cardinality(S)
<1>. DEFINE Good == {U \in SUBSET S : SumOver(f, U) = k * Cardinality(U)}
<1>0. Counts(f, S)
  BY DEF Counts
<1>1. {} \in Good
  <2>1. SumOver(f, {}) = 0 /\ Cardinality({}) = 0 /\ 0 = k * 0
    BY SumEmpty, FS_EmptySet
  <2>. QED BY <2>1
<1>2. ASSUME NEW U \in SUBSET S, NEW x \in S \ U, U \in Good PROVE U \cup {x} \in Good
  <2>1. SumOver(f, U \cup {x}) = k + k * Cardinality(U)
    BY <1>0, <1>2, SumAdd
  <2>2. Cardinality(U \cup {x}) = Cardinality(U) + 1 /\ Cardinality(U) \in Nat
    BY FS_Subset, FS_AddElement, FS_CardinalityType
  <2>. DEFINE n == Cardinality(U)
  <2>3. k * (n + 1) = k + k * n
    <3>1. n \in Nat
      BY <2>2
    <3>. HIDE DEF n
    <3>. QED BY <3>1
  <2>4. SumOver(f, U \cup {x}) = k * Cardinality(U \cup {x})
    BY <2>1, <2>2, <2>3
  <2>. QED BY <2>4
<1>. HIDE DEF Good
<1>3. S \in Good
  BY <1>1, <1>2, SetInduct
<1>. QED BY <1>3 DEF Good

LEMMA SumBounds ==
  ASSUME NEW h, NEW S, Counts(h, S), NEW x \in S
  PROVE  h[x] <= SumOver(h, S)
<1>1. SumOver(h, S) = h[x] + SumOver(h, S \ {x}) /\ h[x] \in Nat
  BY SumRemove DEF Counts
<1>2. S \ {x} \in SUBSET S
  OBVIOUS
<1>3. SumOver(h, S \ {x}) \in Nat
  BY <1>2, PartCounts
<1>. QED BY <1>1, <1>3

-----------------------------------------------------------------------------
(* Numbering a finite set in an order.                                     *)
(* A strict order of a finite set numbers its elements.                    *)
IsOrder(R, S) ==
  /\ \A x, y \in S : x = y \/ <<x, y>> \in R \/ <<y, x>> \in R
  /\ \A x \in S : <<x, x>> \notin R
  /\ \A x, y, z \in S : <<x, y>> \in R /\ <<y, z>> \in R => <<x, z>> \in R
Before(R, S, x) == {y \in S : <<y, x>> \in R}

LEMMA OrderRanks ==
  ASSUME NEW S, IsFiniteSet(S), NEW R, IsOrder(R, S), NEW x \in S, NEW y \in S
  PROVE  /\ Cardinality(Before(R, S, x)) \in 0..(Cardinality(S) - 1)
         /\ <<x, y>> \in R <=> Cardinality(Before(R, S, x)) < Cardinality(Before(R, S, y))
<1>1. ASSUME NEW u \in S
      PROVE  IsFiniteSet(Before(R, S, u)) /\ Cardinality(Before(R, S, u)) \in Nat
    BY FS_Subset, FS_CardinalityType DEF Before
<1>2. ASSUME NEW u \in S, NEW v \in S, <<u, v>> \in R
      PROVE  Cardinality(Before(R, S, u)) < Cardinality(Before(R, S, v))
  <2>1. Before(R, S, u) \subseteq Before(R, S, v)
    BY <1>2 DEF IsOrder, Before
  <2>2. u \in Before(R, S, v) /\ u \notin Before(R, S, u)
    BY <1>2 DEF IsOrder, Before
  <2>3. Cardinality(Before(R, S, u)) <= Cardinality(Before(R, S, v))
    BY <1>1, <2>1, FS_Subset
  <2>4. Cardinality(Before(R, S, u)) # Cardinality(Before(R, S, v))
    BY <1>1, <2>1, <2>2, FS_Subset
  <2>. QED BY <1>1, <2>3, <2>4
<1>3. Cardinality(Before(R, S, x)) \in 0..(Cardinality(S) - 1)
  <2>1. Before(R, S, x) \subseteq S \ {x}
    BY DEF IsOrder, Before
  <2>2. IsFiniteSet(S \ {x}) /\ Cardinality(S) \in Nat /\ Cardinality(S \ {x}) = Cardinality(S) - 1
    BY TakeOut
  <2>3. Cardinality(Before(R, S, x)) <= Cardinality(S \ {x})
    BY <2>1, <2>2, FS_Subset
  <2>. QED BY <1>1, <2>2, <2>3
<1>4. x = y \/ <<x, y>> \in R \/ <<y, x>> \in R
  BY DEF IsOrder
<1>5. /\ Cardinality(Before(R, S, x)) \in Nat /\ Cardinality(Before(R, S, y)) \in Nat
      /\ <<x, y>> \in R => Cardinality(Before(R, S, x)) < Cardinality(Before(R, S, y))
      /\ <<y, x>> \in R => Cardinality(Before(R, S, y)) < Cardinality(Before(R, S, x))
  BY <1>1, <1>2
<1>6. <<x, x>> \notin R
  BY DEF IsOrder
<1>. QED BY <1>3, <1>4, <1>5, <1>6

LEMMA OrderNumbers ==
  ASSUME NEW S, IsFiniteSet(S), NEW R, IsOrder(R, S), NEW n \in 1..Cardinality(S)
  PROVE  \E x \in S : Cardinality(Before(R, S, x)) = n - 1
<1>. DEFINE T == 0..(Cardinality(S) - 1)
            rank == [x \in S |-> Cardinality(Before(R, S, x))]
<1>1. Cardinality(S) \in Nat
  BY FS_CardinalityType
<1>2. rank \in [S -> T] /\ \A x, y \in S : rank[x] = rank[y] => x = y
  <2>1. \A x \in S : rank[x] = Cardinality(Before(R, S, x)) /\ rank[x] \in T
    BY OrderRanks
  <2>2. ASSUME NEW x \in S, NEW y \in S, Cardinality(Before(R, S, x)) = Cardinality(Before(R, S, y))
        PROVE  x = y
    <3>1. ~(<<x, y>> \in R) /\ ~(<<y, x>> \in R)
      <4>1. Cardinality(Before(R, S, x)) \in 0..(Cardinality(S) - 1)
        BY OrderRanks
      <4>2. <<x, y>> \in R => Cardinality(Before(R, S, x)) < Cardinality(Before(R, S, y))
        BY OrderRanks
      <4>3. <<y, x>> \in R => Cardinality(Before(R, S, y)) < Cardinality(Before(R, S, x))
        BY OrderRanks
      <4>. QED BY <1>1, <2>2, <4>1, <4>2, <4>3
    <3>. QED BY <3>1 DEF IsOrder
  <2>3. rank \in [S -> T]
    BY <2>1
  <2>4. ASSUME NEW x \in S, NEW y \in S, rank[x] = rank[y] PROVE x = y
    BY <2>1, <2>2, <2>4
  <2>. QED BY <2>3, <2>4
<1>3. rank \in Injection(S, T)
  <2>1. DOMAIN rank = S
    OBVIOUS
  <2>. HIDE DEF rank, T
  <2>. QED BY <1>2, <2>1 DEF Injection, IsInjective
<1>4. IsFiniteSet(T) /\ Cardinality(T) = Cardinality(S)
  <2>1. 0 \in Int /\ Cardinality(S) - 1 \in Int
    BY <1>1
  <2>2. IsFiniteSet(T) /\ Cardinality(T) = IF 0 > Cardinality(S) - 1 THEN 0 ELSE (Cardinality(S) - 1) - 0 + 1
    BY <2>1, FS_Interval
  <2>. HIDE DEF T
  <2>. QED BY <1>1, <2>2
<1>5. rank \in Surjection(S, T)
  <2>. HIDE DEF rank, T
  <2>. QED BY <1>3, <1>4, FS_Injection
<1>6. n - 1 \in T
  BY <1>1
<1>7. \E x \in S : rank[x] = n - 1
  <2>. HIDE DEF rank, T
  <2>. QED BY <1>5, <1>6 DEF Surjection
<1>. QED BY <1>7

(* The sequence of the n-th elements has each once, in that order.         *)
Sorted(s, S, R) ==
  /\ s \in [1..Cardinality(S) -> S]
  /\ \A x \in S : \E k \in 1..Cardinality(S) : s[k] = x
  /\ \A j, k \in 1..Cardinality(S) : <<s[j], s[k]>> \in R <=> j < k

LEMMA NthSorts ==
  ASSUME NEW S, IsFiniteSet(S), NEW R, IsOrder(R, S),
         NEW s, s = [n \in 1..Cardinality(S) |-> CHOOSE x \in S : Cardinality(Before(R, S, x)) = n - 1]
  PROVE  Cardinality(S) \in Nat /\ Sorted(s, S, R)
<1>. DEFINE n == Cardinality(S)
            rank == [x \in S |-> Cardinality(Before(R, S, x))]
<1>1. n \in Nat
  BY FS_CardinalityType
<1>2. ASSUME NEW k \in 1..n PROVE s[k] \in S /\ rank[s[k]] = k - 1
  <2>1. \E x \in S : Cardinality(Before(R, S, x)) = k - 1
    BY OrderNumbers
  <2>2. s[k] = CHOOSE x \in S : Cardinality(Before(R, S, x)) = k - 1
    OBVIOUS
  <2>3. s[k] \in S /\ Cardinality(Before(R, S, s[k])) = k - 1
    BY <2>1, <2>2
  <2>. QED BY <2>3
<1>3. s \in [1..n -> S]
  BY <1>2
<1>4. ASSUME NEW x \in S, NEW y \in S
      PROVE  rank[x] \in 0..(n - 1) /\ (<<x, y>> \in R <=> rank[x] < rank[y])
  BY OrderRanks
<1>. HIDE DEF rank
<1>5. ASSUME NEW j \in 1..n, NEW k \in 1..n PROVE <<s[j], s[k]>> \in R <=> j < k
  <2>1. s[j] \in S /\ s[k] \in S /\ rank[s[j]] = j - 1 /\ rank[s[k]] = k - 1
    BY <1>2
  <2>2. <<s[j], s[k]>> \in R <=> rank[s[j]] < rank[s[k]]
    BY <1>4, <2>1
  <2>. HIDE DEF n
  <2>. QED BY <1>1, <2>1, <2>2
<1>6. ASSUME NEW x \in S PROVE \E k \in 1..n : s[k] = x
  <2>. DEFINE k == rank[x] + 1
  <2>1. rank[x] \in 0..(n - 1)
    BY <1>4
  <2>2. k \in 1..n /\ k - 1 = rank[x]
    <3>. HIDE DEF n
    <3>. QED BY <1>1, <2>1
  <2>. HIDE DEF k
  <2>3. s[k] \in S /\ rank[s[k]] = rank[x]
    BY <1>2, <2>2
  <2>4. ~(rank[s[k]] < rank[x]) /\ ~(rank[x] < rank[s[k]])
    BY <2>1, <2>3
  <2>5. <<s[k], x>> \notin R /\ <<x, s[k]>> \notin R
    BY <1>4, <2>3, <2>4
  <2>6. s[k] = x
    BY <2>3, <2>5 DEF IsOrder
  <2>. QED BY <2>2, <2>6
<1>. QED BY <1>1, <1>3, <1>5, <1>6 DEF Sorted

-----------------------------------------------------------------------------
(* Folding a sequence: FoldLeft takes the last index out of the set of     *)
(* indices, so that it is a fold over the initial intervals.               *)
LastOf(s) == CHOOSE x \in s : \A y \in s : x >= y

LEMMA LastOfInterval ==
  ASSUME NEW k \in Nat \ {0}
  PROVE  LastOf(1..k) = k /\ (1..k) \ {k} = 1..(k - 1)
<1>1. k \in 1..k /\ \A y \in 1..k : k >= y
  OBVIOUS
<1>2. LastOf(1..k) \in 1..k /\ \A y \in 1..k : LastOf(1..k) >= y
  BY <1>1 DEF LastOf
<1>. QED BY <1>1, <1>2

LEMMA Latest ==
  ASSUME NEW n \in Nat, NEW s \in SUBSET (1..n), s # {}
  PROVE  \E m \in s : \A y \in s : y <= m
<1>. DEFINE T == {m \in Nat : \A y \in s : y <= m}
<1>1. n \in T
  OBVIOUS
<1>2. PICK m \in T : \A k \in T : m <= k
  <2>1. T \in SUBSET Nat /\ T # {}
    BY <1>1
  <2>. HIDE DEF T
  <2>. QED BY <2>1, NatLeast
<1>3. m \in s
  <2>. SUFFICES ASSUME m \notin s PROVE FALSE
    OBVIOUS
  <2>1. PICK y \in s : TRUE
    OBVIOUS
  <2>2. \A x \in s : x \in Nat /\ x <= m /\ x # m /\ x > 0
    BY <1>2
  <2>3. m - 1 \in Nat /\ \A x \in s : x <= m - 1
    BY <1>2, <2>1, <2>2
  <2>4. m - 1 \in T
    BY <2>3
  <2>. QED BY <1>2, <2>4
<1>4. \A y \in s : m >= y
  BY <1>2
<1>. QED BY <1>3, <1>4

LEMMA LastOfPart ==
  ASSUME NEW n \in Nat, NEW s \in SUBSET (1..n), s # {}
  PROVE  LastOf(s) \in s
<1>1. PICK m \in s : \A y \in s : y <= m
  BY Latest
<1>2. \A y \in s : m >= y
  BY <1>1
<1>. QED BY <1>2 DEF LastOf

(* What the CHOOSE in FoldLeft is asked to satisfy, up to types.           *)
Iterates(g, base, step, A, n) ==
  /\ g[{}] = base
  /\ \A s \in SUBSET (1..n) : (s # {} /\ g[s \ {LastOf(s)}] \in A) =>
       g[s] = step[<<LastOf(s), g[s \ {LastOf(s)}]>>]
IsIteration(g, base, step, A, n) ==
  g \in [SUBSET (1..n) -> A] /\ Iterates(g, base, step, A, n)

LEMMA FoldIter ==
  ASSUME NEW n \in Nat, NEW A, NEW base \in A, NEW step \in [(1..n) \X A -> A]
  PROVE  \E g : IsIteration(g, base, step, A, n)
<1>. DEFINE D == 1..n
            pick == [s \in SUBSET D |-> LastOf(s)]
<1>1. IsFiniteSet(D) /\ step \in [D \X A -> A]
  BY FS_Interval
<1>2. \A s \in SUBSET D : s # {} => LastOf(s) \in s /\ pick[s] \in s /\ pick[s] = LastOf(s)
  BY LastOfPart
<1>. HIDE DEF pick
<1>3. PICK g \in [SUBSET D -> A] : IsFold(g, D, base, step, pick)
  <2>. HIDE DEF D
  <2>. QED BY <1>1, <1>2, FoldExists
<1>. HIDE DEF D
<1>4. g[{}] = base
  BY <1>3 DEF IsFold
<1>5. ASSUME NEW s \in SUBSET D, s # {} PROVE g[s] = step[<<LastOf(s), g[s \ {LastOf(s)}]>>]
  <2>1. g[s] = step[<<pick[s], g[s \ {pick[s]}]>>]
    BY <1>3, <1>5 DEF IsFold
  <2>. QED BY <1>2, <1>5, <2>1
<1>6. IsIteration(g, base, step, A, n)
  BY <1>3, <1>4, <1>5 DEF D, IsIteration, Iterates
<1>. QED BY <1>6

Steps(f, base, step, A, n) ==
  /\ f \in [0..n -> A] /\ f[0] = base
  /\ \A k \in 1..n : f[k - 1] \in A /\ f[k] = step[<<k, f[k - 1]>>]

IsTraceOf(f, iter, base, step, A, n) == Steps(f, base, step, A, n) /\ f[n] = iter[1..n]

LEMMA FoldTrace ==
  ASSUME NEW n \in Nat, NEW A, NEW base \in A, NEW step \in [(1..n) \X A -> A],
         NEW iter, Iterates(iter, base, step, A, n)
  PROVE  \E f : IsTraceOf(f, iter, base, step, A, n)
<1>0. /\ iter[{}] = base
      /\ \A s \in SUBSET (1..n) : (s # {} /\ iter[s \ {LastOf(s)}] \in A) =>
           iter[s] = step[<<LastOf(s), iter[s \ {LastOf(s)}]>>]
  BY DEF Iterates
<1>1. iter[1..0] = base
  <2>1. 1..0 = {}
    OBVIOUS
  <2>. QED BY <1>0, <2>1
<1>2. ASSUME NEW k \in 1..n, iter[1..(k - 1)] \in A
      PROVE  iter[1..k] = step[<<k, iter[1..(k - 1)]>>] /\ iter[1..k] \in A
  <2>1. 1..k \in SUBSET (1..n) /\ 1..k # {}
    <3>1. k \in Nat /\ 1 <= k /\ k <= n
      OBVIOUS
    <3>2. 1 \in 1..k /\ \A j \in 1..k : j \in 1..n
      BY <3>1
    <3>. QED BY <3>2
  <2>2. LastOf(1..k) = k /\ (1..k) \ {k} = 1..(k - 1)
    BY LastOfInterval
  <2>3. iter[1..k] = step[<<k, iter[1..(k - 1)]>>]
    BY <1>0, <1>2, <2>1, <2>2
  <2>4. <<k, iter[1..(k - 1)]>> \in (1..n) \X A
    BY <1>2
  <2>. QED BY <2>3, <2>4
<1>. DEFINE Good == {k \in Nat : k <= n => iter[1..k] \in A}
<1>3. 0 \in Good
  BY <1>1
<1>4. ASSUME NEW k \in Nat, k \in Good PROVE k + 1 \in Good
  <2>. SUFFICES ASSUME k + 1 <= n PROVE iter[1..(k + 1)] \in A
    OBVIOUS
  <2>1. iter[1..k] \in A /\ k + 1 \in 1..n /\ (k + 1) - 1 = k
    BY <1>4
  <2>. QED BY <1>2, <2>1
<1>. HIDE DEF Good
<1>5. \A k \in Nat : k \in Good
  BY <1>3, <1>4, NatInduct
<1>6. \A k \in 0..n : iter[1..k] \in A
  BY <1>5 DEF Good
<1>. DEFINE f == [k \in 0..n |-> iter[1..k]]
<1>7. f \in [0..n -> A] /\ f[0] = base /\ f[n] = iter[1..n]
  BY <1>1, <1>6
<1>8. ASSUME NEW k \in 1..n PROVE f[k - 1] \in A /\ f[k] = step[<<k, f[k - 1]>>]
  <2>1. k \in 0..n /\ k - 1 \in 0..n
    OBVIOUS
  <2>2. f[k] = iter[1..k] /\ f[k - 1] = iter[1..(k - 1)]
    BY <2>1
  <2>. QED BY <1>2, <1>6, <2>1, <2>2
<1>9. Steps(f, base, step, A, n)
  <2>. HIDE DEF f
  <2>. QED BY <1>7, <1>8 DEF Steps
<1>. QED BY <1>7, <1>9 DEF IsTraceOf

-----------------------------------------------------------------------------
(* A finite set as a sequence; the image of a finite set.                  *)
LEMMA Listing ==
  ASSUME NEW S, IsFiniteSet(S)
  PROVE  LET q == Seqs!SetToSeq(S)
             n == Cardinality(S)
         IN /\ n \in Nat /\ q \in [1..n -> S]
            /\ \A j, k \in 1..n : q[j] = q[k] => j = k
            /\ \A x \in S : \E k \in 1..n : q[k] = x
<1>. DEFINE n == Cardinality(S)
            q == Seqs!SetToSeq(S)
<1>3. IsFiniteSet(S) /\ n \in Nat
  BY FS_CardinalityType
<1>4. \E b : b \in Bijection(1..n, S)
  <2>1. PICK m \in Nat : ExistsBijection(1..m, S)
    BY <1>3, FS_NatBijection
  <2>2. m = n
    BY <2>1, FS_CountingElements
  <2>. QED BY <2>1, <2>2 DEF ExistsBijection
<1>5. \E b \in [1..n -> S] : \A j, k \in DOMAIN b : b[j] = b[k] => j = k
  <2>1. PICK b : b \in Bijection(1..n, S)
    BY <1>4
  <2>2. b \in [1..n -> S] /\ \A j, k \in 1..n : b[j] = b[k] => j = k
    BY <2>1 DEF Bijection, Injection, IsInjective
  <2>. HIDE DEF n
  <2>. QED BY <2>2
<1>6. q = CHOOSE b \in [1..n -> S] : \A j, k \in DOMAIN b : b[j] = b[k] => j = k
  <2>1. Seqs!Cardinality(S) = n
    BY DEF n, Seqs!Cardinality, Cardinality
  <2>. HIDE DEF n
  <2>. QED BY <2>1 DEF q, Seqs!SetToSeq, Seqs!IsInjective
<1>. HIDE DEF n
<1>7. q \in [1..n -> S] /\ \A j, k \in 1..n : q[j] = q[k] => j = k
  BY <1>5, <1>6
<1>8. q \in Injection(1..n, S)
  BY <1>7 DEF Injection, IsInjective
<1>9. q \in Surjection(1..n, S)
  <2>1. IsFiniteSet(1..n) /\ Cardinality(1..n) = n
    BY <1>3, FS_Interval
  <2>. QED BY <1>3, <1>8, <2>1, FS_Injection DEF n
<1>10. \A x \in S : \E k \in 1..n : q[k] = x
  BY <1>9 DEF Surjection
<1>. QED BY <1>3, <1>7, <1>10 DEF q, n

LEMMA FiniteRange ==
  ASSUME NEW f, IsFiniteSet(DOMAIN f)
  PROVE  IsFiniteSet({f[x] : x \in DOMAIN f})
<1>. DEFINE T == {f[x] : x \in DOMAIN f}
            g == [x \in DOMAIN f |-> f[x]]
<1>1. g \in Surjection(DOMAIN f, T)
  BY DEF Surjection
<1>. QED BY <1>1, FS_Surjection
================================================================================
