-------------------------------- MODULE DHondt --------------------------------
(***************************************************************************)
(* The D'Hondt allocator, dhondt.Allocate: one seat at a time to the party *)
(* with the largest next quotient, found by a scan in ascending order of   *)
(* party ids.  The quotients are compared by cross-multiplication; the     *)
(* code's products are int64, which no electorate's votes times a house's  *)
(* seats overflow, so integers are unbounded here.                         *)
(***************************************************************************)
EXTENDS Integers, FiniteSets

CONSTANTS
  Parties,   \* party ids
  MaxVotes,  \* bound on the votes of a party
  MaxSeats   \* bound on the seats

ASSUME DHondtAssumption ==
  /\ Parties \subseteq Nat /\ IsFiniteSet(Parties)
  /\ MaxVotes \in Nat /\ MaxSeats \in Nat

VARIABLES
  votes,    \* the votes map; the code ignores counts that are not positive
  seats,    \* seats to allocate; not positive means none
  result,   \* seats won so far
  given,    \* rounds of the loop done
  scanned,  \* parties this round has looked at
  best      \* bestID; -1 before the first party of a round

vars == <<votes, seats, result, given, scanned, best>>

None == -1
Eligible == {p \in Parties : votes[p] > 0}

(* Mutants of Beats: a tie goes to the party scanned last; and the         *)
(* quotients of the seats a party has instead of its next one.             *)
BeatsOrTies(p, q) == votes[p] * (result[q] + 1) >= votes[q] * (result[p] + 1)
BeatsByLast(p, q) == votes[p] * result[q] > votes[q] * result[p]

(* votes[p] / (result[p] + 1) > votes[q] / (result[q] + 1) *)
Beats(p, q) == votes[p] * (result[q] + 1) > votes[q] * (result[p] + 1)

-----------------------------------------------------------------------------
Init ==
  /\ votes \in [Parties -> -1..MaxVotes]
  /\ seats \in -1..MaxSeats
  /\ result = [p \in Parties |-> 0]
  /\ given = 0
  /\ scanned = {}
  /\ best = None

(* The next party in ascending order is compared with the best so far.     *)
Scan(p) ==
  /\ given < seats
  /\ p \in Eligible \ scanned
  /\ \A q \in Eligible \ scanned : p <= q
  /\ scanned' = scanned \cup {p}
  /\ best' = IF best = None \/ Beats(p, best) THEN p ELSE best
  /\ UNCHANGED <<votes, seats, result, given>>

(* Mutants of Award: the first round awards two seats; and the loop stops  *)
(* once there was a round for every party.                                 *)
AwardTwice ==
  /\ given < seats
  /\ scanned = Eligible /\ best # None
  /\ result' = [result EXCEPT ![best] = @ + (IF given = 0 THEN 2 ELSE 1)]
  /\ given' = given + 1
  /\ scanned' = {}
  /\ best' = None
  /\ UNCHANGED <<votes, seats>>

(* The scan is through: the seat goes to the best.                         *)
Award ==
  /\ given < seats
  /\ scanned = Eligible /\ best # None
  /\ result' = [result EXCEPT ![best] = result[best] + 1]
  /\ given' = given + 1
  /\ scanned' = {}
  /\ best' = None
  /\ UNCHANGED <<votes, seats>>

Next == (\E p \in Parties : Scan(p)) \/ Award

Spec == Init /\ [][Next]_vars

-----------------------------------------------------------------------------
TypeOK ==
  /\ votes \in [Parties -> -1..MaxVotes]
  /\ seats \in -1..MaxSeats
  /\ result \in [Parties -> 0..MaxSeats]
  /\ given \in 0..MaxSeats
  /\ scanned \in SUBSET Eligible
  /\ best \in scanned \cup {None}

(* Highest averages: no seat was awarded at a quotient that another        *)
(* party's next seat exceeds, and on equal quotients the lower id was      *)
(* served first.                                                           *)
AveragesAreHighest ==
  \A p, q \in Eligible :
    (p # q /\ result[p] > 0) =>
      \/ votes[p] * (result[q] + 1) > votes[q] * result[p]
      \/ votes[p] * (result[q] + 1) = votes[q] * result[p] /\ p < q

(* The textbook definition: all quotients in one table, the largest first  *)
(* and on ties by party id, and a seat for each of the first ones.  The    *)
(* loop agrees with it after every round, so a larger house takes no seat  *)
(* from anybody.                                                           *)
Table == Eligible \X (1..MaxSeats)
Precedes(a, b) ==
  \/ votes[a[1]] * b[2] > votes[b[1]] * a[2]
  \/ votes[a[1]] * b[2] = votes[b[1]] * a[2] /\ a[1] < b[1]
TopQuotients == {c \in Table : Cardinality({a \in Table : Precedes(a, c)}) < given}
SeatsAreTopQuotients ==
  \A p \in Parties : result[p] = Cardinality({c \in TopQuotients : c[1] = p})

=============================================================================
