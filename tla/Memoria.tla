-------------------------------- MODULE Memoria --------------------------------
(***************************************************************************)
(* The parsers of the TSE's Memoria (memoria_2019.py, which the wrappers   *)
(* for 2007, 2011 and 2015 call with their cycle): raw tables to typed     *)
(* rows, or an error.  A raw row is a record whose fields are the columns  *)
(* the PDF had; a cell that is not an integer is the value Unreadable.     *)
(***************************************************************************)
EXTENDS Collections

CONSTANTS Unreadable, Absent   \* a cell that is no integer; a table not supplied

PresidentialColumns == {"geo", "candidate", "votes"}
CongressColumns(chamber) ==
  {"party", "votes", "seats"} \cup (IF chamber = "congress_distrital" THEN {"district"} ELSE {})
MunicipalColumns == {"municipality", "party", "votes", "won"}

(* The schema is checked on the first row only; a later row that lacks a   *)
(* column raises when the cell is read.                                    *)
HasColumns(rows, columns) == rows # <<>> /\ \A i \in DOMAIN rows : columns \subseteq DOMAIN rows[i]
Readable(rows, column) == \A i \in DOMAIN rows : rows[i][column] # Unreadable

SumOf(rows, at) == SumOver([i \in DOMAIN rows |-> rows[i].votes], at)

(* The rows of a geography that declare its total.                         *)
Declaring(rows, geo) ==
  {i \in DOMAIN rows : rows[i].geo = geo /\ "expected_total" \in DOMAIN rows[i]}

(* The last total declared for a geography is the one checked.             *)
TotalsHold(rows) ==
  \A geo \in {rows[i].geo : i \in DOMAIN rows} : Declaring(rows, geo) # {} =>
    SumOf(rows, {k \in DOMAIN rows : rows[k].geo = geo}) = rows[Sets!Max(Declaring(rows, geo))].expected_total

PresidentialParses(rows) ==
  /\ HasColumns(rows, PresidentialColumns) /\ Readable(rows, "votes")
  /\ \A i \in DOMAIN rows : "expected_total" \in DOMAIN rows[i] => rows[i].expected_total # Unreadable
  /\ TotalsHold(rows)
Presidential(rows, n, cycle) ==
  [i \in DOMAIN rows |->
    [cycle |-> cycle, round |-> n, name |-> rows[i].candidate, geo |-> rows[i].geo, votes |-> rows[i].votes]]

CongressParses(rows, chamber) ==
  HasColumns(rows, CongressColumns(chamber)) /\ Readable(rows, "votes") /\ Readable(rows, "seats")
Congress(rows, chamber, cycle) ==
  [i \in DOMAIN rows |->
    [cycle |-> cycle, chamber |-> chamber, party |-> rows[i].party, votes |-> rows[i].votes, seats |-> rows[i].seats,
     district |-> CASE chamber = "congress_distrital" -> rows[i].district
                    [] chamber = "congress_nacional" -> "GT"
                    [] chamber = "parlacen" -> "GT-PARLACEN"]]

(* Grouped by municipality, in the order in which these first appear.      *)
MunicipalParses(rows) ==
  /\ HasColumns(rows, MunicipalColumns) /\ Readable(rows, "votes") /\ Readable(rows, "won")
  /\ \A muni \in {rows[i].municipality : i \in DOMAIN rows} :
       Cardinality({i \in DOMAIN rows : rows[i].municipality = muni /\ rows[i].won}) <= 1
Opening(rows, i) == Sets!Min({k \in DOMAIN rows : rows[k].municipality = rows[i].municipality})
Precedes(rows, i, k) ==
  \/ Opening(rows, i) < Opening(rows, k)
  \/ Opening(rows, i) = Opening(rows, k) /\ i < k
Typed(r, cycle) ==
  [cycle |-> cycle, municipality |-> r.municipality, party |-> r.party, votes |-> r.votes, won |-> r.won]
Municipal(rows, cycle) ==
  [n \in DOMAIN rows |-> Typed(rows[Nth(DOMAIN rows, n, LAMBDA i, k : Precedes(rows, i, k))], cycle)]

-----------------------------------------------------------------------------
(* extract_from_pdf, on the tables its caller supplies: the discovery of   *)
(* tables in the PDF itself always raises.                                 *)
Chambers == {"congress_distrital", "congress_nacional", "parlacen"}

Extracts(t) ==
  /\ \E k \in DOMAIN t \ {"cycle"} : t[k] # Absent
  /\ \A k \in {"round1", "round2"} : t[k] # Absent => PresidentialParses(t[k])
  /\ \A k \in Chambers : t[k] # Absent => CongressParses(t[k], k)
  /\ t.municipal # Absent => MunicipalParses(t.municipal)

Extraction(t, cycle) ==
  LET Given(k, parsed) == IF t[k] = Absent THEN <<>> ELSE parsed
  IN [presidential |-> Given("round1", Presidential(t.round1, 1, cycle)) \o Given("round2", Presidential(t.round2, 2, cycle)),
      congress |-> Given("congress_distrital", Congress(t.congress_distrital, "congress_distrital", cycle))
                \o Given("congress_nacional", Congress(t.congress_nacional, "congress_nacional", cycle))
                \o Given("parlacen", Congress(t.parlacen, "parlacen", cycle)),
      municipal |-> Given("municipal", Municipal(t.municipal, cycle))]

(* The wrappers of the earlier cycles. *)
Memoria2007(t) == Extraction(t, 2007)
Memoria2011(t) == Extraction(t, 2011)
Memoria2015(t) == Extraction(t, 2015)
Memoria2019(t) == Extraction(t, 2019)
ExtractionOf(t) ==
  CASE t.cycle = 2007 -> Memoria2007(t)
    [] t.cycle = 2011 -> Memoria2011(t)
    [] t.cycle = 2015 -> Memoria2015(t)
    [] t.cycle = 2019 -> Memoria2019(t)

-----------------------------------------------------------------------------
(* cross_validate_presidential: the same totals and as many rows, of       *)
(* whatever cycle.                                                         *)
NationalTotal(rows, n) == SumOf(rows, {i \in DOMAIN rows : rows[i].round = n})

(* Mutant of CrossValidates: the round is not looked at.                   *)
SameGrandTotal(pdf, excel) ==
  /\ SumOf(pdf, DOMAIN pdf) = SumOf(excel, DOMAIN excel)
  /\ Len(pdf) = Len(excel)

CrossValidates(pdf, excel) ==
  /\ \A n \in {1, 2} : NationalTotal(pdf, n) = NationalTotal(excel, n)
  /\ Len(pdf) = Len(excel)
================================================================================
