------------------------------- MODULE Ingestion -------------------------------
(***************************************************************************)
(* Loaders and scoring runs on one database: the resolver of a run is      *)
(* built (EntityResolver.from_db_rows) from the candidates and parties     *)
(* that the loaders have committed by then.                                *)
(***************************************************************************)
EXTENDS ResultsLoad, SentimentScoring, Memoria

CONSTANTS
  Surface,    \* name or tse_code -> the name as it is written
  Aliases,    \* name or tse_code -> its aliases
  CycleOf,    \* tse_code -> the name of the party's candidate of the cycle
  Memorias    \* what a Memoria may look like: its cycle, and the tables read from the PDF

ASSUME NamesAssumption ==
  /\ \A n \in DOMAIN Surface : Surface[n] \in Text /\ IsFiniteSet(Aliases[n]) /\ \A a \in Aliases[n] : a \in Text
  /\ \A s \in Sources : \A f \in Files[s] : \A i \in DOMAIN f.rows :
       f.rows[i].name \in DOMAIN Surface /\ f.rows[i].party \in DOMAIN Surface \cup {"none"}

ASSUME MemoriaAssumption ==
  \A t \in Memorias :
    /\ t.cycle \in {2007, 2011, 2015, 2019}
    /\ DOMAIN t = {"cycle", "round1", "round2", "municipal"} \cup Chambers
    /\ \A k \in DOMAIN t \ {"cycle"} : t[k] # Absent => t[k] \in Seq(Seqs!ToSet(t[k]))

vars == <<loadVars, scoringVars>>

(* from_db_rows: candidates, their aliases, parties, their aliases; each   *)
(* table is a set of pairs, read in some order.                            *)
EntriesOf(kind, table) ==
  LET order == Seqs!SetToSeq(table)
  IN [k \in DOMAIN order |-> GazetteerEntry(order[k][2], kind, order[k][1])]

ResolverNow ==
  LET Ids(code) == {c.id : c \in {x \in candidates : x.name = CycleOf[code]}}
  IN [entries |-> EntriesOf("candidate", {<<c.id, Surface[c.name]>> : c \in candidates})
           \o EntriesOf("candidate", UNION {{<<c.id, a>> : a \in Aliases[c.name]} : c \in candidates})
           \o EntriesOf("party", {<<p, Surface[p]>> : p \in parties})
           \o EntriesOf("party", UNION {{<<p, a>> : a \in Aliases[p]} : p \in parties}),
      cycle |-> [p \in {code \in parties \cap DOMAIN CycleOf : Ids(code) # {}} |-> Sets!Min(Ids(p))]]

Init == LoadInit /\ ScoringInit

Seeder == UNCHANGED scoringVars /\ \E rows \in Seeds : Seed(rows)
Loader == UNCHANGED scoringVars /\ \E s \in Sources : Load(s)
Scorer == UNCHANGED loadVars /\ \E r \in Scorers : ScoringRun(r, ResolverNow)
Scraper == UNCHANGED loadVars /\ \E d \in Documents : Arrive(d)

Next == Seeder \/ Loader \/ Scorer \/ Scraper

Spec == Init /\ [][Next]_vars

-----------------------------------------------------------------------------
TypeOK ==
  /\ LoadTypeOK
  /\ ScoringTypeOK
  /\ \A s \in scores : CASE s.subject.kind = "overall" -> s.subject = Overall
                         [] s.subject.kind = "party" -> s.subject.id \in parties
                         [] s.subject.kind = "candidate" -> \E c \in candidates : c.id = s.subject.id

ReadingsAreTrue == WholeReadings /\ SubjectsAreNamed

(* What is stored for a round.                                             *)
StoredTotal(s, n) ==
  LET rows == {y \in results : y.key.election = <<s, n>>}
  IN SumOver([y \in rows |-> y.votes], rows)

(* The cross-validation gate of issue 20: a Memoria that agrees with the   *)
(* file loaded gives the totals that are stored, as long as that file was  *)
(* the only one, has each cell once, and no name has two candidates; and   *)
(* an extraction loses no row, keeps its cycle apart, and lets no          *)
(* municipality have two mayors.                                           *)
MemoriaConfirmsResults ==
  \A t \in Memorias : Extracts(t) =>
    LET x == ExtractionOf(t)
        rows == LastFile("2019").rows
        Cell(i) == <<rows[i].round, rows[i].name, rows[i].geo>>
    IN /\ t.municipal # Absent =>
            /\ Len(x.municipal) = Len(t.municipal)
            /\ \A i \in DOMAIN t.municipal : Typed(t.municipal[i], t.cycle) \in Seqs!ToSet(x.municipal)
       /\ \A i, k \in DOMAIN x.municipal :
            (x.municipal[i].municipality = x.municipal[k].municipality /\ x.municipal[i].won /\ x.municipal[k].won) => i = k
       /\ \A r \in Seqs!ToSet(x.presidential) \cup Seqs!ToSet(x.congress) \cup Seqs!ToSet(x.municipal) : r.cycle = t.cycle
       /\ ( /\ Len(last["2019"]) = 1 /\ UniqueNames
            /\ \A i, k \in DOMAIN rows : Cell(i) = Cell(k) => i = k
            /\ CrossValidates(x.presidential, rows) )
            => \A n \in {1, 2} : NationalTotal(x.presidential, n) = StoredTotal("2019", n)
================================================================================
