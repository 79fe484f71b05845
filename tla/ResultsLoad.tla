------------------------------ MODULE ResultsLoad ------------------------------
(***************************************************************************)
(* The seed of the places, seed/geographies.py, and the loaders of         *)
(* election results, load_2019_excel.py and load_2023_provisional.py.      *)
(* A loader checks its file, finds or creates the election and candidates, *)
(* upserts the votes and stamps scrape_runs.  Nobody runs two loaders of   *)
(* one source at once, but one of each may overlap, with the seed too, and *)
(* names recur from one election to the next.                              *)
(*                                                                         *)
(* A file is [rows, published]: rows with round, name, party ("none" in    *)
(* 2019), geo and votes, and the published total of each round, NoTotal    *)
(* where the caller of load gives none.  A seed file is a sequence of      *)
(* [code, parent], where code stands for level and code.                   *)
(***************************************************************************)
EXTENDS Collections

CONSTANTS
  Files,        \* source -> the files it may be given
  Seeds,        \* the seed files: geographies_gt.csv of each version
  SeedRows,     \* EXPECTED_ROW_COUNT
  Root,         \* the parent of a place that has none
  NoTotal,
  MaxLoads

Sources == DOMAIN Files
(* The rows of 2023 are of a round of the manifest and of the country; no   *)
(* seed file has a code twice.                                             *)
ASSUME LoadAssumption ==
  /\ Sources = {"2019", "2023"} /\ MaxLoads \in Nat
  /\ \A s \in Sources : \A f \in Files[s] :
       f.rows \in Seq(Seqs!ToSet(f.rows)) /\ \A i \in DOMAIN f.rows : f.rows[i].votes \in Int
  /\ \A f \in Files["2023"] : \A i \in DOMAIN f.rows :
       f.rows[i].geo = "GT" /\ f.rows[i].round \in DOMAIN f.published
  /\ \A rows \in Seeds : \A i, k \in DOMAIN rows : rows[i].code = rows[k].code => i = k

VARIABLES
  places,      \* committed geographies: code -> parent, Root if it has none
  seeded,      \* history: the seed file committed last
  elections,   \* committed elections, a pair of source and round -> is_provisional
  candidates,  \* committed rows: [id, name]
  parties,     \* committed tse_codes
  results,     \* committed rows: [election, id, geo, votes]
  stamp,       \* scrape_runs of each source
  phase,       \* progress of its load
  file,        \* what it loads
  chosen,      \* the ids its lookups have given so far
  lastId,      \* the sequence of candidate_id, which no rollback resets
  loads,       \* loads begun
  last,        \* history: the files each source has committed, in order
  overlapped   \* history: two loads have been under way at once

placeVars == <<places, seeded>>
loadVars ==
  <<placeVars, elections, candidates, parties, results, stamp, phase, file, chosen, lastId, loads, last, overlapped>>

NoFile == [rows |-> <<>>, published |-> <<>>]
Names(f) == {f.rows[i].name : i \in DOMAIN f.rows}

(* The names looked up, in order: that of 2019 asks for each name once,    *)
(* that of 2023 for every row.                                             *)
Asks(s, f) == IF s = "2019" THEN Seqs!SetToSeq(Names(f)) ELSE [i \in DOMAIN f.rows |-> f.rows[i].name]
Lookups(s) == Asks(s, file[s])
Inserted(s) == {[id |-> chosen[s][k], name |-> Lookups(s)[k]] : k \in DOMAIN chosen[s]}
RoundOf(f, n) == {i \in DOMAIN f.rows : f.rows[i].round = n}
VotesOf(f, n) == Sets!MapThenSumSet(LAMBDA i : f.rows[i].votes, RoundOf(f, n))

-----------------------------------------------------------------------------
(* The seed, in one transaction: every row is upserted by its code, then   *)
(* the parents that are found are set.                                     *)

PlacesOf(rows) == {rows[i].code : i \in DOMAIN rows}

(* A row that names no parent, or one that is not stored, leaves the parent*)
(* of its place as it was.                                                 *)
Seeded(rows) ==
  LET all == DOMAIN places \cup PlacesOf(rows)
      ParentOf(g) == {rows[i].parent : i \in {k \in DOMAIN rows : rows[k].code = g /\ rows[k].parent \in all}}
  IN [g \in all |-> IF ParentOf(g) # {} THEN CHOOSE p \in ParentOf(g) : TRUE
                     ELSE IF g \in DOMAIN places THEN places[g] ELSE Root]

(* load_rows refuses a file of another length.  That main fails when old   *)
(* places make the table longer comes after the commit.                    *)
Seed(rows) ==
  /\ Len(rows) = SeedRows
  /\ places' = Seeded(rows)
  /\ seeded' = rows
  /\ UNCHANGED <<elections, candidates, parties, results, stamp, phase, file, chosen, lastId, loads, last, overlapped>>

-----------------------------------------------------------------------------
(* What makes a load fail.                                                 *)

(* parse_xlsx and load: rounds 1 and 2 only, seeded municipalities, totals *)
(* within one vote of those the caller gives.                              *)
Acceptable2019(f) ==
  /\ f.rows # <<>>
  /\ \A i \in DOMAIN f.rows : f.rows[i].round \in {1, 2} /\ f.rows[i].geo \in DOMAIN places
  /\ \A n \in {1, 2} : f.published[n] # NoTotal =>
       VotesOf(f, n) - f.published[n] \in -1..1

(* load_manifest, load_round_csv and validate_round_totals: both rounds,   *)
(* no negative votes, no (candidate, party) twice, the exact total.        *)
Acceptable2023(f) ==
  /\ DOMAIN f.published = {1, 2}
  /\ \A n \in {1, 2} : RoundOf(f, n) # {} /\ VotesOf(f, n) = f.published[n]
  /\ \A i \in DOMAIN f.rows : f.rows[i].votes >= 0
  /\ \A i, k \in DOMAIN f.rows : i # k =>
       \E field \in {"round", "name", "party"} : f.rows[i][field] # f.rows[k][field]

Acceptable(s) == IF s = "2019" THEN Acceptable2019(file[s]) ELSE Acceptable2023(file[s])

-----------------------------------------------------------------------------
Idle(s) == phase[s] = "idle"

Begin(s, f) ==
  /\ Idle(s) /\ loads < MaxLoads
  /\ phase' = [phase EXCEPT ![s] = "loading"]
  /\ file' = [file EXCEPT ![s] = f]
  /\ loads' = loads + 1
  /\ overlapped' = (overlapped \/ \E q \in Sources : ~Idle(q))
  /\ UNCHANGED <<placeVars, elections, candidates, parties, results, stamp, chosen, lastId, last>>

(* The loader of 2023 asks for the country before it does anything else,   *)
(* that of 2019 for its municipalities after the candidates.               *)
CountryKnown(s) == s = "2023" /\ chosen[s] = <<>> => "GT" \in DOMAIN places

(* ensure_candidate and _ensure_candidate: the first candidate of that     *)
(* name the SELECT returns, in whatever order, committed or inserted by    *)
(* this load; or a new one.                                                *)
Ensure(s) ==
  /\ phase[s] = "loading" /\ Len(chosen[s]) < Len(Lookups(s))
  /\ CountryKnown(s)
  /\ LET name == Lookups(s)[Len(chosen[s]) + 1]
         same == {c.id : c \in {x \in candidates \cup Inserted(s) : x.name = name}}
     IN /\ \E id \in IF same = {} THEN {lastId + 1} ELSE same : chosen' = [chosen EXCEPT ![s] = Append(@, id)]
        /\ lastId' = IF same = {} THEN lastId + 1 ELSE lastId
  /\ UNCHANGED <<placeVars, elections, candidates, parties, results, stamp, phase, file, loads, last, overlapped>>

IdOf(s, i) ==
  chosen[s][IF s = "2019" THEN CHOOSE k \in DOMAIN Lookups(s) : Lookups(s)[k] = file[s].rows[i].name ELSE i]
ResultKey(s, i) ==
  [election |-> <<s, file[s].rows[i].round>>, id |-> IdOf(s, i), geo |-> file[s].rows[i].geo]

(* The rows of a file that an upsert of all of them, one by one, leaves:   *)
(* the last of those with one key.                                         *)
Rows(s) ==
  {[key |-> ResultKey(s, i), votes |-> file[s].rows[i].votes] :
     i \in {k \in DOMAIN file[s].rows : \A later \in (k + 1)..Len(file[s].rows) :
              ResultKey(s, later) # ResultKey(s, k)}}

Others(new) == {x \in results : \A y \in new : x.key # y.key}

(* Mutant of Upserted: the votes are added to those of an earlier load.    *)
Accumulated(new) ==
  Others(new) \cup
    {[y EXCEPT !.votes = @ + Sets!MapThenSumSet(LAMBDA x : x.votes, {x \in results : x.key = y.key})] : y \in new}

Upserted(new) == Others(new) \cup new

(* ensure_election: both rounds, whatever the file has; one that is there  *)
(* stays as it is.                                                         *)
ElectionsOf2019 ==
  [e \in DOMAIN elections \cup ({"2019"} \X {1, 2}) |-> e \in DOMAIN elections /\ elections[e]]

(* _ensure_election: one that is there becomes provisional. *)
ElectionsOf2023 ==
  LET mine == {"2023"} \X DOMAIN file["2023"].published
  IN [e \in DOMAIN elections \cup mine |-> e \in mine \/ elections[e]]

(* The parties of the rows, upserted by their tse_code. *)
PartiesOf(s) == {file[s].rows[i].party : i \in DOMAIN file[s].rows} \ {"none"}

(* The 2023 loader stamps success in the same transaction, that of 2019 in *)
(* a second one.                                                           *)
Commit(s) ==
  /\ phase[s] = "loading" /\ Acceptable(s)
  /\ Len(chosen[s]) = Len(Lookups(s))
  /\ candidates' = candidates \cup Inserted(s)
  /\ elections' = IF s = "2019" THEN ElectionsOf2019 ELSE ElectionsOf2023
  /\ parties' = parties \cup PartiesOf(s)
  /\ results' = Upserted(Rows(s))
  /\ stamp' = [stamp EXCEPT ![s] = IF s = "2023" THEN "success" ELSE @]
  /\ phase' = [phase EXCEPT ![s] = IF s = "2023" THEN "idle" ELSE "loaded"]
  /\ last' = [last EXCEPT ![s] = Append(@, file[s])]
  /\ chosen' = [chosen EXCEPT ![s] = <<>>]
  /\ UNCHANGED <<placeVars, file, lastId, loads, overlapped>>

StampSuccess(s) ==
  /\ phase[s] = "loaded"
  /\ stamp' = [stamp EXCEPT ![s] = "success"]
  /\ phase' = [phase EXCEPT ![s] = "idle"]
  /\ UNCHANGED <<placeVars, elections, candidates, parties, results, file, chosen, lastId, loads, last, overlapped>>

(* Mutant of Rollback: the new candidates stay.                            *)
KeepCandidates(s) == candidates' = candidates \cup Inserted(s)

Rollback(s) == UNCHANGED candidates

(* The file is refused or a statement fails, at any point of the load.     *)
Fail(s) ==
  /\ phase[s] = "loading"
  /\ Rollback(s)
  /\ phase' = [phase EXCEPT ![s] = "failing"]
  /\ chosen' = [chosen EXCEPT ![s] = <<>>]
  /\ UNCHANGED <<placeVars, elections, parties, results, stamp, file, lastId, loads, last, overlapped>>

StampFailure(s) ==
  /\ phase[s] = "failing"
  /\ stamp' = [stamp EXCEPT ![s] = "failure"]
  /\ phase' = [phase EXCEPT ![s] = "idle"]
  /\ UNCHANGED <<placeVars, elections, candidates, parties, results, file, chosen, lastId, loads, last, overlapped>>

(* The process ends, or the stamp cannot be written.                       *)
Die(s) ==
  /\ ~Idle(s)
  /\ phase' = [phase EXCEPT ![s] = "idle"]
  /\ chosen' = [chosen EXCEPT ![s] = <<>>]
  /\ UNCHANGED <<placeVars, elections, candidates, parties, results, stamp, file, lastId, loads, last, overlapped>>

-----------------------------------------------------------------------------
LoadInit ==
  /\ places = <<>> /\ seeded = <<>> /\ elections = <<>>
  /\ candidates = {} /\ parties = {} /\ results = {}
  /\ stamp = [s \in Sources |-> "never"]
  /\ phase = [s \in Sources |-> "idle"]
  /\ file = [s \in Sources |-> NoFile]
  /\ chosen = [s \in Sources |-> <<>>]
  /\ lastId = 0 /\ loads = 0
  /\ last = [s \in Sources |-> <<>>]
  /\ overlapped = FALSE

Load(s) ==
  \/ \E f \in Files[s] : Begin(s, f)
  \/ Ensure(s)
  \/ Commit(s)
  \/ StampSuccess(s)
  \/ Fail(s)
  \/ StampFailure(s)
  \/ Die(s)

-----------------------------------------------------------------------------
UniqueNames == \A c, d \in candidates : c.name = d.name => c = d
LastFile(s) == last[s][Len(last[s])]

LoadTypeOK ==
  /\ \A g \in DOMAIN places : places[g] \in DOMAIN places \cup {Root}
  /\ \A c \in candidates : c.id \in 1..lastId
  /\ \A c, d \in candidates : c.id = d.id => c = d
  /\ \A x \in results : x.key.geo \in DOMAIN places /\ x.key.election \in DOMAIN elections /\ \E c \in candidates : c.id = x.key.id
  /\ \A x, y \in results : x.key = y.key => x = y
  /\ stamp \in [Sources -> {"never", "success", "failure"}]
  /\ phase \in [Sources -> {"idle", "loading", "loaded", "failing"}]
  /\ \A s \in Sources : chosen[s] # <<>> => phase[s] = "loading" /\ Len(chosen[s]) <= Len(Lookups(s))
  /\ loads \in 0..MaxLoads

(* load_2019_excel.py:216: "a second call with the same XLSX yields zero   *)
(* net changes".  So it does, for both loaders and whatever ran between,   *)
(* as long as no name has two candidates.                                  *)
RerunChangesNothing ==
  [][\A s \in Sources :
       (last'[s] # last[s] /\ last[s] # <<>> /\ LastFile(s) = file[s] /\ UniqueNames)
         => UNCHANGED <<candidates, results>>]_loadVars

(* Every place of the seed committed last stands under the parent it       *)
(* names, wherever in the file that parent is.                             *)
PlacesAreNested ==
  \A i \in DOMAIN seeded :
    /\ seeded[i].code \in DOMAIN places
    /\ seeded[i].parent \in DOMAIN places => places[seeded[i].code] = seeded[i].parent

(* A success stamp is of a committed load; the rows of the file committed  *)
(* last are stored, each under a candidate of its name; no candidate and   *)
(* no election is left over from a load that failed; only the results of   *)
(* 2023 are provisional; and loads that do not overlap share the           *)
(* candidates of a name.                                                   *)
LoadsAreTrue ==
  /\ PlacesAreNested
  /\ \A s \in Sources : stamp[s] = "success" => last[s] # <<>>
  /\ \A s \in Sources : last[s] # <<>> =>
       \A i \in DOMAIN LastFile(s).rows :
         LET r == LastFile(s).rows[i]
             later == {k \in (i + 1)..Len(LastFile(s).rows) :
                         LET x == LastFile(s).rows[k] IN x.round = r.round /\ x.name = r.name /\ x.geo = r.geo}
         IN later = {} => \E c \in candidates :
              /\ c.name = r.name
              /\ [key |-> [election |-> <<s, r.round>>, id |-> c.id, geo |-> r.geo], votes |-> r.votes] \in results
  /\ \A c \in candidates : \E x \in results : x.key.id = c.id
  /\ \A e \in DOMAIN elections : last[e[1]] # <<>> /\ elections[e] = (e[1] = "2023")
  /\ ~overlapped => UniqueNames
================================================================================
