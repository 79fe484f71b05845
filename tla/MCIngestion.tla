------------------------------ MODULE MCIngestion ------------------------------
(***************************************************************************)
(* A finite instance of Ingestion: a candidate of both elections, one      *)
(* whose surname is the whole name of another, and a party.                *)
(***************************************************************************)
EXTENDS Ingestion
LOCAL INSTANCE TLC

CONSTANTS q1, q2, un, otro, none, bad

TwoScorers == {q1, q2}
Alike == Permutations(TwoScorers)

Vote(n, name, party, geo, votes) == [round |-> n, name |-> name, party |-> party, geo |-> geo, votes |-> votes]
First2019 ==
  [rows |-> <<Vote(1, "ana lima", "none", "0101", 3), Vote(1, "lima", "none", "0101", 1), Vote(2, "lima", "none", "0101", 2)>>,
   published |-> <<5, none>>]
Corrected2019 ==
  [rows |-> <<Vote(1, "ana lima", "none", "0101", 4), Vote(2, "ana lima", "none", "0101", 2)>>,
   published |-> <<4, 2>>]
Provisional2023 ==
  [rows |-> <<Vote(1, "lima", un, "GT", 2), Vote(1, "lima", otro, "GT", 1), Vote(2, "lima", un, "GT", 3)>>,
   published |-> <<3, 3>>]
TwoSources == [s \in {"2019", "2023"} |-> IF s = "2019" THEN {First2019, Corrected2019} ELSE {Provisional2023}]
Place(code, parent) == [code |-> code, parent |-> parent]
TwoSeeds == {<<Place("0101", "GT"), Place("GT", none)>>, <<Place("GT", none)>>}

WrittenAs ==
  [n \in {"ana lima", "lima", un, otro} |->
     CASE n = "ana lima" -> <<"ana", "lima">> [] n = "lima" -> <<"lima">> [] n = un -> <<"un">> [] n = otro -> <<"otro">>]
OtherNames ==
  [n \in {"ana lima", "lima", un, otro} |->
     CASE n = un -> {<<"unidad">>} [] n = otro -> {<<"lima", "otro">>} [] OTHER -> {}]

Tokens == {"ana", "lima", "un", "unidad", "otro", "candidato de", "gana", "limma", "etc"}
Lowered == [w \in Tokens |-> IF w = "etc" THEN <<".", ".", ".">> ELSE <<w>>]
Sizes == [w \in Tokens \cup {"."} |-> CASE w = "." -> 1 [] w = "un" -> 2 [] w = "ana" -> 3 [] w \in {"limma", "etc"} -> 5 [] w = "unidad" -> 6 [] w = "candidato de" -> 12 [] OTHER -> 4]

Texts == {<<"ana", "lima", "otro">>, <<"candidato de", "un">>, <<"etc", "candidato de", "un">>, <<"limma", "gana">>}
Tagged == [t \in Texts |-> IF t[1] = "limma" THEN <<[from |-> 1, to |-> 1, kind |-> "candidate"]>> ELSE <<>>]
OneEdit == {<<<<"limma">>, <<"lima">>>>}
TooShort == {<<"ana">>}

Reports == [d \in {1, 2, 3} |->
  CASE d = 1 -> <<<<"ana", "lima", "otro">>, <<"candidato de", "un">>>>
    [] d = 2 -> <<>>
    [] d = 3 -> <<<<"limma", "gana">>>>]
TwoArticles == {1, 2}
OnePost == {3}
CandidateOf == [p \in {un} |-> "lima"]

Cell(c, geo, n) == [geo |-> geo, candidate |-> c, votes |-> n]
Whole(c, geo, n, total) == [geo |-> geo, candidate |-> c, votes |-> n, expected_total |-> total]
Mayor(muni, party, n, won) == [municipality |-> muni, party |-> party, votes |-> n, won |-> won]
Seats(p, n, k) == [party |-> p, votes |-> n, seats |-> k]
Tables(cycle, r1, r2, nac, muni) ==
  [cycle |-> cycle, round1 |-> r1, round2 |-> r2, congress_distrital |-> none, congress_nacional |-> nac, parlacen |-> none, municipal |-> muni]
SomeMemorias ==
  {Tables(2019, <<Cell("ana lima", "0101", 3), Whole("lima", "0101", 1, 4)>>, <<Cell("lima", "0101", 2)>>, none,
          <<Mayor("0101", "un", 3, TRUE), Mayor("0102", "un", 1, TRUE), Mayor("0101", "otro", 2, FALSE)>>),
   Tables(2019, <<Cell("ana lima", "0101", 4)>>, <<Cell("lima", "0101", 2)>>, <<Seats("un", 3, 1)>>, none),
   Tables(2015, <<Cell("ana lima", "0101", 3), Whole("lima", "0101", 1, 5)>>, none, none, none),
   Tables(2019, <<Cell("ana lima", "0101", 3)>>, <<Cell("lima", "0101", 2), Cell("ana lima", "0101", 1)>>, none, none),
   Tables(2011, none, none, <<Seats("un", bad, 1)>>, <<Mayor("0101", "un", 3, TRUE), Mayor("0101", "otro", 2, TRUE)>>),
   Tables(2007, <<Cell("lima", "0101", 4)>>, none, none, none),
   Tables(2011, none, none, <<Seats("un", 3, 1)>>, none),
   Tables(2015, none, none, none, <<Mayor("0101", "un", 3, TRUE), Mayor("0102", "un", 1, TRUE), Mayor("0101", "otro", 2, FALSE)>>),
   Tables(2015, none, none, none, none)}
================================================================================
