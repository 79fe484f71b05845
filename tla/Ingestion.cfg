SPECIFICATION Spec
CONSTANTS
  q1 = q1
  q2 = q2
  un = un
  otro = otro
  none = none
  bad = bad
  Absent = none
  NoTotal = none
  Unreadable = bad
  Files <- TwoSources
  Seeds <- TwoSeeds
  SeedRows = 2
  Root = none
  MaxLoads = 2
  Scorers <- TwoScorers
  Articles <- TwoArticles
  Posts <- OnePost
  Sentences <- Reports
  CycleOf <- CandidateOf
  Normal <- Lowered
  Letters <- Sizes
  Trigger = "candidato de"
  Entities <- Tagged
  Near <- OneEdit
  Short <- TooShort
  Surface <- WrittenAs
  Aliases <- OtherNames
  Memorias <- SomeMemorias
SYMMETRY Alike
INVARIANTS
  TypeOK
  ReadingsAreTrue
  ViewFollowsScores
  LoadsAreTrue
  MemoriaConfirmsResults
PROPERTIES
  RerunChangesNothing
CHECK_DEADLOCK FALSE
