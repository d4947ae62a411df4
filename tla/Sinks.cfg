CONSTANTS
  Requests <- MCRequests
  MaxTemplates = 3
  Reducers <- MCReducers
  Templates <- MCTemplates
  Values <- MCValues
  Other = 8
  MaxSum = 2
  MaxSunk = 3
  Folds <- MCFolds
  Patterns <- MCPatterns
  Fillings <- MCFillings
  Grounds <- MCGrounds
  MaxVars = 8
  MaxDepth = 20
  MaxMatches = 3
  Spaces <- MCSpaces
  Files = {"f"}
  Solvers = {"y", "z"}
  Dumps <- MCDumps
  Batches <- MCBatches
  Contradictions = {{"p", "q"}}
  IllFormed = {"oops"}
  MaxExecs = 3
SPECIFICATION SSpec
INVARIANTS ResourcesExclusive EveryTemplateServed MatchesAreReduced FoldIsExact FactorsAreCurrent NoReadInVain
CHECK_DEADLOCK FALSE
