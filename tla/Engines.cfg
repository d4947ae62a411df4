SPECIFICATION SSpec
CONSTANTS
  Bits = 2
  MaxSymbol = 3
  OverflowChecks = TRUE
  Programs <- Evaluations
  Jobs = 2
  Capacity = 9
  Workers = {1, 2}
  Limit = 3
INVARIANTS
  Evaluates Calculates EinsumIsExact MatricesAreExact EntriesFit
PROPERTIES
  EvaluationEnds
CHECK_DEADLOCK FALSE
