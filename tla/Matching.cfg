CONSTANTS
  Problems <- MCProblems
  Positions <- MCPositions
  Valuations <- MCValuations
  Size <- SizeOf
  Limits = {2, 1000}
SPECIFICATION QFairSpec
INVARIANTS FoundIsWhole StraysFindNothing SearchComplete
           KeepsSolutions GivesUpLate AnswersAreMatches
PROPERTIES Terminates
CHECK_DEADLOCK FALSE
