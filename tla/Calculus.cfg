CONSTANTS
  Atoms <- MCAtoms
  Execs <- MCExecs
  WellFormed <- MCWellFormed
  Templates <- MCTemplates
  Matches <- MCMatches
  NoAtom = NoAtom
  MaxSteps = 3
SPECIFICATION FairSpec
INVARIANTS EarlyMeansQuiet ResultCountsRuns
PROPERTIES AtomicRewrite Returns
CHECK_DEADLOCK FALSE
