SPECIFICATION FairSpec
CONSTANTS
  MAX_S_CORE_LINKS = 2
  Units = 2
  MaxSubgroups = 6
  MaxRoots = 1
  MaxCalls = 1
INVARIANTS TypeOK TreeFits ExpectedExact TotalExact
PROPERTIES TotalSent
