SPECIFICATION FairSpec
CONSTANTS
  None = None
  MaxOpens = 2
  MaxIndexes = 2
  MaxChanges = 1
INVARIANTS ServiceIsCurrent LatestIsOnly
PROPERTIES EveryIndexEnds
