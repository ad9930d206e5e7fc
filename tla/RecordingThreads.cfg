SPECIFICATION FairSpec
CONSTANTS
  Gens = {g1, g2, g3}
  NoGen = NoGen
  FailureLimit = 2
  MaxOrphans = 1
INVARIANTS
  NoFrameWhilePaused
  CleanStopLeavesNoWorker
  PausedIsQuiet
PROPERTIES
  RequestIsOneCall
  EveryoneReturns
  RecordingGoesOn
CHECK_DEADLOCK FALSE
