SPECIFICATION FilesSpec
CONSTANTS
  Fields = {a}
  MaxAttempts = 2
  MaxSkips = 1
  Points = {2}
  MaxErrors = 2
INVARIANTS
  AcknowledgedSurvives
  CropsBackEvents
  SkipsConserved
  DrainedRunIsFinal
  PreviewIsRegeneration
  ReportedRowsAreKept
  ExportsAgree
CHECK_DEADLOCK FALSE
