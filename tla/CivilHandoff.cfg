SPECIFICATION Spec
CONSTANTS
  MaxPoints = 2
  MaxCalls = 4
  MaxExports = 2
  NoFile = NoFile
  SurfacePoints = 1
INVARIANTS
  ApprovedIsCalibrated
  FreshExportMatches
  RecordedIsPublished
PROPERTIES
  RefusedChangesNothing
CHECK_DEADLOCK FALSE
