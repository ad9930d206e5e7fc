SPECIFICATION LiveSpec
CONSTANTS
  MaxRevision = 4
  NoRevision = NoRevision
  NoWorker = NoWorker
  NoReview = NoReview
  Backends = {printwindow, copyfromscreen}
  MaxEdits = 2
INVARIANTS
  PreviewCurrent
  ReviewedConfiguration
  WorkerInStep
  RecordingHasWorker
  NoCaptureOfInvalidated
  BlockedHasNoWorker
PROPERTIES
  Spec
CHECK_DEADLOCK FALSE
