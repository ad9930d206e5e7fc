SPECIFICATION Spec
CONSTANTS
  NoValue = NoValue
  PrecisionMax = 2
  NoElevation = NoElevation
  PlausibleMin = 0
  PlausibleMax = 9000
  MaxText = 5
  MaxValues = 5
  MaxLabels = 3
  MaxCrowd = 12
INVARIANTS NumberAsWritten RecoveredIsTrue LocalBandIsDensest SnapIsSafe
CHECK_DEADLOCK FALSE
