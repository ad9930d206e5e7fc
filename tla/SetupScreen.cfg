SPECIFICATION Spec
CONSTANTS
  Fields = {a, b}
  Targets = {window, demo}
  Demo = demo
  Backends = {auto, printwindow}
  AutoBackend = auto
  None = None
  MaxControllers = 2
SYMMETRY FieldSymmetry
INVARIANTS
  VerdictIsCurrent
  PickerIsCurrent
  DrawnOnTarget
PROPERTIES
  OnlyReviewStrays
CHECK_DEADLOCK FALSE
