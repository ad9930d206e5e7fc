SPECIFICATION Spec
CONSTANTS
  Sources = {a}
  Values = {1, 5}
  NoValue = NoValue
  Modes = {"changed_and_errors", "changed_only", "values_only", "every_tick_diagnostic"}
  Threshold = 0
  Debounce = 0
  Failures = {}
INVARIANT PauseDiscardsCandidates
