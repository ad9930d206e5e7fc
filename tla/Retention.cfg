SPECIFICATION Spec
CONSTANTS
  Sources = {a}
  Values = {1, 2, 5}
  NoValue = NoValue
  Modes = {"changed_and_errors", "changed_only", "every_tick_diagnostic"}
  Threshold = 2
  Debounce = 1
  Failures = {"StorageFailure"}
INVARIANTS
  ComparatorIsDurable
  ReadValueRetained
PROPERTIES
  ChangesAreConfirmed
