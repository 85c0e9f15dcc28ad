SPECIFICATION Spec
CONSTANTS
  Memory = {0, 1, 2, 3}
  Args = {"prog", "arg"}
  Keys = {"PATH", "TERM"}
  Values = {"x", "y"}
  Environ = {"PATH"}
  Slots = {1}
  Lengths = {0, 1}
  MaxDeinits = 2
INVARIANTS
  LeaksOnlyEmptyPaths
  DoubleFreeOnlyByDeinit
  BuildsWhatWasAsked
CHECK_DEADLOCK FALSE
