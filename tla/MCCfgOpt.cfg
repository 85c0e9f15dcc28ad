SPECIFICATION FairSpec
CONSTANTS
  Programs <- MCPrograms
  Environments <- MCEnvironments
  Inputs <- MCInputs
  Fuel = 3
INVARIANTS
  PreservedUnlessMisfolded
  PhiInputsKnown
  CutOffIsResumed
PROPERTIES
  RoundsMakeProgress
  Terminates
CHECK_DEADLOCK FALSE
