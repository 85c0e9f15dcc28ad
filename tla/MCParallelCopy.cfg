SPECIFICATION FairSpec
CONSTANTS
  VReg <- MCVReg
  Vals <- MCVals
  Literals <- MCLiterals
  Envs <- MCEnvs
  N = 4
  FirstFree = 5
INVARIANTS
  TypeOK
  SequentialEqualsParallel
  BystandersUntouched
PROPERTIES
  FinishedCopyStable
  LoopTerminates
CHECK_DEADLOCK FALSE
