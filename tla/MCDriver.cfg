SPECIFICATION Spec
CONSTANTS
  Jobs <- TwoJobs
  Configs <- SomeConfigs
  Erroneous <- NotCompiling
  Unlucky = {1}
  Leftovers <- SomeLeftovers
  PipeCapacity = 1
  Chatter <- FirstPrints
INVARIANT MadeFromOwnSource
PROPERTIES
  KeepsPromise
  Terminates
CHECK_DEADLOCK FALSE
