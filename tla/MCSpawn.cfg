SPECIFICATION FairSpec
CONSTANTS
  Limits <- SomeLimits
  Inherited <- WithStreams
  Redirections <- AllRedirections
INVARIANTS
  ExecReported
  StreamsConnected
  ParentKeepsOnlyHandle
PROPERTY Returns
CHECK_DEADLOCK FALSE
