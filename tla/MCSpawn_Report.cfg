SPECIFICATION Spec
CONSTANTS
  Limits <- SomeLimits
  Inherited <- WithoutSomeStream
  Redirections <- AllRedirections
INVARIANT ExecReported
CHECK_DEADLOCK FALSE
