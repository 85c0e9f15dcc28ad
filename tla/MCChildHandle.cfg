SPECIFICATION FairSpec
CONSTANTS
  Piped = {{}, {"stdin"}, {"stdout"}, {"stderr"}, {"stdin", "stdout"}, {"stdin", "stderr"}, {"stdout", "stderr"}, {"stdin", "stdout", "stderr"}}
  Children = {"reader", "any"}
  Reaping = {TRUE, FALSE}
INVARIANTS
  TypeOK
  ClosesOnlyItsOwn
  SignalsOnlyTheChildUnlessAutoReap
  OwnsNothingOnceReaped
PROPERTY WaitReturns
CHECK_DEADLOCK FALSE
