CONSTANTS
  Threads = {t1, t2, t3, t4}
  MaxUnsigned = 3
  MaxRounds = 5
SPECIFICATION FairSpec
INVARIANT NoEarlyExit
INVARIANT NeverLapped
INVARIANT ReleasedAreAwake
PROPERTY EveryWaitReturns
CHECK_DEADLOCK FALSE
