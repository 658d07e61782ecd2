CONSTANTS
  Threads = {t1, t2, t3}
  NoThread = NoThread
  MaxFlag = 5
SPECIFICATION FairSpec
INVARIANT MutualExclusion
INVARIANT NoLostWakeup
PROPERTY LockIsGranted
CHECK_DEADLOCK TRUE
