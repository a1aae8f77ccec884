SPECIFICATION FairSpec
CONSTANTS
  t1 = t1
  t2 = t2
  t3 = t3
  p1 = p1
  p2 = p2
  p3 = p3
  Thread = {t1, t2, t3}
  NoThread = NoThread
  Pid = {p1, p2, p3}
  PidOf <- OwnProcess
  Survivors = {p3}
  MoneyLock = {t2}
  Sentinel = {1, 2, 3, 4}
INVARIANTS
  NoUpdateLost
PROPERTIES
  ImplementsExclusiveLock
  DeadHolderGivesWay
CHECK_DEADLOCK FALSE
