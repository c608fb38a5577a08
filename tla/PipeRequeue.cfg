SPECIFICATION FairSpec
CONSTANTS
  t1 = t1  t2 = t2  p1 = p1  w1 = w1  w2 = w2  s1 = s1
  NoTask = NoTask  Free = Free  Orphan = Orphan
  Tasks <- TwoTasks
  PRs <- OnePR
  PR <- SamePR
  BadRepo <- OneBad
  Workers <- OneWorker
  Scanners <- OneScanner
  Punctual = TRUE
  MaxAttempts = 1
  MaxFaults = 0
  MaxRequeues = 1
  MaxCopies = 1
CHECK_DEADLOCK FALSE
INVARIANT DeliveredIsSettled
PROPERTY QueuedSettles
PROPERTY ImplementsLifecycle
