SPECIFICATION Spec
CONSTANTS
  t1 = t1  t2 = t2  p1 = p1  w1 = w1  w2 = w2  s1 = s1
  NoTask = NoTask  Free = Free  Orphan = Orphan
  Tasks <- OneTask
  PRs <- OnePR
  PR <- SamePR
  BadRepo = {}
  Workers <- TwoWorkers
  Scanners <- OneScanner
  Punctual = TRUE
  MaxAttempts = 2
  MaxFaults = 1
  MaxRequeues = 0
  MaxCopies = 1
SYMMETRY WorkerSymmetry
CHECK_DEADLOCK FALSE
INVARIANT ReviewsBounded
