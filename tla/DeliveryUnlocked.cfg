SPECIFICATION DeliverySpec
CONSTANTS
  t1 = t1  t2 = t2  w1 = w1  w2 = w2  c1 = c1  c2 = c2  i1 = i1  i2 = i2  i3 = i3
  NoCommit = NoCommit  NoTask = NoTask  NoId = NoId
  Tasks <- OneTask
  Workers <- TwoWorkers
  Commits <- TwoCommits
  TaskCommit <- UnknownCommit
  ReviewIds <- ThreeIds
  MaxAttempts = 2
  Exclusive = FALSE
  Prompt = FALSE
  Rewinds = TRUE
SYMMETRY Symmetric
CHECK_DEADLOCK FALSE
INVARIANT PostedIsSaved
