SPECIFICATION DeliverySpec
CONSTANTS
  t1 = t1  t2 = t2  w1 = w1  w2 = w2  c1 = c1  c2 = c2  i1 = i1  i2 = i2  i3 = i3
  NoCommit = NoCommit  NoTask = NoTask  NoId = NoId
  Tasks <- TwoTasks
  Workers <- TwoWorkers
  Commits <- TwoCommits
  TaskCommit <- SomeCommit
  ReviewIds <- ThreeIds
  MaxAttempts = 2
  Exclusive = TRUE
  Prompt = TRUE
  Rewinds = FALSE
SYMMETRY Symmetric
CHECK_DEADLOCK FALSE
INVARIANT DeliveryTypeOK
INVARIANT AtMostOneReview
INVARIANT CommitsNotMixed
INVARIANT RecordedIsPosted
INVARIANT SupersededUnpublished
