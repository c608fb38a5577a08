------------------------------ MODULE MCDelivery ------------------------------
EXTENDS ReviewDelivery, TLC

CONSTANTS t1, t2, w1, w2, c1, c2, i1, i2, i3

OneTask == {t1}
TwoTasks == {t1, t2}
OneWorker == {w1}
TwoWorkers == {w1, w2}
TwoCommits == {c1, c2}
TwoIds == {i1, i2}
ThreeIds == {i1, i2, i3}
KnownCommit == [t \in Tasks |-> c1]
SomeCommit == [t \in Tasks |-> IF t = t1 THEN c1 ELSE NoCommit]
UnknownCommit == [t \in Tasks |-> NoCommit]
Symmetric == Permutations(ReviewIds) \cup Permutations(Workers)
=============================================================================
