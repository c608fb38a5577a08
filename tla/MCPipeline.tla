------------------------------ MODULE MCPipeline ------------------------------
EXTENDS ReviewPipeline, TLC

CONSTANTS t1, t2, p1, w1, w2, s1

OneTask == {t1}
TwoTasks == {t1, t2}
OnePR == {p1}
SamePR == [t \in Tasks |-> p1]
TwoWorkers == {w1, w2}
OneScanner == {s1}
WorkerSymmetry == Permutations(Workers)
OneWorker == {w1}
OneBad == {t2}
=============================================================================
