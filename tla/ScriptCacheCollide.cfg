SPECIFICATION FairSpec
CONSTANTS
    w1 = w1  w2 = w2  t1 = t1  t2 = t2  s1 = s1  s2 = s2  n1 = n1  n2 = n2
    Workers = {w1, w2}
    Threads <- TwoThreads
    WorkerOf <- TwoWorkerOf
    Scripts = {s1, s2}
    ScriptOf <- TwoScriptOf
    ConfScripts = {s2}
    Hash <- CollidingHash
    Nodes = {n1, n2}
    Sizes = {1}
    Lens = {4}
    Expire <- TwoExpire
    Grace = 1
    PageSize = 4
    MaxTime = 3
    MaxVersion = 2
PROPERTY ExpiredTailLeaves
