SPECIFICATION Spec
CONSTANTS
    w1 = w1  w2 = w2  t1 = t1  t2 = t2  s1 = s1  s2 = s2  n1 = n1  n2 = n2
    Workers = {w1, w2}
    Threads <- TwoThreads
    WorkerOf <- TwoWorkerOf
    Scripts = {s1}
    ScriptOf <- OneScriptOf
    ConfScripts = {}
    Hash <- OneHash
    Nodes = {n1, n2}
    Sizes = {1, 2}
    Lens = {4, 8}
    Expire <- TwoExpire
    Grace = 0
    PageSize = 4
    MaxTime = 2
    MaxVersion = 2
INVARIANTS IndexAgrees RunsFreshCode NoTruncatedCode CodeFitsBuffer OneNodePerPath
PROPERTIES RemovedForCause ImplementsService
