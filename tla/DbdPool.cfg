SPECIFICATION FairSpec
CONSTANTS
    Threads = {t1, t2}
    Nobody = nobody
    Names = {n1}
    Limits = {0, 1}
    Cols = 1
    Rows = 1
    MaxConns = 2
INVARIANTS PoolAgrees CallsMatch RowsWhole
PROPERTY ComesBack
