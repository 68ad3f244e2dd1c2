SPECIFICATION Spec
CONSTANTS
    IOThreads = {t1, t2}
    Workers = {w1, w2}
    PoolBuffers = {b1}
    HeapBuffers = {}
    SessionIds = {k1, k2}
    NoId = NoId
    NoBuf = NoBuf
    MaxTasks = 1
SYMMETRY Symmetry
INVARIANT NoReuseWithPendingIO
