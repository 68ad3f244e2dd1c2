SPECIFICATION FairSpec
CONSTANTS
    IOThreads = {t1, t2}
    Workers = {w1, w2}
    PoolBuffers = {b1}
    HeapBuffers = {}
    SessionIds = {k1}
    NoId = NoId
    NoBuf = NoBuf
    MaxTasks = 2
PROPERTY DisconnectCompletes
