SPECIFICATION Spec
CONSTANTS
    IOThreads = {t1, t2}
    Workers = {w1, w2}
    PoolBuffers = {b1}
    HeapBuffers = {h1}
    SessionIds = {k1, k2}
    NoId = NoId
    NoBuf = NoBuf
    MaxTasks = 2
SYMMETRY Symmetry
INVARIANT TypeOK
INVARIANT ReuseAfterIO
INVARIANT PendingExact
INVARIANT RecvExclusive
INVARIANT BufferExclusive
INVARIANT SingleConsumer
INVARIANT TasksAccounted
INVARIANT TasksOfConnection
INVARIANT OneNotice
