\* Two threads, four processes in three queues.
SPECIFICATION Spec
CONSTANTS
    NULL = NULL
    p1 = p1
    p2 = p2
    p3 = p3
    p4 = p4
    Thread = {t1, t2}
    Node = {n1, n2, n3, n4}
    Process <- mc_Process
    priority <- mc_priority
INVARIANTS
    ChainsIntact
    QueuedOnceAndReady
    HighestFirst
PROPERTIES
    FifoQueues
    LockReleased
