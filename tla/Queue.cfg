SPECIFICATION Spec
CONSTANTS
    t1 = t1
    t2 = t2
    t3 = t3
    m1 = m1
    m2 = m2
    Threads = {t1, t2, t3}
    Messages = {m1, m2}
    Capacity = 2
    None = None
SYMMETRY QueueSymmetry
INVARIANTS NoLostWakeup ShutdownWakesAll
PROPERTIES ImplementsQueue
