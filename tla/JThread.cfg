CONSTANTS
    w1 = w1  w2 = w2
    Workers = {w1, w2}
    Owner = Owner
    k1 = k1  k2 = k2  k3 = k3
    Tasks = {k1, k2, k3}
    NoTask = NoTask
    ChunkSize = 2
SPECIFICATION Spec
INVARIANTS OncePerTask QueueOutlivesWorkers FreedOnce
PROPERTIES TasksGetRun DestructorReturns ConstructorHangs
CHECK_DEADLOCK FALSE
