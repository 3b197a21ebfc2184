\* Six blocks: more than BoundedGrowth allows to be malloc'ed.
CONSTANTS
    t1 = t1  t2 = t2  t3 = t3
    Threads = {t1, t2, t3}
    ChunkSize = 2
    NumBlocks = 6
    MaxDemand = 4
    NoThread = NoThread
SPECIFICATION MCSpec
INVARIANTS Conservation SnapshotsAreSafe BoundedGrowth
PROPERTIES ImplementsAllocator CallsReturn
