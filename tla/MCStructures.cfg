\* Red-black tree: ten keys, enough for every case of the fix-ups, on both sides, at
\* the root and below it, with the recursion of recurse_fix.
\* AVL tree: nine keys; eight is the least for a deletion that leaves a node
\* unbalanced, so the run goes on inserting into and deleting from such trees.
CONSTANTS
    v1 = v1  v2 = v2
    t1 = t1  t2 = t2
    Threads = {t1, t2}
    NoThread = NoThread
    NoVal = NoVal
    NoValue = NoValue
    Keys = {1, 2, 3, 4, 5, 6, 7, 8, 9, 10}
    Values = {v1, v2}
    FewKeys = {1, 2, 3}
    ManyValued = {1, 2}
    Alone = t1
    Unset = Unset
    ElementSize = 4
    LeastCapacity = 4
    MostElements = 7
    HeapKeys = {1, 2, 3}
    MaxHeap = 5
    Pollers = {t1, t2}
    PollFds = {1, 2, 3}
    AvlKeys = {1, 2, 3, 4, 5, 6, 7, 8, 9}
    PerChunk = 2
    MaxBlocks = 2
    Sizes = {0, 255, 256, 257, 769, 1025}
SPECIFICATION MCSpec
INVARIANTS TreesSound BlocksFit BlocksSafe SizeCovered
PROPERTIES ImplementsDict OnlyReleaseForgets
\* A heap is full at its bound; str_jalloc and jallocator_t have no blocks left at theirs.
CHECK_DEADLOCK FALSE
