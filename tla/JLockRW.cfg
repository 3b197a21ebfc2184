\* Every thread both reads and writes; four threads let two writers overlap
\* while a third reads and a fourth waits.
CONSTANTS
    t1 = t1  t2 = t2  t3 = t3  t4 = t4
    Readers = {t1, t2, t3, t4}
    Writers = {t1, t2, t3, t4}
    NoThread = NoThread
SPECIFICATION FairSpec
INVARIANT CountsExact
PROPERTIES ImplementsRWLock QuietSideLetsOtherIn
