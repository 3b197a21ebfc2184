CONSTANTS
    t1 = t1  t2 = t2  t3 = t3
    n1 = n1  n2 = n2  n3 = n3
    d1 = d1  d2 = d2
    Threads = {t1, t2, t3}
    Nodes = {n1, n2, n3}
    Items = {d1, d2}
    NoItem = NoItem
    Null = Null
    Junk = Junk
    NoThread = NoThread
SPECIFICATION MCSpec
INVARIANTS Conservation EndsApart
PROPERTIES ImplementsPermitDeque CallsReturn
