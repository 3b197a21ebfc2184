CONSTANTS
    t1 = t1  t2 = t2  t3 = t3
    n1 = n1  n2 = n2
    d1 = d1  d2 = d2
    Threads = {t1, t2, t3}
    Nodes = {n1, n2}
    Items = {d1, d2}
    NoItem = NoItem
    Null = Null
    Junk = Junk
SPECIFICATION MCSpec
INVARIANTS Conservation SizeAccounts
PROPERTIES ImplementsStack CallsReturn
