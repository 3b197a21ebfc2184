CONSTANTS
    u1 = u1
    Users = {u1}
    Ticker = Ticker
    c1 = c1  c2 = c2
    Conns = {c1, c2}
    Nothing = Nothing
    Secs = 1
    LastCall = 2
    Patience = 2
SPECIFICATION Spec
INVARIANTS OneEntry NotLate
PROPERTIES NeverEarly ManagedEnds
