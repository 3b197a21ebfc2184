CONSTANTS
    v1 = v1
    t1 = t1  t2 = t2
    Threads = {t1, t2}
    NoThread = NoThread
    NoVal = NoVal
    NoValue = NoValue
    Keys = {1, 2, 3}
    Values = {v1}
SPECIFICATION Spec
INVARIANT IdleMeansUnlocked
