CONSTANTS
    Keys = {1, 2, 3, 4, 5, 6, 7, 8}
    Values = {1}
    NoValue = 0
SPECIFICATION Spec
INVARIANT Balanced
