SPECIFICATION Spec
CONSTANTS
    Addrs = {a1, a2}
    Keys = {k1}
    Dicts = {d1, d2}
    Values = {empty, v1}
    Empty = empty
    None = None
SYMMETRY Symmetry
VIEW View
CHECK_DEADLOCK FALSE
INVARIANTS
    JoinersTold
