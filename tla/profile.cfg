SPECIFICATION Spec
CONSTANTS
    Addrs = {a1, a2}
    Keys = {k1}
    Dicts = {d1, d2, d3}
    Values = {empty, v1, v2}
    Empty = empty
    None = None
SYMMETRY Symmetry
VIEW View
CHECK_DEADLOCK FALSE
INVARIANTS
    TypeOK
    ProfileSent
