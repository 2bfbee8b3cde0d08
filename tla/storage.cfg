SPECIFICATION Spec
CONSTANTS
    Clients = {c1, c2}
    Rooms = {r1, r2}
    Bodies = {b1, b2}
    Names = {n1}
    SecretKeys = {k1, k2}
    Limit = 2
    MaxRows = 3
    MaxPresets = 2
    None = None
SYMMETRY Symmetry
VIEW View
CHECK_DEADLOCK FALSE
INVARIANTS
    TypeOK
    RoomLogBounded
    PasscodesReadable
    OnePresetPerName
PROPERTIES
    KeepsHistory
    SavedPresetKept
