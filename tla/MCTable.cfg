SPECIFICATION Spec
CONSTANTS
    i1 = i1
    i2 = i2
    s1 = s1
    o1 = o1
    v1 = v1
    v2 = v2
    Nil = Nil
    Key <- Keys
    Values = {v1, v2}
    Index <- IndexOf
    Masked = {s1}
    Collectable = {s1, o1}
    Hashes <- HashChoice
    ArraySizes = {2}
    NodeSizes = {0}
    Lists = {2}
    MAX_INT = 3
SYMMETRY ValueSymmetry
INVARIANTS
    TypeOK
    MainPositions
    ChainsEnd
    FreeBeforeLast
    RoomAfterRehash
    BoundaryFound
    KeyStillFound
PROPERTY
    IsMap
