CONSTANTS
    Addr = {o1, o2, o3, o4}
    a = a
    b = b
    Chars <- MCChars
    Hash <- MCHash
    Null = Null
    True = True
    Empty = Empty
    Gone = Gone
    InitialCap = 2
    StackMax = 3
    FilledMax = 1
    Reuses = FALSE
    MainHolds = TRUE
SPECIFICATION Spec
SYMMETRY Symmetry
INVARIANTS
    NothingDangles
