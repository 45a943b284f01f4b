CONSTANTS
    r = r
    a = a
    b = b
    x = x
    y = y
    z = z
    NoLocal = NoLocal
    Folders = {r, a, b}
    Files = {x, y, z}
    Root = r
    Parent0 <- MCParent0
    Bound = {x}

SPECIFICATION Spec

INVARIANT SyncingExact

CHECK_DEADLOCK FALSE
