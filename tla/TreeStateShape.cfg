CONSTANTS
    r = r
    a = a
    b = b
    x = x
    y = y
    z = z
    NoLocal = NoLocal
    Folders = {r, a, b}
    Files = {x, y, z}
    Root = r
    Parent0 <- MCParent0
    Bound = {a, b, x, y}

SPECIFICATION Spec

INVARIANT TypeOK
INVARIANT SyncingUpwardBound
INVARIANT SyncingExactUntilReshaped

\* every node may be deleted, after which no step is enabled
CHECK_DEADLOCK FALSE
