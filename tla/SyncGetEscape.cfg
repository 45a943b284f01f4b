CONSTANTS
    R = R
    A = A
    F = F
    D = D
    B = B
    l0 = l0
    l1 = l1
    l2 = l2
    f1 = f1
    f2 = f2
    NoNode = NoNode
    NoLocal = NoLocal
    NoFsid = NoFsid
    Handles = {R, A, F, B, D}
    ServerParent <- MCServerParent
    Files = {F}
    SyncRootNode = A
    DebrisNode = D
    LocalIds = {l0, l1, l2}
    LFolders = {l0, l1}
    LocalRoot = l0
    Fsids = {f1}
    MaxRenames = 1

SPECIFICATION Spec

PROPERTY DownloadsStayInSync
CHECK_DEADLOCK FALSE
