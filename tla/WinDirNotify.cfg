CONSTANTS
    Changes <- MCChanges
    Ignore <- MCIgnore
    Sep = "\\"
    BufCap = 2
    RdcOutcomes = {"ok", "enumdir", "fail"}
    NameSpace <- MCNameSpace
    Actions <- MCActions
    Objs <- MCObjs
    Attrs <- MCAttrs
    Listing <- MCListing
    Path0 = "F1"
    Replacements <- MCReplacements
    MaxReplace = 2
    NoObj = NoObj
    NoH = NoH
    Closed = Closed
SPECIFICATION SyncSpec
INVARIANT IgnoreExact
INVARIANT ParseNotOverwritten
INVARIANT HandleOwnership
INVARIANT ScanExact
PROPERTY StreamRefined
PROPERTY ChangesReachSync
CHECK_DEADLOCK FALSE
