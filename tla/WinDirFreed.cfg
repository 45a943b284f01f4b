CONSTANTS
    Changes <- MCChanges
    Ignore <- MCIgnore
    Sep = "\\"
    BufCap = 2
    RdcOutcomes = {"ok", "enumdir", "fail"}
    NameSpace <- MCNameSpace
    Actions <- MCActions
    Objs <- MCObjs
    Attrs <- MCAttrs
    Listing <- MCListing
    Path0 = "F1"
    Replacements <- MCReplacements
    MaxReplace = 2
    NoObj = NoObj
    NoH = NoH
    Closed = Closed
SPECIFICATION SyncSpec
CHECK_DEADLOCK FALSE
INVARIANT NoCompletionAfterDestroy
