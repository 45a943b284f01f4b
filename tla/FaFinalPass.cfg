CONSTANTS
    a1 = a1
    a2 = a2
    NoFetch = NoFetch
    Fetches = {a1, a2}
    FetchOrder <- MCFetchOrder
    AttrLen <- MCAttrLen
    MaxNetFails = 1

SPECIFICATION Spec

INVARIANT DeliveredExact

CHECK_DEADLOCK FALSE
