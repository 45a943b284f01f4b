CONSTANTS
    NodeObjs <- MCNodeObjs
    LocalObjs <- MCLocalObjs
    Handles = {"h1", "h2"}
    Cuts = {1, 2, 3, 5}
    AttrLen = 4
    Me = "u1"
    Cached = "h1"
    ShareRoot = "h2"
    FreshFile = "h3"
    Keystrings <- MCKeystrings
    AttrStrings = {"bad", "noc", "c1"}
    CVals = {"c1"}
    NoColon = NoColon
    NoC = NoC
    NoAttr = NoAttr
    NoFp = NoFp
    End = End
SPECIFICATION KeysSpec
INVARIANT NoReadPastEnd
CHECK_DEADLOCK FALSE
