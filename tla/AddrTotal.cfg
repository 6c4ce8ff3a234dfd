SPECIFICATION Spec
CONSTANTS
    Addrs <- MCAddrs
    Texts <- MCTexts
CHECK_DEADLOCK FALSE
INVARIANT ParserTotal
