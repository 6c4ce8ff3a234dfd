SPECIFICATION Spec
CONSTANTS
    Targets = {t1, t2}
    MaxObjects = 4
    Params <- MCParams
    Addrs <- MCOneAddr
    Timeouts <- MCTimeouts
    Replies <- MCReplies
    Overrun = 1
CHECK_DEADLOCK FALSE
INVARIANT NewCheckerReturns
