\* Package checker: the list of check methods, one checker before every
\* target and network, and two checkers made from every parameter map.
SPECIFICATION PackageSpec
CONSTANTS
    Targets = {t1, t2}
    MaxObjects = 4
    Params <- MCKnownParams
    Addrs <- MCOneAddr
    Timeouts <- MCOneTimeout
    Replies <- MCOneReply
    Overrun = 1
    t0 = t0
SYMMETRY TargetSymmetry
CHECK_DEADLOCK FALSE
INVARIANTS
    TypeOK
    AllIsolated
    SingleHealthyOnlyOverUDP
    MethodTypeOK
    DumpInOrder
    ListedNamesSelect
