\* Netlink calls return within the timeout of Act; any of them may be refused.
SPECIFICATION Spec
CONSTANTS
    Calls = {c1, c2}
    Timeouts <- MCTimeouts
    Faults <- MCAllFaults
    SlowNetlink = FALSE
INVARIANTS
    TypeOK
    KernelFollowsLastSuccess
    ActIdempotent
PROPERTIES
    ImplementsActioner
