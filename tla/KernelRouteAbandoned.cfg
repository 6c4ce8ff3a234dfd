\* A netlink call may outlast the timeout of Act.
SPECIFICATION Spec
CONSTANTS
    Calls = {c1, c2}
    Timeouts <- MCPositiveTimeouts
    Faults <- MCNoFaults
    SlowNetlink = TRUE
INVARIANTS
    KernelFollowsLastSuccess
