\* Timeouts and kernel failures together, under fair scheduling of goroutines.
SPECIFICATION FairSpec
CONSTANTS
    Calls = {c1, c2}
    Timeouts <- MCTimeouts
    Faults <- MCAllFaults
    SlowNetlink = TRUE
PROPERTIES
    WorkersExit
