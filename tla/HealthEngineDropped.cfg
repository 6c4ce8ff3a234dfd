\* One target: the events its dispatcher drops.
SPECIFICATION Spec
CONSTANTS
    UpRetry <- MCUpRetry
    DownRetry <- MCDownRetry
    SyncTime = 2
INVARIANT DroppedIsApplied
