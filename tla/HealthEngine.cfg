\* One target: its checker loop, its dispatcher and its actioner.
SPECIFICATION FairSpec
CONSTANTS
    UpRetry <- MCUpRetry
    DownRetry <- MCDownRetry
    SyncTime = 2
INVARIANTS
    TypeOK
    ReconciledAfterSuccess
PROPERTIES
    FlipNeedsRetries
    EventsLeaveQueue
