SPECIFICATION UtilsSpec
CONSTANTS
    Addrs <- MCAddrs
    Texts <- MCTexts
CHECK_DEADLOCK FALSE
INVARIANTS
    TypeOK
    RoundTrip
    ParsedPortIsWritten
    TargetTypeOK
    HeldIsBound
