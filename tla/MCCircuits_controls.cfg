SPECIFICATION MCSpec
CONSTANTS
    P = 46327
    W = 7
    RANGE_BITS = 15
    MD = 3
    RD = 3
    DEPTH = 13
    COVER = 8
    PAYLOAD_DIGEST = 31337
    SECRET <- MCSecret
    FREE_KEY <- MCFreeKey
    BATCHES <- MCBatches
    PADDED <- MCPadded
    REUSES <- MCReuses
    ORDER = 67
    RANGE = 16
    SLOT_COVER = 3
    U = 2
    B = 8
    C = 6
    BASE = 2
    L = 5
    MAX_RANGES = 4
    MAX_PAID = 12
    SENTINELS <- MCSentinels
INVARIANTS
    ControlsBindOnly
CHECK_DEADLOCK FALSE
