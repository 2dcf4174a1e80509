\* Two keys, two requests per window, a window of two ticks.
SPECIFICATION Spec
CONSTANTS
    k1 = k1
    k2 = k2
    None = None
    Keys <- MCKeys
    Limit = 2
    Window = 2
INVARIANTS TypeOK WindowLimit BurstLimit
PROPERTIES CleanupInvisible RefusedIsReadmitted ExpiredIsRemoved
