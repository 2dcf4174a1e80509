\* Three concurrent callers, a threshold of two failures, a timeout of one tick.
SPECIFICATION Spec
CONSTANTS
    c1 = c1
    c2 = c2
    c3 = c3
    Callers <- MCCallers
    MaxFailures = 2
    ResetTimeout = 1
    FailureCap = 3
INVARIANTS TypeOK ClosedBelowThreshold HalfOpenAdmits
PROPERTIES IsCallGate OpenIsProbed Recovers
