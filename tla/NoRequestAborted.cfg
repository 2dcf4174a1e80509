\* Two concurrent requests with RATE_LIMIT at 0.
SPECIFICATION Safety
CONSTANTS
    r1 = r1
    r2 = r2
    Requests <- MCRequests
    QueueCap = 1
    Limited = FALSE
INVARIANT NoRequestAborted
