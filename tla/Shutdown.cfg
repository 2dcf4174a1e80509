\* Three events through a queue of one, which fills, drops and drains; one retry.
\* The process ends: no deadlock check.
SPECIFICATION Spec
CONSTANTS
    e1 = e1
    e2 = e2
    e3 = e3
    None = None
    Events <- MCEvents
    BufferSize = 1
    MaxRetries = 1
INVARIANTS TypeOK EventInOnePlace StopSettlesEarlyEvents 
PROPERTIES QueuedIsSettled StopReturns
CHECK_DEADLOCK FALSE
