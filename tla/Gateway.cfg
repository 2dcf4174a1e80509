\* Two concurrent requests, every mode, a webhook queue that fills up.
SPECIFICATION Spec
CONSTANTS
    r1 = r1
    r2 = r2
    Requests <- MCRequests
    QueueCap = 1
    Limited = TRUE
INVARIANTS TypeOK PromptsScreenedBeforeCall  
PROPERTIES EveryRequestAnswered AuditReportsViolation
