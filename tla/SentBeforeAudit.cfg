\* The request of Exchange.cfg, asked whether it is answered before the audit.
\* The request ends: no deadlock check.
SPECIFICATION Spec
CONSTANTS
    Bodies <- MCBodies
    Objects <- MCObjects
    StreamedReplies <- MCStreamedReplies
INVARIANT SentBeforeAudit
CHECK_DEADLOCK FALSE
