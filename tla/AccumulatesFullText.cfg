\* The request of Exchange.cfg, asked what docs/design.md says of audit mode.
\* The request ends: no deadlock check.
SPECIFICATION Spec
CONSTANTS
    Bodies <- MCBodies
    Objects <- MCObjects
    StreamedReplies <- MCStreamedReplies
INVARIANT AccumulatesFullText
CHECK_DEADLOCK FALSE
