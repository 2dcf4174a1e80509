\* One request in every format and mode; streams of up to three lines, cut anywhere.
\* The request ends: no deadlock check.
SPECIFICATION Spec
CONSTANTS
    Bodies <- MCBodies
    Objects <- MCObjects
    StreamedReplies <- MCStreamedReplies
INVARIANTS TypeOK  LostOnlyAtCuts WellFormedStream ScreenedIsDelivered
 
CHECK_DEADLOCK FALSE
