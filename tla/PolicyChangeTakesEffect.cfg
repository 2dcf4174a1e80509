\* The file as only source, edited twice, asked what ADR 010 says of changes.
\* A stopped engine whose requests have gone rests: no deadlock check.
SPECIFICATION Spec
CONSTANTS
    r1 = r1
    r2 = r2
    None = None
    Requests <- MCRequests
    Configurations <- MCFileOnly
    MaxEdits = 2
PROPERTY PolicyChangeTakesEffect
CHECK_DEADLOCK FALSE
