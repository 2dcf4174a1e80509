\* Every combination of sources, two edits of each, two evaluating requests.
\* A stopped engine whose requests have gone rests: no deadlock check.
SPECIFICATION Spec
CONSTANTS
    r1 = r1
    r2 = r2
    None = None
    Requests <- MCRequests
    Configurations <- MCEveryConfiguration
    MaxEdits = 2
INVARIANTS TypeOK StableWhileEvaluating
PROPERTIES PolicyOnlyAdvances EditAtRestTakesEffect UrlEditTakesEffect StopEndsWatchers
CHECK_DEADLOCK FALSE
