\* The three inspectors of a non-strict deployment with DLP on.
\* The process may die (crashed), after which nothing runs: no deadlock check.
SPECIFICATION Spec
CONSTANTS
    regex = regex
    modelArmor = modelArmor
    dlp = dlp
    None = None
    Inspectors <- MCInspectors
    Kind <- MCKind
INVARIANTS TypeOK ClosedAfterLastSend
PROPERTIES  Terminates
CHECK_DEADLOCK FALSE
