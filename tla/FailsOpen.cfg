\* The chain of InspectorChain.cfg, asked what docs/operations.md says of failures.
\* The process may die, after which nothing runs: no deadlock check.
SPECIFICATION Spec
CONSTANTS
    regex = regex
    modelArmor = modelArmor
    dlp = dlp
    None = None
    Inspectors <- MCInspectors
    Kind <- MCKind
INVARIANT FailsOpen
CHECK_DEADLOCK FALSE
