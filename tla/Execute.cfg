SPECIFICATION ExecFairSpec
CONSTANTS
    Thread = {t1, t2}
    ExitCode = {0, 4}
    MaxCommands = 3
INVARIANTS
    ExecTypeOK
    FailureReported
PROPERTIES
    CommandEnds
CHECK_DEADLOCK FALSE
