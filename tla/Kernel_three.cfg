CONSTANTS
    Tasks = {t1, t2, t3, t4}
    NULL = NULL
    MaxProcesses = 3
    Registers = 2
SPECIFICATION Spec
INVARIANT RunsAProcess
CHECK_DEADLOCK FALSE
