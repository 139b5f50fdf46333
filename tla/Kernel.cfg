CONSTANTS
    Tasks = {t1, t2, t3}
    NULL = NULL
    MaxProcesses = 2
    Registers = 2
SPECIFICATION Spec
INVARIANTS
    KernelTypeOK
    ContextRestored
    FocusInTable
    TableMatchesTasks
    RunQueueIsLive
    PanicsOnlyWhenEmpty
PROPERTY EveryTaskRuns
CHECK_DEADLOCK FALSE
