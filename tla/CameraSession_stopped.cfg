SPECIFICATION Spec
CONSTANTS
    MaxPages = 2
    MaxTasks = 4
INVARIANT StoppedStaysStopped
CHECK_DEADLOCK FALSE
