SPECIFICATION Spec
CONSTANTS
    Processes = {p1, p2, p3}
    MaxSessions = 3
    Hierarchy = TRUE
INVARIANTS IdsUnique DictIsRunning
INVARIANTS ParentIsOwner NestedIfParentRuns StoppedOnce
CHECK_DEADLOCK FALSE
