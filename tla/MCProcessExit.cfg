SPECIFICATION Spec
CONSTANTS
    MaxPid = 3
    Status = {"a", "b"}
    Signal = {"KILL"}
    CloneKind = {"fork", "thread", "vfork"}
    WaitId = {0, 2, 3}
    WaitOptions <- WithNowait
    Fault = {"early", "late"}
INVARIANTS  GroupAllocated GroupExitReachesAll
CHECK_DEADLOCK FALSE
