SPECIFICATION FairSpec
CONSTANTS
    MaxPid = 3
    Status = {"a"}
    Signal = {"KILL"}
    CloneKind = {"fork"}
    WaitId = {0}
    WaitOptions <- ExitedOnly
    Fault = {}
PROPERTY KillActedOn
CHECK_DEADLOCK FALSE
