SPECIFICATION Spec
CONSTANTS
    MaxPid = 4
    Status = {"a"}
    Signal = {}
    CloneKind = {"fork", "thread", "vfork"}
    WaitId = {0}
    WaitOptions <- ExitedOnly
    Fault = {"early"}
INVARIANTS  ZombieIffGroupDead ParentAlive ZombieNotified
