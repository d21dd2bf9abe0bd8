SPECIFICATION Spec
CONSTANTS
    o1 = o1
    o2 = o2
    o3 = o3
    Owner = {o1, o2, o3}
    Top = 1
    Mode = {"RDWR"}
    Cmd = {"SETLK", "SETLKW"}
INVARIANTS
    WaitingCommandsWait
