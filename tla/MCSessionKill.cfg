SPECIFICATION Spec
CONSTANTS
    MaxPid = 4
    MaxFds = 0
    Join = TRUE
    UseTty = FALSE
    Steal = FALSE
INVARIANT KillGroupReaches
CHECK_DEADLOCK FALSE
