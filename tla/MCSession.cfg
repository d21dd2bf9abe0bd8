SPECIFICATION Spec
CONSTANTS
    MaxPid = 4
    MaxFds = 1
    Join = FALSE
    UseTty = TRUE
    Steal = TRUE
INVARIANTS TypeOK TtyRefcount SessionLeaderOwns  
CHECK_DEADLOCK FALSE
