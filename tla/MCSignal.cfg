SPECIFICATION Spec
CONSTANTS
    Sig = {"A", "B"}
    Ignored = {"B"}
    ActionMask <- KillMask
    Call = {"ppoll", "sigtimedwait"}
    StackFault = TRUE
    MaxFrames = 2
INVARIANTS  QueuedOnce MaskRestored
CHECK_DEADLOCK FALSE
