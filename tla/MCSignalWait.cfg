SPECIFICATION Spec
CONSTANTS
    Sig = {"A", "B"}
    Ignored = {}
    ActionMask <- NoMask
    Call = {"sigtimedwait"}
    StackFault = FALSE
    MaxFrames = 2
INVARIANT SigpendingExact
CHECK_DEADLOCK FALSE
