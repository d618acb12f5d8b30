\* Three hooks, one after the other or at once, one of which may be killed.
CONSTANTS
    Hooks = {h1, h2, h3}
    Killed = {h3}
    Stopper = Stopper
    MaxLines = 3
SPECIFICATION SystemFairSpec
INVARIANTS FrameAligned
PROPERTIES IsRequestChannel IsBlockingCall SerialHookReturns
CHECK_DEADLOCK FALSE
