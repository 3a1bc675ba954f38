SPECIFICATION Spec
CONSTANTS
    MaxRing = 2
    SlotCount = 2
    MaxSequence = 2
    Modes = {sdr}
    NoMode = NoMode
    WorkerCount = 2
    MaxFrames = 4
    MaxFaults = 1
INVARIANT VisibleFramesWhole
PROPERTIES RetiredRingsStayDark NewestFrameArrives
CHECK_DEADLOCK FALSE
