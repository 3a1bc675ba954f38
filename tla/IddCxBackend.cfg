SPECIFICATION Spec
CONSTANTS
    SwapChains = {p1, p2}
    NoChain = NoChain
    Controller = Controller
    Reaper = Reaper
    Cleanup = Cleanup
    MaxGeneration = 2
    MaxRequests = 3
    MaxFaults = 2
    NoMonitor = NoMonitor
SYMMETRY Symmetry
CHECK_DEADLOCK FALSE
INVARIANTS
    RefusalsHaveAnOwner
    ArrivalsAccountedFor
    SwapchainsOwnedOnce
