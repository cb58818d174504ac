SPECIFICATION BrowserFairSpec
CONSTANTS
    Renderers = {x1, x2}
    Slots = 1
    MaxLaunches = 2
    MaxBrowserFaults = 2
PROPERTY SlotReturned
CHECK_DEADLOCK FALSE
