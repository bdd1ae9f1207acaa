SPECIFICATION FairSpec
CONSTANTS
    Jobs = {"w", "a", "b", "c"}
    Work = {"w"}
    Background = {"b"}
    Faults = {"disk", "spawn", "runner", "timeout", "controller", "crash", "takeover"}
    LaneOf <- MCLane
    LaneLimit = 1
    MaxConcurrency = 2
    Commands <- MCCommands
    MaxCommands = 3
    Daemons = {"d1", "d2", "d3"}
    Hosts = {"h1", "h2"}
    Requests = {1, 2}
    MaxRetries = 1
    MaxCrashes = 1
INVARIANTS ServicesTypeOK WithinLimits LogTellsTheTruth QuietAfterRelease ActionOnce OneDaemonUnlessUndercut
PROPERTIES CancelSettles
CHECK_DEADLOCK FALSE
