\* A recording of three frames and its replay.
CONSTANTS
    netdata = netdata  j1 = j1  j2 = j2  r1 = r1  r2 = r2
    Netdata = netdata
    Shards <- Two
    Routes = {r1, r2}
    GiveUpAfter = 2
    MaxFrames = 3
    MaxClock = 1
    MaxRunning = 1
    None = None
    MaxReceivers = 1
    PipeSize = 1
    MaxTries = 2
SPECIFICATION FairSpec
INVARIANTS FromEndToEnd OkMeansAll
PROPERTY ReplayEnds
CHECK_DEADLOCK FALSE
