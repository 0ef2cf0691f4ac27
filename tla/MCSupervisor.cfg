\* Starts, stops, restarts and the end of a container with one supervised mode.
CONSTANTS
    p1 = p1  p2 = p2
    logs = logs  metrics = metrics
    Procs = {p1, p2}
    Sides = {logs}
    Metrics = metrics
    Ops = {"start", "stop"}
    MaxBoots = 2
    None = None
SPECIFICATION FairSpec
INVARIANT CleanStop
PROPERTIES StopHolds Revived
CHECK_DEADLOCK FALSE
