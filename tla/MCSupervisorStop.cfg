\* The watchdog and an operator who stops.
CONSTANTS
    p1 = p1  p2 = p2
    logs = logs  metrics = metrics
    Procs = {p1, p2}
    Sides = {logs}
    Metrics = metrics
    Ops = {"stop"}
    MaxBoots = 1
    None = None
SPECIFICATION Spec
INVARIANTS StopWins
CHECK_DEADLOCK FALSE
