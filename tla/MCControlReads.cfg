\* A process reads between the halves of a save; one property at a time.
CONSTANTS
    db = db  web = web  ghost = ghost
    ui = ui  ops = ops  sh = sh  vi = vi
    metrics = metrics  journal = journal
    Scenarios = {db, web}
    Library = {db}
    Clients = {ui, ops, vi}
    Mortal = {ui}
    KindOf <- Kinds
    Consumers = {metrics}
    Recovery = 2
    OneAtATime = TRUE
    MaxTime = 2
    MaxRequests = 3
    Absent = Absent
    Null = Null
SPECIFICATION Spec
INVARIANT NextTickAlways
\* PROPERTIES NeverRestarted
CHECK_DEADLOCK FALSE
