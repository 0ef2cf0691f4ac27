\* The console and control_file.py at the same time.
CONSTANTS
    db = db  web = web  ghost = ghost
    ui = ui  ops = ops  sh = sh  vi = vi
    metrics = metrics  journal = journal
    Scenarios = {db, web}
    Library = {db, web}
    Clients = {ui, ops}
    Mortal = {}
    KindOf <- Kinds
    Consumers = {}
    Recovery = 2
    OneAtATime = FALSE
    MaxTime = 1
    MaxRequests = 2
    Absent = Absent
    Null = Null
SPECIFICATION Spec
PROPERTIES OthersKept
CHECK_DEADLOCK FALSE
