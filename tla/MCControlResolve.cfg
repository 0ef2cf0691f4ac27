\* The console triggers, control_file.py resolves.
CONSTANTS
    db = db  web = web  ghost = ghost
    ui = ui  ops = ops  sh = sh  vi = vi
    metrics = metrics  journal = journal
    Scenarios = {db}
    Library = {db}
    Clients = {ui, ops}
    Mortal = {}
    KindOf <- Kinds
    Consumers = {}
    Recovery = 2
    OneAtATime = TRUE
    MaxTime = 1
    MaxRequests = 2
    Absent = Absent
    Null = Null
SPECIFICATION Spec
PROPERTIES ResolveTakes
CHECK_DEADLOCK FALSE
