\* The console, control_file.py and an editor, one request after the
\* other, either of which may die half way, while a plugin process polls.
CONSTANTS
    db = db  web = web  ghost = ghost
    ui = ui  ops = ops  sh = sh  vi = vi
    metrics = metrics  journal = journal
    Scenarios = {db, web}
    Library = {db}
    Clients = {ui, ops, vi}
    Mortal = {ui}
    KindOf <- Kinds
    Consumers = {metrics}
    Recovery = 2
    OneAtATime = TRUE
    MaxTime = 2
    MaxRequests = 3
    Absent = Absent
    Null = Null
SPECIFICATION FairSpec
INVARIANT NextTick
PROPERTIES Undisturbed Unwinds PickedUp
CHECK_DEADLOCK FALSE
