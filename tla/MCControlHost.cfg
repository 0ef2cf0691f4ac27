\* scenario.sh alone on a host install.
CONSTANTS
    db = db  web = web  ghost = ghost
    ui = ui  ops = ops  sh = sh  vi = vi
    metrics = metrics  journal = journal
    Scenarios = {db, web}
    Library = {db, web}
    Clients = {sh}
    Mortal = {}
    KindOf <- Kinds
    Consumers = {}
    Recovery = 2
    OneAtATime = TRUE
    MaxTime = 3
    MaxRequests = 4
    Absent = Absent
    Null = Null
SPECIFICATION Spec
PROPERTIES OthersKept StartKept
CHECK_DEADLOCK FALSE
