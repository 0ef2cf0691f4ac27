\* A re-skin and label edits, failed writes, ends, restarts of the container, telemetry commands.
CONSTANTS
    sim = sim  acme = acme  staging = staging  live = live
    r1 = r1  e1 = e1  e2 = e2
    Names = {sim, acme}
    Labels = {staging, live}
    Bare = Bare
    First <- Created
    Torn = Torn
    None = None
    Reskinners = {r1}
    Labellers = {e1}
    Sides = {"exporters"}
    MaxEdits = 2
    MaxEvents = 2
SPECIFICATION FairSpec
PROPERTIES Follows LabelsReturn ChartsReturn
CHECK_DEADLOCK FALSE
