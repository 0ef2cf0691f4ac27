\* A re-skin, and then go.d asks an exporter that has read the new name; or two requests at
\* once.  One property at a time.
CONSTANTS
    sim = sim  acme = acme  staging = staging  live = live
    r1 = r1  e1 = e1  e2 = e2
    Names = {sim, acme}
    Labels = {staging, live}
    Bare = Bare
    First <- Created
    Torn = Torn
    None = None
    Reskinners = {r1}
    Labellers = {e1}
    Sides = {"exporters"}
    MaxEdits = 2
    MaxEvents = 1
SPECIFICATION FairSpec
PROPERTIES ChartsKept
\* with MaxEvents = 0:
\* INVARIANT CopyInStep
CHECK_DEADLOCK FALSE
