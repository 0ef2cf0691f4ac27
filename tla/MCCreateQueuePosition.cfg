\* Three creates with patient callers.
CONSTANTS
    c1 = c1  c2 = c2  c3 = c3  c4 = c4
    Creates = {c1, c2, c3}
    Impatient = {}
    MaxLive = 3
    MaxTeardowns = 0
    NoOne = NoOne
SPECIFICATION QueueSpec
INVARIANTS HonestPosition
CHECK_DEADLOCK FALSE
