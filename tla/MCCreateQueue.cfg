\* Three creates for two places; two of the callers may hang up.
CONSTANTS
    c1 = c1  c2 = c2  c3 = c3  c4 = c4
    Creates = {c1, c2, c3}
    Impatient = {c1, c2}
    MaxLive = 2
    MaxTeardowns = 1
    NoOne = NoOne
SPECIFICATION FairQueueSpec
INVARIANTS Serialized WithinBudget
PROPERTY Answered
CHECK_DEADLOCK FALSE
