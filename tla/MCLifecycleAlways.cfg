\* A pin in the middle of a sweep, or a recording that cannot be opened; one property at a time.
CONSTANTS
    user = user  sweeper = sweeper  ui = ui  cli = cli
    Teardowns = {user, sweeper}
    Sweeper = sweeper
    Creators = {ui}
    MaxGens = 1
    MaxChunks = 1
    MaxFails = 0
    CreateApart = TRUE
SPECIFICATION FairSpec
PROPERTIES PinnedAlways
\* PROPERTIES SweptAlways
CHECK_DEADLOCK FALSE
