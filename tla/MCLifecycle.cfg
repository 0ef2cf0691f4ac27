\* A person and the sweep tear down, and fail twice; creates keep apart.
CONSTANTS
    user = user  sweeper = sweeper  ui = ui  cli = cli
    Teardowns = {user, sweeper}
    Sweeper = sweeper
    Creators = {ui, cli}
    MaxGens = 3
    MaxChunks = 1
    MaxFails = 2
    CreateApart = TRUE
SPECIFICATION FairSpec
INVARIANT Retrievable
PROPERTIES PinnedKept Swept
CHECK_DEADLOCK FALSE
