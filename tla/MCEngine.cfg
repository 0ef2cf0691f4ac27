SPECIFICATION Spec
CONSTANTS
    Files <- MCFiles
    Profiles <- MCProfiles
    Faults <- MCFaults
    Rules <- MCRules
    Noise = {0, 25}
    Unit = 4
    Interval = 1
    MaxTicks = 2
INVARIANTS Composed Coherent LintQuiet
CHECK_DEADLOCK FALSE
