\* What the code's comments say without the exceptions of the properties; one at a time.
SPECIFICATION HostSpec
CONSTANTS
    MaxCreates = 2
    MaxTeardowns = 1
    Apart = TRUE
INVARIANT CleanAlways
\* INVARIANT OperatorsKeptAlways
\* INVARIANT NothingLeft
