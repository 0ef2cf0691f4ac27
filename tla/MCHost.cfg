SPECIFICATION HostSpec
CONSTANTS
    MaxCreates = 2
    MaxTeardowns = 1
    Apart = TRUE
INVARIANT TeardownHonest
PROPERTIES NothingDestroyed Launched
