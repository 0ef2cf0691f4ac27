SPECIFICATION Spec
CONSTANTS
    Roles <- MCRoles
    Collectors <- MCCollectors
    Reserved = {"simulated", "latitude", "infra_sim_role", "infra_sim_env"}
    Unfit <- MCUnfit
    MaxTier = 9
    Devices = {"catalyst"}
    Names = {"acme"}
    Texts <- MCTexts
    Replies <- MCReplies
    Targets = {0, 2, 7}
    Rows <- MCRows
    Places = {0, 1}
    Earth = {1, 2}
    Apart = TRUE
    MaxSteps = 2
    MaxWrites = 2
INVARIANTS Offered AsAsked OneIdentity
PROPERTY IdentityKept
CHECK_DEADLOCK FALSE
