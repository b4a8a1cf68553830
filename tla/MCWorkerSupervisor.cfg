SPECIFICATION LiveSpec
CONSTANTS
    AgentOrder <- MCAgents
    Supervisors = {"s1", "s2"}
    ProfileIds = {"local", "remote", "gone"}
    Catalogs <- MCCatalogs
    MaxProfiles = 2
    MaxBackends = 1
    Budgets <- MCBudgets
CHECK_DEADLOCK FALSE
INVARIANTS
    OneWorkerPerAgent
    SeatsStopBeforeTheirBackend
PROPERTIES
    SeatsConverge
