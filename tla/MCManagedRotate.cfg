CONSTANTS
    Agents = {"worker"}
    Channels = {"room"}
    Deliveries <- TwoDeliveries
    AgentOf <- TwoAgentOf
    ChannelOf <- TwoChannelOf
    ReplyTo <- TwoReplyTo
    Selectors <- TwoSelector
    LeaseMs = {1}
    RetryMs = {0}
    MaxAttempts = 1
    MaxTime = 1
    Lanes = {"lane"}
    LaneOf <- TwoLaneOf
    LaneAgent <- MCLaneAgent
    Instances <- MCInstances
    Serves <- MCServes
    CompatOf <- SplitCompatOf
    MaxGeneration = 2
    MaxEpoch = 2
SPECIFICATION WorkerSpec
CHECK_DEADLOCK FALSE
INVARIANTS
    LaneRunsOneTurn
    WorkerLeavesInterruptedSession
PROPERTIES
    WorkersFollowSessionFence
