CONSTANTS
    Agents = {"worker"}
    Channels = {"room"}
    Deliveries <- OneDelivery
    AgentOf <- OneAgentOf
    ChannelOf <- OneChannelOf
    ReplyTo <- OneReplyTo
    Selectors <- OneSelector
    LeaseMs = {1}
    RetryMs = {0}
    MaxAttempts = 2
    MaxTime = 2
    Lanes = {"lane"}
    LaneOf <- OneLaneOf
    LaneAgent <- MCLaneAgent
    Instances <- TwoInstances
    Serves <- TwoServes
    CompatOf <- TwoCompatOf
    MaxGeneration = 2
    MaxEpoch = 2
SPECIFICATION Spec
CHECK_DEADLOCK FALSE
INVARIANTS
    RecoveryNeverConflicts
