CONSTANTS
    Agents = {"worker", "author"}
    Channels = {"room"}
    Deliveries <- OneDelivery
    AgentOf <- OneAgentOf
    ChannelOf <- OneChannelOf
    ReplyTo <- OneReplyTo
    Selectors <- OneSelector
    LeaseMs = {1}
    RetryMs = {0}
    MaxAttempts = 2
    MaxTime = 2
    Lanes = {"lane", "reply"}
    LaneOf <- OneLaneOf
    LaneAgent <- OneLaneAgent
    Instances <- MCInstances
    Serves <- MCServes
    CompatOf <- MCCompatOf
    MaxGeneration = 2
    MaxEpoch = 2
SPECIFICATION LiveSpec
CHECK_DEADLOCK FALSE
INVARIANTS
    PromptsArePaidFor
    RunningTurnOwnsLane
    OneResultPerDelivery
    RecoveryNeverConflicts
PROPERTIES
    ImplementsPromise
    EveryArmedDispatchSettles
