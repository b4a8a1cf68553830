SPECIFICATION LiveSpec
CONSTANTS
    Runner = "runner"
    Requester = "rob"
    Coordinator = "cho"
    Authors <- MCAuthors
    Reviewers <- MCReviewers
    Workflow = "w"
    ByteSum <- MCByteSum
    Contents = {"x"}
    MaxChildren = 2
    Setups <- MCSetups
CHECK_DEADLOCK FALSE
INVARIANTS
    ParentCompletesWhenEveryChildIsApproved
    EachLogicalEffectIsPublishedOnce
    VerdictsAreFinal
    ReplaysNeverDiverge
PROPERTIES
    WorkflowEnds
