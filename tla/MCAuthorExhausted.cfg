SPECIFICATION Spec
CONSTANTS
    Runner = "runner"
    Requester = "rob"
    Coordinator = "cho"
    Authors <- MCAuthors
    Reviewers <- MCReviewers
    Workflow = "w"
    ByteSum <- MCByteSum
    Contents = {"x"}
    MaxChildren = 2
    Setups <- MCBothExhausted
CHECK_DEADLOCK FALSE
INVARIANTS
    ExhaustedReviewBlocksChild
