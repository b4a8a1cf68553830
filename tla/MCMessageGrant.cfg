CONSTANTS
    Agents = {"ann", "bot"}
    Writers = {"ann"}
    Readers = {}
    Channels = {"room"}
    Triggers = {}
    Senders = {}
    Occurrences = {}
    Contents = {"ask"}
    ClientKeys = {}
    Rosters <- MCRosters
    MaxMessages = 4
    Seat = "bot"
    Callers = {1, 2}
    Operations = {"p", "q"}
    MaxPublished = 1
    MaxAttempts = 2
SPECIFICATION Spec
CHECK_DEADLOCK FALSE
INVARIANTS
    PublishBudget
    PublishedBeforeResult
    RetriesAreAnswered
