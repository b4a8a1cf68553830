CONSTANTS
    Agents = {"ann", "bob", "cat"}
    Channels = {c1, c2}
    Writers = {"ann"}
    Readers = {"ann"}
    Triggers = {"nightly"}
    Senders = {"bob"}
    Occurrences = {"monday", "tuesday"}
    Contents = {"ask"}
    ClientKeys = {"k"}
    Rosters <- MCRosters
    MaxMessages = 2
SPECIFICATION LogSpec
SYMMETRY SameChannels
CHECK_DEADLOCK FALSE
INVARIANTS
    CommittedAppendReplays
    MembershipExplainsDeliveries
    TriggerWorkIsAccountedFor
