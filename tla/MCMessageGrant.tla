--------------------------- MODULE MCMessageGrant ---------------------------
EXTENDS MessageGrant

\* A participant and the seat, both with inboxes.
MCRosters == {[a \in {"ann", "bot"} |-> "inbox"]}
=============================================================================
