---------------------------- MODULE MCMessageLog ----------------------------
EXTENDS MessageLog, TLC

\* An inbox and a stream reader; a third agent only ever joins later.
MCRosters == {[a \in {"ann", "bob"} |-> IF a = "ann" THEN "inbox" ELSE "stream_only"]}

\* Channel identities are interchangeable.
SameChannels == Permutations(Channels)
=============================================================================
