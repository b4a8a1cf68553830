---------------------------- MODULE MCManagedTurn ----------------------------
EXTENDS ManagedTurn

\* One message, over two attempts, whose result goes to its author.
OneDelivery == 1..2
OneAgentOf == <<"worker", "author">>
OneChannelOf == <<"room", "room">>
OneReplyTo == <<{2}, {}>>
OneSelector == {{1}}
OneLaneOf == <<"lane", "reply">>
OneLaneAgent == [l \in {"lane", "reply"} |-> IF l = "lane" THEN "worker" ELSE "author"]

\* Two messages of one conversation: the second may interrupt the first.
TwoDeliveries == 1..2
TwoAgentOf == <<"worker", "worker">>
TwoChannelOf == <<"room", "room">>
TwoReplyTo == <<{}, {}>>
TwoSelector == {{1, 2}}
TwoLaneOf == <<"lane", "lane">>

MCLaneAgent == [l \in {"lane"} |-> "worker"]
MCInstances == {"g1", "g2"}
MCServes == [i \in MCInstances |-> "worker"]
MCCompatOf == [i \in MCInstances |-> 0]
SplitCompatOf == [i \in MCInstances |-> IF i = "g1" THEN 0 ELSE 1]
====
