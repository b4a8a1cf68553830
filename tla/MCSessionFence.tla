---------------------------- MODULE MCSessionFence ----------------------------
EXTENDS SessionFence

\* One delivery, over two attempts.
OneDelivery == 1..1
OneAgentOf == <<"worker">>
OneChannelOf == <<"room">>
OneReplyTo == <<{}>>
OneSelector == {{1}}
OneLaneOf == <<"lane">>
MCLaneAgent == [l \in {"lane"} |-> "worker"]

\* Two compatible generations of the agent's plugin.
TwoInstances == {"g1", "g2"}
TwoServes == [i \in TwoInstances |-> "worker"]
TwoCompatOf == [i \in TwoInstances |-> 0]
====
