---------------------------- MODULE DeliveryFence ----------------------------
(***************************************************************************)
(* The durable inbox of an agent and the write-ahead fence around every    *)
(* dispatch of its work: the tables agent_deliveries, invocations and      *)
(* delivery_blocks (crates/kernel/src/delivery.rs,                         *)
(* crates/execution/src/{invocation,settlement}.rs).                       *)
(*                                                                         *)
(* Every store operation runs in one BEGIN IMMEDIATE transaction, so every *)
(* operation is one action; an operation that returns an error rolls back  *)
(* and is a stuttering step.  The time `now` of an operation is the wall   *)
(* clock, read BEFORE the transaction waits for the write lock: it may be  *)
(* older than what the transaction finds, and the clock may be set back.   *)
(* The model lets every operation have any time whatever.                  *)
(*                                                                         *)
(* Lease tokens and invocation ids are fresh UUIDs; lease_claimable adds   *)
(* one to `attempt` whenever it writes a token, and invocations are UNIQUE *)
(* per (message, agent, attempt).  So the attempt number stands for the    *)
(* token within a delivery, and <<d, a>> for the invocation and the block  *)
(* of attempt a.                                                           *)
(***************************************************************************)
EXTENDS Integers, FiniteSets

CONSTANTS
    Agents,
    Channels,
    Deliveries,   \* one per (message, recipient); a smaller number is an older message_seq
    AgentOf,      \* the agent whose inbox the delivery is in
    ChannelOf,    \* the channel of its message
    ReplyTo,      \* the deliveries its result message creates (to the sender's inbox)
    Selectors,    \* the sets of deliveries a caller's message kinds may accept
    LeaseMs,      \* lease durations a caller may ask for
    RetryMs,      \* retry delays a caller or an operator may ask for
    MaxAttempts,  \* bound: leases of one delivery
    MaxTime       \* bound: wall clock

ASSUME DeliveryAssumption ==
    /\ IsFiniteSet(Deliveries) /\ Deliveries \subseteq Nat
    /\ AgentOf \in [Deliveries -> Agents]
    /\ ChannelOf \in [Deliveries -> Channels]
    /\ ReplyTo \in [Deliveries -> SUBSET Deliveries]
    /\ \A d, e \in Deliveries : e \in ReplyTo[d] => e > d
    /\ \A d, e \in Deliveries : d # e => ReplyTo[d] \cap ReplyTo[e] = {}
    /\ Selectors \subseteq SUBSET Deliveries
    /\ LeaseMs \subseteq Nat \ {0}
    /\ RetryMs \subseteq Nat
    /\ MaxAttempts \in Nat \ {0}
    /\ MaxTime \in Nat

Attempts == 1..MaxAttempts
Times == 0..MaxTime

VARIABLES
    delivery,     \* agent_deliveries
    invocation,   \* invocations, per delivery and attempt
    block,        \* delivery_blocks, per delivery and attempt
    archived      \* the channels whose archived_at_ms is set

fenceVars == <<delivery, invocation, block, archived>>

-----------------------------------------------------------------------------
(* Rows.  settled/settlement are last_settled_lease_token/last_settlement   *)
(* (0 for NULL); armed is dispatch_armed_at_ms IS NOT NULL, which a row      *)
(* keeps when it becomes terminal; result is result_message_seq IS NOT NULL. *)
(* The lease expiry of a terminal invocation is never read again: it is 0.   *)

DeliveryRow ==
    [state : {"absent", "pending", "leased", "blocked", "acknowledged", "dead"},
     attempt : 0..MaxAttempts, available : Times, expires : Times,
     settled : 0..MaxAttempts,
     settlement : {"none", "acknowledged", "retry", "blocked"}]

InvocationRow ==
    [state : {"none", "reserved", "dispatch_armed", "terminal"},
     armed : BOOLEAN, expires : Times,
     certainty : {"none", "not_started", "outcome_known", "outcome_unknown"},
     result : BOOLEAN]

BlockState == {"none", "unresolved", "requeued", "abandoned"}

NoDelivery == [state |-> "absent", attempt |-> 0, available |-> 0,
               expires |-> 0, settled |-> 0, settlement |-> "none"]

NoInvocation == [state |-> "none", armed |-> FALSE, expires |-> 0,
                 certainty |-> "none", result |-> FALSE]

FenceInit ==
    /\ delivery = [d \in Deliveries |-> NoDelivery]
    /\ invocation = [d \in Deliveries |-> [a \in Attempts |-> NoInvocation]]
    /\ block = [d \in Deliveries |-> [a \in Attempts |-> "none"]]
    /\ archived = {}

-----------------------------------------------------------------------------
(* Row transitions. *)

\* LeasedRow: the one row a settlement may touch, on the live side of its lease.
HoldsLease(d, a, now) ==
    /\ delivery[d].state = "leased"
    /\ delivery[d].attempt = a
    /\ delivery[d].expires > now

\* validate_live_lease: the invocation and the delivery it was reserved with are
\* both on the live side of their leases.
LiveInvocation(d, a, now) == invocation[d][a].expires > now /\ HoldsLease(d, a, now)

Settled(row, state, settlement) ==
    [row EXCEPT !.state = state, !.expires = 0,
                !.settled = row.attempt, !.settlement = settlement]

Terminal(row, certainty) ==
    [row EXCEPT !.state = "terminal", !.certainty = certainty, !.expires = 0]

Leased(row, expires) ==
    [row EXCEPT !.state = "leased", !.attempt = @ + 1, !.expires = expires]

Reserved(expires) == [NoInvocation EXCEPT !.state = "reserved", !.expires = expires]

Inserted(at) == [NoDelivery EXCEPT !.state = "pending", !.available = at]

\* terminalize_invocation: a delivery claimed without a reservation has no row.
Terminalized(row, certainty) ==
    IF row.state \in {"reserved", "dispatch_armed"} THEN Terminal(row, certainty) ELSE row

-----------------------------------------------------------------------------
(* Recovery of expired invocations, for the agents of one transaction. *)

\* Mutant: recovery leaves out the instant a lease expires, leasing does not.
ExpiredStrictly(d, a, now) ==
    /\ delivery[d].state = "leased"
    /\ delivery[d].attempt = a
    /\ delivery[d].expires < now
    /\ invocation[d][a].expires < now

Expired(d, a, now) ==
    /\ delivery[d].state = "leased"
    /\ delivery[d].attempt = a
    /\ delivery[d].expires <= now
    /\ invocation[d][a].expires <= now

Parked(agents, now) ==
    {d \in Deliveries : /\ AgentOf[d] \in agents
                        /\ \E a \in Attempts : /\ Expired(d, a, now)
                                               /\ invocation[d][a].state = "dispatch_armed"}

RecoveredDelivery(agents, now) ==
    [d \in Deliveries |-> IF d \in Parked(agents, now)
                          THEN Settled(delivery[d], "blocked", "blocked")
                          ELSE delivery[d]]

RecoveredInvocation(agents, now) ==
    [d \in Deliveries |-> [a \in Attempts |->
        IF AgentOf[d] \in agents /\ Expired(d, a, now)
        THEN Terminalized(invocation[d][a],
                          IF invocation[d][a].state = "reserved"
                          THEN "not_started" ELSE "outcome_unknown")
        ELSE invocation[d][a]]]

\* Mutant: record_block is left out of recovery.
RecoveredWithoutBlock(agents, now) == block

RecoveredBlock(agents, now) ==
    [d \in Deliveries |-> [a \in Attempts |->
        IF d \in Parked(agents, now) /\ a = delivery[d].attempt
        THEN "unresolved" ELSE block[d][a]]]

-----------------------------------------------------------------------------
(* Leasing: recovery first, then the oldest claimable rows, at one `now`. *)

Claimable(row, now) ==
    /\ row.available <= now
    /\ \/ row.state = "pending"
       \/ row.state = "leased" /\ row.expires <= now

Oldest(S, limit) == {d \in S : Cardinality({e \in S : e < d}) < limit}

\* Mutant: the rows are chosen before recovery has parked the armed ones.
BatchBeforeRecovery(agent, accepted, limit, now) ==
    Oldest({d \in accepted : AgentOf[d] = agent /\ Claimable(delivery[d], now)}, limit)

\* accepted: the deliveries whose message kind the caller's selector names.
Batch(agent, accepted, limit, now) ==
    Oldest({d \in accepted : /\ AgentOf[d] = agent
                             /\ Claimable(RecoveredDelivery({agent}, now)[d], now)}, limit)

LeaseClaimable(agent, batch, expires, now) ==
    /\ expires <= MaxTime
    /\ \A d \in batch : delivery[d].attempt < MaxAttempts
    /\ delivery' = [d \in Deliveries |->
           IF d \in batch
           THEN Leased(delivery[d], expires)
           ELSE RecoveredDelivery({agent}, now)[d]]
    /\ block' = RecoveredBlock({agent}, now)

ClaimDeliveries(agent, limit, ms, now) ==
    /\ LeaseClaimable(agent, Batch(agent, Deliveries, limit, now), now + ms, now)
    /\ invocation' = RecoveredInvocation({agent}, now)
    /\ UNCHANGED archived

ReserveInvocations(agent, accepted, limit, ms, now) ==
    LET batch == Batch(agent, accepted, limit, now)
    IN  /\ LeaseClaimable(agent, batch, now + ms, now)
        /\ invocation' = [d \in Deliveries |-> [a \in Attempts |->
               IF d \in batch /\ a = delivery[d].attempt + 1
               THEN Reserved(now + ms)
               ELSE RecoveredInvocation({agent}, now)[d][a]]]
        /\ UNCHANGED archived

RecoverAllExpiredInvocations(agents, now) ==
    /\ delivery' = RecoveredDelivery(agents, now)
    /\ invocation' = RecoveredInvocation(agents, now)
    /\ block' = RecoveredBlock(agents, now)
    /\ UNCHANGED archived

-----------------------------------------------------------------------------
(* The dispatch fence and the settlements. *)

ArmInvocation(d, a, now) ==
    /\ invocation[d][a].state = "reserved"
    /\ LiveInvocation(d, a, now)
    /\ invocation' = [invocation EXCEPT ![d][a].state = "dispatch_armed", ![d][a].armed = TRUE]
    /\ UNCHANGED <<delivery, block, archived>>

\* Mutant: the result is published and the input delivery is left leased.
CompleteWithoutAcknowledging(d, a, at, now) ==
    /\ invocation[d][a].state = "dispatch_armed"
    /\ LiveInvocation(d, a, now)
    /\ ChannelOf[d] \notin archived
    /\ delivery' = [e \in Deliveries |-> IF e \in ReplyTo[d] THEN Inserted(at) ELSE delivery[e]]
    /\ invocation' = [invocation EXCEPT
           ![d][a] = [Terminal(@, "outcome_known") EXCEPT !.result = TRUE]]
    /\ UNCHANGED <<block, archived>>

\* The result message is inserted, with its delivery to the input's sender, in the
\* same transaction; insert_message fails in an archived channel and reads the
\* clock again (at).
CompleteInvocation(d, a, at, now) ==
    /\ invocation[d][a].state = "dispatch_armed"
    /\ LiveInvocation(d, a, now)
    /\ ChannelOf[d] \notin archived
    /\ delivery' = [e \in Deliveries |->
           IF e = d THEN Settled(delivery[d], "acknowledged", "acknowledged")
           ELSE IF e \in ReplyTo[d] THEN Inserted(at) ELSE delivery[e]]
    /\ invocation' = [invocation EXCEPT
           ![d][a] = [Terminal(@, "outcome_known") EXCEPT !.result = TRUE]]
    /\ UNCHANGED <<block, archived>>

AcknowledgeDelivery(d, a, now) ==
    /\ HoldsLease(d, a, now)
    /\ delivery' = [delivery EXCEPT ![d] = Settled(@, "acknowledged", "acknowledged")]
    /\ invocation' = [invocation EXCEPT ![d][a] = Terminalized(@, "outcome_known")]
    /\ UNCHANGED <<block, archived>>

\* ensure_retry_is_safe: an armed dispatch may not be tried again.
RetryIsSafe(d, a) == invocation[d][a].state # "dispatch_armed"

\* Mutant: terminalize_invocation is left out.
RetryKeepingInvocation(d, a, after, now) ==
    /\ RetryIsSafe(d, a)
    /\ HoldsLease(d, a, now)
    /\ now + after <= MaxTime
    /\ delivery' = [delivery EXCEPT
           ![d] = [Settled(@, "pending", "retry") EXCEPT !.available = now + after]]
    /\ UNCHANGED <<invocation, block, archived>>

RetryDelivery(d, a, after, now) ==
    /\ RetryIsSafe(d, a)
    /\ HoldsLease(d, a, now)
    /\ now + after <= MaxTime
    /\ delivery' = [delivery EXCEPT
           ![d] = [Settled(@, "pending", "retry") EXCEPT !.available = now + after]]
    /\ invocation' = [invocation EXCEPT ![d][a] = Terminalized(@, "not_started")]
    /\ UNCHANGED <<block, archived>>

BlockDelivery(d, a, now) ==
    /\ HoldsLease(d, a, now)
    /\ delivery' = [delivery EXCEPT ![d] = Settled(@, "blocked", "blocked")]
    /\ block' = [block EXCEPT ![d][a] = "unresolved"]
    /\ invocation' = [invocation EXCEPT ![d][a] = Terminalized(@, "outcome_unknown")]
    /\ UNCHANGED archived

\* A decision on a resolved block is either an identical replay or a conflict.
Resolvable(d, a) == block[d][a] = "unresolved" /\ delivery[d].state = "blocked"

RequeueBlock(d, a, after, now) ==
    /\ Resolvable(d, a)
    /\ now + after <= MaxTime
    /\ delivery' = [delivery EXCEPT ![d].state = "pending", ![d].available = now + after,
                                    ![d].settled = 0, ![d].settlement = "none"]
    /\ block' = [block EXCEPT ![d][a] = "requeued"]
    /\ UNCHANGED <<invocation, archived>>

AbandonBlock(d, a) ==
    /\ Resolvable(d, a)
    /\ delivery' = [delivery EXCEPT ![d].state = "dead",
                                    ![d].settled = 0, ![d].settlement = "none"]
    /\ block' = [block EXCEPT ![d][a] = "abandoned"]
    /\ UNCHANGED <<invocation, archived>>

-----------------------------------------------------------------------------
(* What the message log does to this component. *)

InsertDelivery(d, at) ==
    /\ \A e \in Deliveries : d \notin ReplyTo[e]
    /\ delivery[d].state = "absent"
    /\ \A e \in Deliveries : e < d /\ AgentOf[e] = AgentOf[d] => delivery[e].state # "absent"
    /\ ChannelOf[d] \notin archived
    /\ delivery' = [delivery EXCEPT ![d] = Inserted(at)]
    /\ UNCHANGED <<invocation, block, archived>>

ArchiveChannel(c) ==
    /\ archived' = archived \cup {c}
    /\ UNCHANGED <<delivery, invocation, block>>

-----------------------------------------------------------------------------
FenceNext ==
    \/ \E now \in Times, agent \in Agents, limit \in 1..Cardinality(Deliveries), ms \in LeaseMs :
          \/ ClaimDeliveries(agent, limit, ms, now)
          \/ \E accepted \in Selectors :
                ReserveInvocations(agent, accepted, limit, ms, now)
    \/ \E now \in Times, agents \in (SUBSET Agents) \ {{}} : RecoverAllExpiredInvocations(agents, now)
    \/ \E d \in Deliveries, a \in Attempts, now \in Times :
          \/ ArmInvocation(d, a, now)
          \/ \E at \in Times : CompleteInvocation(d, a, at, now)
          \/ AcknowledgeDelivery(d, a, now)
          \/ BlockDelivery(d, a, now)
          \/ \E after \in RetryMs : \/ RetryDelivery(d, a, after, now)
                                    \/ RequeueBlock(d, a, after, now)
    \/ \E d \in Deliveries, a \in Attempts : AbandonBlock(d, a)
    \/ \E d \in Deliveries, at \in Times : InsertDelivery(d, at)
    \/ \E c \in Channels : ArchiveChannel(c)

FenceSpec == FenceInit /\ [][FenceNext]_fenceVars

-----------------------------------------------------------------------------
(* Properties. *)

\* Every row of the three tables keeps the columns its schema allows; a delivery
\* has a lease exactly while it is leased (the CHECKs of 0005_blocked_deliveries).
FenceTypeOK ==
    /\ delivery \in [Deliveries -> DeliveryRow]
    /\ \A d \in Deliveries : delivery[d].state = "leased" <=> delivery[d].expires # 0
    /\ invocation \in [Deliveries -> [Attempts -> InvocationRow]]
    /\ block \in [Deliveries -> [Attempts -> BlockState]]
    /\ archived \subseteq Channels

\* A reservation or an armed dispatch owns the current lease of its delivery and
\* expires with it.  So an invocation that is not terminal can always be settled
\* or recovered, and a delivery has at most one (reserve_row, lease_claimable).
LiveInvocationOwnsLease ==
    \A d \in Deliveries, a \in Attempts :
        invocation[d][a].state \in {"reserved", "dispatch_armed"} =>
            /\ delivery[d].state = "leased"
            /\ delivery[d].attempt = a
            /\ delivery[d].expires = invocation[d][a].expires

\* The promise of the write-ahead fence: once attempt a of a delivery was armed,
\* a later attempt exists only because an operator requeued attempt a's block.
\* No expiry, crash, retry or late call dispatches the work a second time
\* (claim_deliveries: "a delivery whose armed turn outcome is unknown is never
\* handed out again").
NoBlindRedispatch ==
    \A d \in Deliveries, a \in Attempts :
        invocation[d][a].armed /\ delivery[d].attempt > a => block[d][a] = "requeued"

\* An armed invocation is never recorded as not started: the certainty that lets
\* work be repeated is only claimed for work that was not dispatched.
ArmedIsNeverNotStarted ==
    \A d \in Deliveries, a \in Attempts :
        invocation[d][a].armed => invocation[d][a].certainty # "not_started"

\* A parked delivery has exactly one unresolved block, that of its last attempt,
\* and a delivery that is not parked has none: the operator's list is exact, and
\* the block named in a resolution is the current one.
BlockedHasOneOpenBlock ==
    \A d \in Deliveries, a \in Attempts :
        block[d][a] = "unresolved" <=> delivery[d].state = "blocked" /\ delivery[d].attempt = a

\* A result is published at most once for a delivery, over all its attempts, and
\* only together with the acknowledgement of the delivery
\* (complete_invocation: "Atomically publishes the invocation result and
\* acknowledges its input delivery").
OneResultPerDelivery ==
    \A d \in Deliveries, a \in Attempts :
        invocation[d][a].result =>
            /\ delivery[d].state = "acknowledged"
            /\ delivery[d].attempt = a
            /\ invocation[d][a].armed
            /\ \A b \in Attempts : invocation[d][b].result => b = a

\* A settled delivery is final: no late settlement, recovery, resolution or lease
\* moves a row out of acknowledged or dead.
SettledIsFinal ==
    [][\A d \in Deliveries :
          delivery[d].state \in {"acknowledged", "dead"} => delivery'[d].state = delivery[d].state]_fenceVars

\* A replay of a committed acknowledgement is answered with success for ever:
\* the evidence settle_miss compares is never overwritten.
AcknowledgementReplayStable ==
    [][\A d \in Deliveries :
          delivery[d].settlement = "acknowledged" =>
              delivery'[d].settlement = "acknowledged" /\ delivery'[d].settled = delivery[d].settled]_fenceVars

\* Only an operator's decision ends a block: a delivery leaves blocked exactly
\* when the block of its last attempt is resolved in the same transaction.
OnlyOperatorUnblocks ==
    [][\A d \in Deliveries :
          delivery[d].state = "blocked" /\ delivery'[d].state # "blocked" =>
              LET a == delivery[d].attempt
              IN  \/ delivery'[d].state = "pending" /\ block'[d][a] = "requeued"
                  \/ delivery'[d].state = "dead" /\ block'[d][a] = "abandoned"]_fenceVars

-----------------------------------------------------------------------------
(* The promise the three tables implement.  A delivery is dispatched while   *)
(* its current attempt is armed; its dispatches are the rows with            *)
(* dispatch_armed_at_ms, its decisions the blocks that were requeued.        *)

PhaseOf(d) ==
    LET state == delivery[d].state
    IN  IF state = "absent" THEN "absent"
        ELSE IF state = "pending" THEN "waiting"
        ELSE IF state = "blocked" THEN "parked"
        ELSE IF state = "acknowledged" THEN "done"
        ELSE IF state = "dead" THEN "abandoned"
        ELSE IF invocation[d][delivery[d].attempt].state = "dispatch_armed"
        THEN "dispatched" ELSE "held"

Promise == INSTANCE WorkPromise WITH
    Work <- Deliveries,
    phase <- [d \in Deliveries |-> PhaseOf(d)],
    dispatches <- [d \in Deliveries |-> Cardinality({a \in Attempts : invocation[d][a].armed})],
    decisions <- [d \in Deliveries |-> Cardinality({a \in Attempts : block[d][a] = "requeued"})]

\* Every step of the store is a step of the promise: work that was dispatched
\* reaches another holder only through an operator's decision.
ImplementsPromise == Promise!Spec
====
