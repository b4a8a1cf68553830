---------------------------- MODULE SessionFence ----------------------------
(***************************************************************************)
(* Durable native-session lanes composed with the delivery fence: the      *)
(* tables session_bindings, session_binding_turns and plugin_generations   *)
(* (crates/execution/src/session_binding.rs, operations.rs), and what they *)
(* add to every operation of DeliveryFence.                                *)
(*                                                                         *)
(* A lane is (agent, lane_policy, lane_key).  Its binding id is stable; its *)
(* rows are numbered by generation.  A caller presents the generation and  *)
(* the owner epoch it was given.  A generation's native session reference  *)
(* is written once, when it becomes ready; the model does not tell         *)
(* references of one generation apart.                                     *)
(***************************************************************************)
EXTENDS DeliveryFence

CONSTANTS
    Lanes,
    LaneOf,         \* the lane an adapter prepares for the delivery
    LaneAgent,      \* the agent of a lane
    Instances,      \* plugin generations, each the owner_instance_id of its controller
    Serves,         \* the agent an instance works for
    CompatOf,       \* its profile and compatibility digests and directories
    MaxGeneration,  \* bound: binding generations of one lane
    MaxEpoch        \* bound: owner epochs of one generation

ASSUME SessionAssumption ==
    /\ LaneOf \in [Deliveries -> Lanes]
    /\ LaneAgent \in [Lanes -> Agents]
    /\ \A d \in Deliveries : LaneAgent[LaneOf[d]] = AgentOf[d]
    /\ Serves \in [Instances -> Agents]
    /\ CompatOf \in [Instances -> Nat]
    /\ MaxGeneration \in Nat \ {0}
    /\ MaxEpoch \in Nat \ {0}

VARIABLES
    binding,      \* session_bindings, per lane and generation
    turn,         \* session_binding_turns, per delivery and attempt
    generation    \* plugin_generations.state

sessionVars == <<binding, turn, generation>>
vars == <<delivery, invocation, block, archived, binding, turn, generation>>

Generations == 1..MaxGeneration
Epochs == 1..MaxEpoch
NoOwner == "no owner"
NoTurn == <<0, 0>>

Init ==
    /\ FenceInit
    /\ binding = [l \in Lanes |-> [g \in Generations |->
           [state |-> "none", epoch |-> 0, owner |-> NoOwner, active |-> NoTurn,
            reason |-> "none"]]]
    /\ turn = [d \in Deliveries |-> [a \in Attempts |->
           [state |-> "none", generation |-> 0, epoch |-> 0]]]
    /\ generation = [i \in Instances |-> "none"]

-----------------------------------------------------------------------------
(* Plugin generations. *)

RecordPluginGeneration(i) ==
    /\ generation[i] = "none"
    /\ generation' = [generation EXCEPT ![i] = "active"]
    /\ UNCHANGED <<fenceVars, binding, turn>>

StopPluginGeneration(i) ==
    /\ generation[i] = "active"
    /\ generation' = [generation EXCEPT ![i] = "stopped"]
    /\ UNCHANGED <<fenceVars, binding, turn>>

-----------------------------------------------------------------------------
(* Acquiring a lane. *)

Current(l) == {g \in Generations : binding[l][g].state \notin {"none", "retired"}}

\* insert_binding: the generation after the latest, at owner epoch 1.
Opening(i) == [state |-> "opening", epoch |-> 1, owner |-> i, active |-> NoTurn,
               reason |-> "none"]

\* retired_reason tells a rotation, a caller's own reason and a decision on a block
\* apart.
Retired(row, reason) ==
    [row EXCEPT !.state = "retired", !.active = NoTurn, !.reason = reason]

InsertAfterLatestRetired(i, l, g) ==
    /\ Current(l) = {}
    /\ binding[l][g].state = "none"
    /\ \A h \in Generations : h < g => binding[l][h].state = "retired"
    /\ binding' = [binding EXCEPT ![l][g] = Opening(i)]

\* Mutant: rotation takes over a generation that runs a turn.
RotateBusy(i, l, g) ==
    /\ g \in Current(l)
    /\ binding[l][g].owner # i
    /\ \/ binding[l][g].state = "opening"
       \/ /\ binding[l][g].state \in {"ready", "active"}
          /\ CompatOf[binding[l][g].owner] # CompatOf[i]
    /\ g < MaxGeneration
    /\ binding' = [binding EXCEPT ![l][g] = Retired(@, "rotated"),
                                  ![l][g + 1] = Opening(i)]

RotateBinding(i, l, g) ==
    /\ g \in Current(l)
    /\ binding[l][g].owner # i
    /\ \/ binding[l][g].state = "opening"
       \/ /\ binding[l][g].state = "ready"
          /\ CompatOf[binding[l][g].owner] # CompatOf[i]
    /\ g < MaxGeneration
    /\ binding' = [binding EXCEPT ![l][g] = Retired(@, "rotated"),
                                  ![l][g + 1] = Opening(i)]

\* Mutant: a new owner takes an uncertain session as a ready one.
AdoptUncertain(i, l, g) ==
    /\ g \in Current(l)
    /\ binding[l][g].owner # i
    /\ binding[l][g].state \in {"ready", "uncertain"}
    /\ CompatOf[binding[l][g].owner] = CompatOf[i]
    /\ binding[l][g].epoch < MaxEpoch
    /\ binding' = [binding EXCEPT ![l][g].owner = i, ![l][g].epoch = @ + 1,
                                  ![l][g].state = "ready", ![l][g].active = NoTurn]

AdoptBinding(i, l, g) ==
    /\ g \in Current(l)
    /\ binding[l][g].owner # i
    /\ binding[l][g].state = "ready"
    /\ CompatOf[binding[l][g].owner] = CompatOf[i]
    /\ binding[l][g].epoch < MaxEpoch
    /\ binding' = [binding EXCEPT ![l][g].owner = i, ![l][g].epoch = @ + 1]

\* A lane one already owns is returned as it is; active and uncertain lanes of
\* another owner are refused.
AcquireExisting(i, l, g) == RotateBinding(i, l, g) \/ AdoptBinding(i, l, g)

AcquireSessionBinding(i, l, g) ==
    /\ Serves[i] = LaneAgent[l]
    /\ InsertAfterLatestRetired(i, l, g) \/ AcquireExisting(i, l, g)
    /\ UNCHANGED <<fenceVars, turn, generation>>

-----------------------------------------------------------------------------
(* Operations under the owner fence <<g, e>> of a lane. *)

OwnerFence(l, g, e) == binding[l][g].state # "none" /\ binding[l][g].epoch = e

RecordSessionOpened(l, g, e) ==
    /\ OwnerFence(l, g, e)
    /\ binding[l][g].state = "opening"
    /\ binding' = [binding EXCEPT ![l][g].state = "ready"]
    /\ UNCHANGED <<fenceVars, turn, generation>>

ActivateBindingTurn(d, a, g, e) ==
    /\ turn[d][a].state = "none"
    /\ turn' = [turn EXCEPT ![d][a] = [state |-> "active", generation |-> g, epoch |-> e]]
    /\ binding' = [binding EXCEPT ![LaneOf[d]][g].state = "active",
                                  ![LaneOf[d]][g].active = <<d, a>>]

\* An invocation armed without a session is accepted, one with an observation
\* row (every earlier turn has one) is refused by its uniqueness.
ArmSessionInvocation(d, a, i, g, e, now) ==
    /\ OwnerFence(LaneOf[d], g, e)
    /\ binding[LaneOf[d]][g].state = "ready"
    /\ \/ ArmInvocation(d, a, now)
       \/ /\ invocation[d][a].state = "dispatch_armed"
          /\ LiveInvocation(d, a, now)
          /\ UNCHANGED fenceVars
    /\ ActivateBindingTurn(d, a, g, e)
    /\ generation[i] = "active" /\ Serves[i] = AgentOf[d]
    /\ UNCHANGED generation

\* validate_bound_turn, for a turn that is not quiescent.
BoundTurn(d, a, g, e) ==
    /\ turn[d][a].generation = g /\ turn[d][a].epoch = e
    /\ OwnerFence(LaneOf[d], g, e)
    /\ binding[LaneOf[d]][g].state \in {"active", "uncertain"}
    /\ binding[LaneOf[d]][g].active = <<d, a>>

\* Mutant: completion returns the lane to ready and keeps its active turn.
CompleteKeepingActive(d, a, g, e, at, now) ==
    /\ BoundTurn(d, a, g, e)
    /\ CompleteInvocation(d, a, at, now)
    /\ turn[d][a].state = "active"
    /\ turn' = [turn EXCEPT ![d][a].state = "quiescent"]
    /\ binding' = [binding EXCEPT ![LaneOf[d]][g].state = "ready"]
    /\ UNCHANGED generation

SettleQuiescentTurn(d, a, g) ==
    LET l == LaneOf[d]
    IN  /\ turn[d][a].state = "active"
        /\ binding[l][g].state = "active"
        /\ turn' = [turn EXCEPT ![d][a].state = "quiescent"]
        /\ binding' = [binding EXCEPT ![l][g].state = "ready", ![l][g].active = NoTurn]

CompleteSessionInvocation(d, a, g, e, at, now) ==
    /\ BoundTurn(d, a, g, e)
    /\ CompleteInvocation(d, a, at, now)
    /\ SettleQuiescentTurn(d, a, g)
    /\ UNCHANGED generation

\* Mutant: only the turn is fenced, not its binding.
MarkOnlyTurnUncertain(d, a, g, e) ==
    /\ BoundTurn(d, a, g, e)
    /\ turn[d][a].state = "active"
    /\ turn' = [turn EXCEPT ![d][a].state = "uncertain"]
    /\ UNCHANGED <<fenceVars, binding, generation>>

MarkTurnUncertain(d, a, g) ==
    /\ turn[d][a].state = "active"
    /\ turn' = [turn EXCEPT ![d][a].state = "uncertain"]
    /\ binding' = [binding EXCEPT ![LaneOf[d]][g].state = "uncertain"]

\* Fences the session before its delivery is parked.  It does not look at the
\* lease, and repeating it with the same reason changes nothing.
MarkSessionInvocationUncertain(d, a, g, e) ==
    /\ BoundTurn(d, a, g, e)
    /\ binding[LaneOf[d]][g].state = "active"
    /\ MarkTurnUncertain(d, a, g)
    /\ UNCHANGED <<fenceVars, generation>>

\* Explicit retirement: of an opening, a ready or an uncertain generation.  The turn
\* and the invocation of an uncertain one stay as they are.
RetireSessionBinding(l, g, e) ==
    /\ OwnerFence(l, g, e)
    /\ binding[l][g].state \notin {"active", "retired"}
    /\ binding' = [binding EXCEPT ![l][g] = Retired(@, "explicit")]
    /\ UNCHANGED <<fenceVars, turn, generation>>

-----------------------------------------------------------------------------
(* What the lanes add to the operations of DeliveryFence. *)

\* mark_expired_session_turn_uncertain: the turn of an expired armed attempt is
\* left alone (none, or already fenced), fenced now, or a conflict that aborts
\* the whole recovery transaction.
TurnRecoverable(d, a) ==
    LET t == turn[d][a]
        b == binding[LaneOf[d]][t.generation]
    IN  t.state # "none" =>
            /\ b.active = <<d, a>>
            /\ \/ t.state = "uncertain" /\ b.state = "uncertain"
               \/ t.state = "active" /\ b.state = "active" /\ b.epoch = t.epoch

\* Mutant: recovery refuses a turn that was fenced before its delivery was parked.
RecoverOnlyActiveTurns(agents, now) ==
    LET parked == Parked(agents, now)
    IN  /\ \A d \in parked : turn[d][delivery[d].attempt].state \in {"none", "active"}
        /\ turn' = [d \in Deliveries |-> [a \in Attempts |->
               IF d \in parked /\ a = delivery[d].attempt /\ turn[d][a].state = "active"
               THEN [turn[d][a] EXCEPT !.state = "uncertain"] ELSE turn[d][a]]]
        /\ binding' = [l \in Lanes |-> [g \in Generations |->
               IF binding[l][g].active[1] \in parked
               THEN [binding[l][g] EXCEPT !.state = "uncertain"] ELSE binding[l][g]]]
        /\ UNCHANGED generation

RecoverTurns(agents, now) ==
    LET parked == Parked(agents, now)
        Recovered(d, a) == d \in parked /\ a = delivery[d].attempt /\ turn[d][a].state = "active"
    IN  /\ \A d \in parked : TurnRecoverable(d, delivery[d].attempt)
        /\ turn' = [d \in Deliveries |-> [a \in Attempts |->
               IF Recovered(d, a) THEN [turn[d][a] EXCEPT !.state = "uncertain"] ELSE turn[d][a]]]
        /\ binding' = [l \in Lanes |-> [g \in Generations |->
               IF \E d \in parked : /\ LaneOf[d] = l
                                    /\ Recovered(d, delivery[d].attempt)
                                    /\ turn[d][delivery[d].attempt].generation = g
               THEN [binding[l][g] EXCEPT !.state = "uncertain"] ELSE binding[l][g]]]
        /\ UNCHANGED generation

Claim(agent, limit, ms, now) ==
    ClaimDeliveries(agent, limit, ms, now) /\ RecoverTurns({agent}, now)

Reserve(agent, accepted, limit, ms, now) ==
    ReserveInvocations(agent, accepted, limit, ms, now) /\ RecoverTurns({agent}, now)

RecoverAll(agents, now) ==
    RecoverAllExpiredInvocations(agents, now) /\ RecoverTurns(agents, now)

\* Generic completion: ensure_invocation_not_active_on_session.
Complete(d, a, at, now) ==
    /\ turn[d][a].state \notin {"active", "uncertain"}
    /\ CompleteInvocation(d, a, at, now)
    /\ UNCHANGED sessionVars

\* ensure_bound_turn_allows_delivery_settlement: only a block may settle a live
\* invocation on a session, and only once the session is fenced uncertain.
TurnAllows(d, a, states) ==
    invocation[d][a].state \in {"reserved", "dispatch_armed"} => turn[d][a].state \in states

Acknowledge(d, a, now) ==
    /\ TurnAllows(d, a, {"none", "quiescent"})
    /\ AcknowledgeDelivery(d, a, now)
    /\ UNCHANGED sessionVars

Retry(d, a, after, now) ==
    /\ TurnAllows(d, a, {"none", "quiescent"})
    /\ RetryDelivery(d, a, after, now)
    /\ UNCHANGED sessionVars

\* Mutant: a block may settle a turn whose session was not fenced.
BlockUnfenced(d, a, now) == BlockDelivery(d, a, now) /\ UNCHANGED sessionVars

Block(d, a, now) ==
    /\ TurnAllows(d, a, {"none", "quiescent", "uncertain"})
    /\ BlockDelivery(d, a, now)
    /\ UNCHANGED sessionVars

\* retire_uncertain_session_for_delivery_block: an unbound attempt has no session
\* to retire; a bound one must identify the lane's uncertain generation.
SessionRecoverable(d, a) ==
    LET t == turn[d][a]
        b == binding[LaneOf[d]][t.generation]
    IN  t.state # "none" =>
            /\ invocation[d][a].state = "terminal"
            /\ invocation[d][a].certainty = "outcome_unknown"
            /\ t.state = "uncertain"
            /\ b.state = "uncertain"
            /\ b.active = <<d, a>>

\* Mutant: the decision returns the session to its lane.
ReturnToReady(d, a) ==
    /\ SessionRecoverable(d, a)
    /\ binding' = IF turn[d][a].state = "none" THEN binding
                  ELSE [binding EXCEPT ![LaneOf[d]][turn[d][a].generation].state = "ready",
                                       ![LaneOf[d]][turn[d][a].generation].active = NoTurn]
    /\ UNCHANGED <<turn, generation>>

RetireForBlock(d, a) ==
    /\ SessionRecoverable(d, a)
    /\ binding' = IF turn[d][a].state = "none" THEN binding
                  ELSE [binding EXCEPT ![LaneOf[d]][turn[d][a].generation] = Retired(@, "resolved")]
    /\ UNCHANGED <<turn, generation>>

Requeue(d, a, after, now) == RequeueBlock(d, a, after, now) /\ RetireForBlock(d, a)

Abandon(d, a) == AbandonBlock(d, a) /\ RetireForBlock(d, a)

-----------------------------------------------------------------------------
\* Clients without a session: the HTTP delivery and invocation routes, the
\* operator's resolutions and the daemon's reaper.
UnboundNext ==
    \/ \E now \in Times, agent \in Agents, limit \in 1..Cardinality(Deliveries), ms \in LeaseMs :
          \/ Claim(agent, limit, ms, now)
          \/ \E accepted \in Selectors : Reserve(agent, accepted, limit, ms, now)
    \/ \E now \in Times, agents \in (SUBSET Agents) \ {{}} : RecoverAll(agents, now)
    \/ \E d \in Deliveries, a \in Attempts, now \in Times :
          \/ ArmInvocation(d, a, now) /\ UNCHANGED sessionVars
          \/ \E at \in Times : Complete(d, a, at, now)
          \/ Acknowledge(d, a, now)
          \/ Block(d, a, now)
          \/ \E after \in RetryMs : Retry(d, a, after, now) \/ Requeue(d, a, after, now)
    \/ \E d \in Deliveries, a \in Attempts : Abandon(d, a)
    \/ \E d \in Deliveries, at \in Times : InsertDelivery(d, at) /\ UNCHANGED sessionVars
    \/ \E c \in Channels : ArchiveChannel(c) /\ UNCHANGED sessionVars

\* Controllers: any owner fence, in any order.  A controller acquires lanes only
\* while its generation is recorded (run_generation).
BoundNext ==
    \/ \E i \in Instances : RecordPluginGeneration(i) \/ StopPluginGeneration(i)
    \/ \E i \in Instances, l \in Lanes, g \in Generations :
          generation[i] = "active" /\ AcquireSessionBinding(i, l, g)
    \/ \E l \in Lanes, g \in Generations, e \in Epochs :
          \/ RecordSessionOpened(l, g, e)
          \/ RetireSessionBinding(l, g, e)
    \/ \E d \in Deliveries, a \in Attempts, g \in Generations, e \in Epochs :
          \/ \E i \in Instances, now \in Times : ArmSessionInvocation(d, a, i, g, e, now)
          \/ \E at, now \in Times : CompleteSessionInvocation(d, a, g, e, at, now)
          \/ MarkSessionInvocationUncertain(d, a, g, e)

Next == UnboundNext \/ BoundNext

Spec == Init /\ [][Next]_vars

-----------------------------------------------------------------------------
(* Properties. *)

\* A lane and its turns tell one story: a binding is active or uncertain exactly
\* while it names a turn, that turn is in the same state under the same fence,
\* and its invocation is armed, or parked and waiting for the operator.
BindingMatchesTurn ==
    \A l \in Lanes, g \in Generations :
        LET b == binding[l][g]
        IN  /\ b.active # NoTurn <=> b.state \in {"active", "uncertain"}
            /\ \A d \in Deliveries, a \in Attempts :
                  b.active = <<d, a>> =>
                      /\ LaneOf[d] = l
                      /\ turn[d][a] = [state |-> b.state, generation |-> g, epoch |-> b.epoch]
                      /\ \/ invocation[d][a].state = "dispatch_armed"
                         \/ b.state = "uncertain" /\ block[d][a] = "unresolved"

\* Recovery of an expired armed attempt never finds a session state it refuses.
\* One refusal aborts the reaper's single transaction for every agent, on every tick
\* (recover_all_expired_invocations).  ADR 0010: "If the controller dies between
\* those commits, ordinary invocation lease recovery still parks the delivery."
\* The workers, the reaper and the operator's resolutions keep it.  Explicit
\* retirement of an uncertain binding does not: it clears the active invocation that
\* mark_expired_session_turn_uncertain compares.
RecoveryNeverConflicts ==
    \A d \in Deliveries, a \in Attempts :
        invocation[d][a].state = "dispatch_armed" => TurnRecoverable(d, a)

RetiredExplicitly(d, a) == binding[LaneOf[d]][turn[d][a].generation].reason = "explicit"

\* The operator can resolve every block there is: the session evidence of a parked
\* attempt is always the one retire_uncertain_session_for_delivery_block accepts,
\* whatever expired, was adopted, rotated or settled by another route before.  The one
\* exception is a generation retired explicitly while it was uncertain: its block is
\* refused from then on ("already retired differently").
ResolutionNeverConflicts ==
    \A d \in Deliveries, a \in Attempts :
        block[d][a] = "unresolved" =>
            SessionRecoverable(d, a) \/ (turn[d][a].state = "uncertain" /\ RetiredExplicitly(d, a))

\* A native session runs one turn at a time: two attempts that may still be
\* running are never bound to the same lane.
LaneRunsOneTurn ==
    \A d, e \in Deliveries : \A a, b \in Attempts :
        /\ turn[d][a].state \in {"active", "uncertain"} /\ invocation[d][a].state = "dispatch_armed"
        /\ turn[e][b].state \in {"active", "uncertain"} /\ invocation[e][b].state = "dispatch_armed"
        /\ LaneOf[d] = LaneOf[e]
        => d = e /\ a = b

\* Work requeued after an uncertain turn never meets the transcript of that turn
\* (resolve_delivery_block: "A requeue therefore starts in a fresh session
\* generation").
RequeueStartsFreshGeneration ==
    \A d \in Deliveries : \A a, b \in Attempts :
        a < b /\ turn[d][a].state = "uncertain" /\ turn[d][b].state # "none" =>
            turn[d][b].generation > turn[d][a].generation

\* A session with an uncertain turn never serves again: its generation stays uncertain
\* or is retired, and only by the operator's decision on that turn or explicitly, never
\* by expiry, by recovery, or by a new owner that adopts or rotates the lane (ADR 0010:
\* "Uncertainty is not converted to safety by timeout, process exit, or missing
\* evidence").
UncertainSessionNeverServes ==
    \A d \in Deliveries, a \in Attempts :
        turn[d][a].state = "uncertain" =>
            LET b == binding[LaneOf[d]][turn[d][a].generation]
            IN  \/ b.state = "uncertain" /\ b.active = <<d, a>>
                \/ b.state = "retired" /\ b.reason = "explicit"
                \/ /\ b.state = "retired" /\ b.reason = "resolved"
                   /\ block[d][a] \in {"requeued", "abandoned"}

====
