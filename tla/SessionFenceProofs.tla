------------------------- MODULE SessionFenceProofs -------------------------
(***************************************************************************)
(* What is proved of the delivery fence holds with native sessions composed *)
(* in: for every set of agents, deliveries, lanes and plugin generations,   *)
(* every bound and every clock.                                             *)
(***************************************************************************)
EXTENDS SessionFence, DeliveryPromiseProofs

\* What the lanes add changes nothing of what the fence does.
LEMMA NextIsFenceStep == [Next]_vars => [FenceNext]_fenceVars
<1> SUFFICES ASSUME Next \/ UNCHANGED vars PROVE FenceNext \/ UNCHANGED fenceVars
  OBVIOUS
<1>1. CASE UnboundNext
  <2>1. ASSUME NEW now \in Times, NEW agent \in Agents, NEW limit \in 1..Cardinality(Deliveries),
               NEW ms \in LeaseMs,
               \/ Claim(agent, limit, ms, now)
               \/ \E accepted \in Selectors : Reserve(agent, accepted, limit, ms, now)
        PROVE  FenceNext
    BY <2>1 DEF FenceNext, Claim, Reserve
  <2>2. ASSUME NEW now \in Times, NEW agents \in (SUBSET Agents) \ {{}}, RecoverAll(agents, now)
        PROVE  FenceNext
    BY <2>2 DEF FenceNext, RecoverAll
  <2>3. ASSUME NEW d \in Deliveries, NEW a \in Attempts, NEW now \in Times,
               \/ ArmInvocation(d, a, now) /\ UNCHANGED sessionVars
               \/ \E at \in Times : Complete(d, a, at, now)
               \/ Acknowledge(d, a, now)
               \/ Block(d, a, now)
               \/ \E after \in RetryMs : Retry(d, a, after, now) \/ Requeue(d, a, after, now)
        PROVE  FenceNext
    BY <2>3 DEF FenceNext, Complete, Acknowledge, Block, Retry, Requeue
  <2>4. ASSUME \/ \E d \in Deliveries, a \in Attempts : Abandon(d, a)
               \/ \E d \in Deliveries, at \in Times : InsertDelivery(d, at) /\ UNCHANGED sessionVars
               \/ \E c \in Channels : ArchiveChannel(c) /\ UNCHANGED sessionVars
        PROVE  FenceNext
    BY <2>4 DEF FenceNext, Abandon
  <2> QED
    BY <1>1, <2>1, <2>2, <2>3, <2>4 DEF UnboundNext
<1>2. CASE BoundNext
  BY <1>2 DEF BoundNext, FenceNext, RecordPluginGeneration, StopPluginGeneration,
     AcquireSessionBinding, RecordSessionOpened, RetireSessionBinding, ArmSessionInvocation,
     CompleteSessionInvocation, MarkSessionInvocationUncertain
<1>3. CASE UNCHANGED vars
  BY <1>3 DEF vars, fenceVars
<1> QED
  BY <1>1, <1>2, <1>3 DEF Next

\* Every behaviour of the session operations is, on the delivery tables, one of the
\* delivery fence: a session may refuse a transition, it adds none.
THEOREM SessionsKeepFence == Spec => FenceSpec
<1>1. Init => FenceInit
  BY DEF Init
<1> QED
  BY <1>1, NextIsFenceStep, PTL DEF Spec, FenceSpec

\* With sessions too, a live invocation holds the lease of its delivery, an attempt
\* whose dispatch was armed is followed by another only through an operator's requeue,
\* and a delivery is blocked exactly while one of its blocks is open.
THEOREM SessionsKeepFenceInvariants ==
    Spec => [](LiveInvocationOwnsLease /\ NoBlindRedispatch /\ BlockedHasOneOpenBlock)
  BY SessionsKeepFence, LeaseIsOwned, WorkIsNotRedispatched, BlocksAreExact, PTL

\* The session operations implement the promise made to whoever sends a message.
THEOREM SessionsImplementPromise == Spec => ImplementsPromise
  BY SessionsKeepFence, FenceImplementsPromise, PTL
====
