------------------------ MODULE DeliveryPromiseProofs ------------------------
(***************************************************************************)
(* DeliveryFence implements WorkPromise, for every set of deliveries and   *)
(* every bound: what a transaction does to the rows of one delivery is a   *)
(* move, a dispatch or a decision of the promise, or nothing.              *)
(***************************************************************************)
EXTENDS DeliveryFenceProofs, FiniteSetTheorems

\* A leased row has an attempt, and nobody has written the block of that attempt.
LeaseIsOpen(d) ==
    delivery[d].state = "leased" =>
        delivery[d].attempt \in Attempts /\ block[d][delivery[d].attempt] = "none"

\* The inductive invariant of the refinement.
PromiseInv == FenceInv /\ \A d \in Deliveries : LeaseIsOpen(d)

-----------------------------------------------------------------------------
(* What a transaction may do to one delivery. *)

SameDispatches(d) == \A a \in Attempts : invocation'[d][a].armed = invocation[d][a].armed

SameDecisions(d) == \A a \in Attempts : block'[d][a] = "requeued" <=> block[d][a] = "requeued"

Quiet(d) ==
    /\ SameDispatches(d) /\ SameDecisions(d)
    /\ PhaseOf(d)' = PhaseOf(d) \/ <<PhaseOf(d), PhaseOf(d)'>> \in Promise!Moves

Arms(d) ==
    /\ PhaseOf(d) = "held" /\ PhaseOf(d)' = "dispatched"
    /\ \E a \in Attempts :
          /\ ~ invocation[d][a].armed /\ invocation'[d][a].armed
          /\ \A b \in Attempts : b # a => invocation'[d][b].armed = invocation[d][b].armed
    /\ SameDecisions(d)

Decides(d) ==
    /\ PhaseOf(d) = "parked" /\ PhaseOf(d)' = "waiting"
    /\ \E a \in Attempts :
          /\ block[d][a] # "requeued" /\ block'[d][a] = "requeued"
          /\ \A b \in Attempts : b # a => block'[d][b] = block[d][b]
    /\ SameDispatches(d)

Step(d) == LeaseIsOpen(d)' /\ (Quiet(d) \/ Arms(d) \/ Decides(d))

\* The phase of a delivery, from the state of its row and of its last invocation.
LEMMA PhaseTable ==
  ASSUME NEW d
  PROVE  LET last == invocation[d][delivery[d].attempt].state
             state == delivery[d].state
         IN  /\ state = "absent" => PhaseOf(d) = "absent"
             /\ state = "pending" => PhaseOf(d) = "waiting"
             /\ state = "leased" /\ last = "dispatch_armed" => PhaseOf(d) = "dispatched"
             /\ state = "leased" /\ last # "dispatch_armed" => PhaseOf(d) = "held"
             /\ state = "blocked" => PhaseOf(d) = "parked"
             /\ state = "acknowledged" => PhaseOf(d) = "done"
             /\ state = "dead" => PhaseOf(d) = "abandoned"
  BY DEF PhaseOf

\* The same after a step.
LEMMA NextPhaseTable ==
  ASSUME NEW d
  PROVE  LET last == invocation'[d][delivery'[d].attempt].state
             state == delivery'[d].state
         IN  /\ state = "absent" => PhaseOf(d)' = "absent"
             /\ state = "pending" => PhaseOf(d)' = "waiting"
             /\ state = "leased" /\ last = "dispatch_armed" => PhaseOf(d)' = "dispatched"
             /\ state = "leased" /\ last # "dispatch_armed" => PhaseOf(d)' = "held"
             /\ state = "blocked" => PhaseOf(d)' = "parked"
             /\ state = "acknowledged" => PhaseOf(d)' = "done"
             /\ state = "dead" => PhaseOf(d)' = "abandoned"
  BY DEF PhaseOf

\* A row in one of its states has a phase.
LEMMA NextPhaseType ==
  ASSUME NEW d, delivery'[d].state \in DeliveryStates
  PROVE  PhaseOf(d)' \in Promise!Phases
  BY NextPhaseTable DEF DeliveryStates, Promise!Phases

\* A count over attempts goes up by one when one attempt is added.
LEMMA CountAttempts ==
  ASSUME NEW S \in SUBSET Attempts
  PROVE  /\ Cardinality(S) \in Nat
         /\ \A a \in Attempts \ S : Cardinality(S \cup {a}) = Cardinality(S) + 1
<1>1. IsFiniteSet(Attempts)
  BY FS_Interval, DeliveryAssumption DEF Attempts
<1>2. IsFiniteSet(S)
  BY <1>1, FS_Subset
<1> QED
  BY <1>2, FS_CardinalityType, FS_AddElement

\* If every delivery takes one of these steps, the promise takes a step.
LEMMA StepsOfThePromise ==
  ASSUME FenceTypeOK, FenceTypeOK', \A d \in Deliveries : Quiet(d) \/ Arms(d) \/ Decides(d)
  PROVE  Promise!Next
<1> DEFINE A(d) == {a \in Attempts : invocation[d][a].armed}
           B(d) == {a \in Attempts : invocation'[d][a].armed}
           C(d) == {a \in Attempts : block[d][a] = "requeued"}
           D(d) == {a \in Attempts : block'[d][a] = "requeued"}
<1>1. \A d \in Deliveries : /\ delivery'[d].state \in DeliveryStates
                            /\ Cardinality(B(d)) \in Nat /\ Cardinality(D(d)) \in Nat
  <2>1. \A d \in Deliveries : delivery'[d].state \in DeliveryStates
    BY Columns DEF FenceTypeOK
  <2> QED
    BY <2>1, CountAttempts
<1>2. ASSUME NEW d \in Deliveries
      PROVE  /\ SameDispatches(d) => B(d) = A(d)
             /\ SameDecisions(d) => D(d) = C(d)
  BY DEF SameDispatches, SameDecisions
<1>3. ASSUME NEW d \in Deliveries, Arms(d)
      PROVE  Cardinality(B(d)) = Cardinality(A(d)) + 1
  <2>1. PICK a \in Attempts :
          /\ ~ invocation[d][a].armed /\ invocation'[d][a].armed
          /\ \A b \in Attempts : b # a => invocation'[d][b].armed = invocation[d][b].armed
    BY <1>3 DEF Arms
  <2>2. B(d) = A(d) \cup {a} /\ a \notin A(d)
    BY <2>1
  <2> QED
    BY <2>2, CountAttempts
<1>4. ASSUME NEW d \in Deliveries, Decides(d)
      PROVE  Cardinality(D(d)) = Cardinality(C(d)) + 1
  <2>1. PICK a \in Attempts :
          /\ block[d][a] # "requeued" /\ block'[d][a] = "requeued"
          /\ \A b \in Attempts : b # a => block'[d][b] = block[d][b]
    BY <1>4 DEF Decides
  <2>2. D(d) = C(d) \cup {a} /\ a \notin C(d)
    BY <2>1
  <2> QED
    BY <2>2, CountAttempts
<1>5. \A d \in Deliveries : PhaseOf(d)' \in Promise!Phases
  BY <1>1, NextPhaseType
<1>6. ASSUME NEW d \in Deliveries
      PROVE  \/ /\ PhaseOf(d)' = PhaseOf(d) \/ <<PhaseOf(d), PhaseOf(d)'>> \in Promise!Moves
                /\ Cardinality(B(d)) = Cardinality(A(d)) /\ Cardinality(D(d)) = Cardinality(C(d))
             \/ /\ PhaseOf(d) = "held" /\ PhaseOf(d)' = "dispatched"
                /\ Cardinality(B(d)) = Cardinality(A(d)) + 1
                /\ Cardinality(D(d)) = Cardinality(C(d))
             \/ /\ PhaseOf(d) = "parked" /\ PhaseOf(d)' = "waiting"
                /\ Cardinality(B(d)) = Cardinality(A(d))
                /\ Cardinality(D(d)) = Cardinality(C(d)) + 1
  <2> HIDE DEF A, B, C, D
  <2>1. CASE Quiet(d)
    BY <2>1, <1>2 DEF Quiet
  <2>2. CASE Arms(d)
    BY <2>2, <1>2, <1>3 DEF Arms
  <2>3. CASE Decides(d)
    BY <2>3, <1>2, <1>4 DEF Decides
  <2> QED
    BY <2>1, <2>2, <2>3
<1> QED
  BY <1>1, <1>5, <1>6 DEF Promise!Next, Promise!Move, Promise!Dispatch, Promise!Decide

-----------------------------------------------------------------------------
(* One lemma per kind of transaction. *)

\* A delivery none of whose rows change.
LEMMA Untouched ==
  ASSUME NEW d \in Deliveries, LeaseIsOpen(d), FenceTypeOK, delivery'[d] = delivery[d],
         \A a \in Attempts : invocation'[d][a] = invocation[d][a] /\ block'[d][a] = block[d][a]
  PROVE  Step(d)
<1>1. SameDispatches(d) /\ SameDecisions(d)
  BY DEF SameDispatches, SameDecisions
<1>2. LeaseIsOpen(d)'
  BY DEF LeaseIsOpen
<1>3. delivery[d].state \in DeliveryStates
  BY Columns DEF FenceTypeOK
<1>4. PhaseOf(d)' = PhaseOf(d)
  <2>1. CASE delivery[d].state = "leased"
    BY <2>1 DEF LeaseIsOpen, PhaseOf
  <2>2. CASE delivery[d].state # "leased"
    BY <2>2, <1>3, PhaseTable, NextPhaseTable DEF DeliveryStates
  <2> QED
    BY <2>1, <2>2
<1> QED
  BY <1>1, <1>2, <1>4 DEF Step, Quiet

\* Recovery leaves a row as it is, or parks a dispatch whose outcome nobody knows; it
\* clears no mark of an arm and touches no decision.
LEMMA RecoveredRows ==
  ASSUME PromiseInv, NEW agents, NEW now \in Times, NEW d \in Deliveries
  PROVE  /\ \A a \in Attempts :
               /\ RecoveredInvocation(agents, now)[d][a].armed = invocation[d][a].armed
               /\ RecoveredBlock(agents, now)[d][a] = "requeued" <=> block[d][a] = "requeued"
         /\ d \in Parked(agents, now) =>
               /\ delivery[d].state = "leased"
               /\ PhaseOf(d) = "dispatched"
               /\ RecoveredDelivery(agents, now)[d].state = "blocked"
         /\ d \notin Parked(agents, now) =>
               /\ RecoveredDelivery(agents, now)[d] = delivery[d]
               /\ \A a \in Attempts :
                     /\ RecoveredBlock(agents, now)[d][a] = block[d][a]
                     /\ RecoveredInvocation(agents, now)[d][a].state = "dispatch_armed"
                            <=> invocation[d][a].state = "dispatch_armed"
<1>t. FenceTypeOK /\ delivery[d] \in DeliveryRow
  BY DEF PromiseInv, FenceInv, FenceTypeOK
<1>1. ASSUME NEW a \in Attempts
      PROVE  /\ RecoveredInvocation(agents, now)[d][a].armed = invocation[d][a].armed
             /\ (d \notin Parked(agents, now) =>
                   (RecoveredInvocation(agents, now)[d][a].state = "dispatch_armed"
                            <=> invocation[d][a].state = "dispatch_armed"))
  <2>1. invocation[d][a] \in InvocationRow
    BY <1>t DEF FenceTypeOK
  <2>2. \/ RecoveredInvocation(agents, now)[d][a] = invocation[d][a]
        \/ /\ AgentOf[d] \in agents /\ Expired(d, a, now)
           /\ \/ RecoveredInvocation(agents, now)[d][a] = Terminalized(invocation[d][a], "not_started")
              \/ RecoveredInvocation(agents, now)[d][a] = Terminalized(invocation[d][a], "outcome_unknown")
    BY DEF RecoveredInvocation
  <2>3. d \notin Parked(agents, now) /\ AgentOf[d] \in agents /\ Expired(d, a, now)
          => invocation[d][a].state # "dispatch_armed"
    BY DEF Parked
  <2>4. \A c \in Certainties : /\ Terminalized(invocation[d][a], c).armed = invocation[d][a].armed
                               /\ Terminalized(invocation[d][a], c).state # "dispatch_armed"
    BY <2>1, TerminalizedRow
  <2> QED
    BY <2>2, <2>3, <2>4 DEF Certainties
<1>2. CASE d \in Parked(agents, now)
  <2>1. /\ delivery[d].state = "leased" /\ delivery[d].attempt \in Attempts
        /\ invocation[d][delivery[d].attempt].state = "dispatch_armed"
    BY <1>2 DEF Parked, Expired
  <2>2. PhaseOf(d) = "dispatched"
    BY <2>1, PhaseTable
  <2>3. RecoveredDelivery(agents, now)[d].state = "blocked"
    BY <1>2, <1>t, SettledRow DEF RecoveredDelivery, DeliveryStates, Settlements
  <2>4. block[d][delivery[d].attempt] = "none"
    BY <2>1 DEF PromiseInv, LeaseIsOpen
  <2>5. \A a \in Attempts : RecoveredBlock(agents, now)[d][a] = "requeued" <=> block[d][a] = "requeued"
    BY <1>2, <2>4 DEF RecoveredBlock
  <2> QED
    BY <1>1, <1>2, <2>1, <2>2, <2>3, <2>5
<1>3. CASE d \notin Parked(agents, now)
  <2>1. RecoveredDelivery(agents, now)[d] = delivery[d]
    BY <1>3 DEF RecoveredDelivery
  <2>2. \A a \in Attempts : RecoveredBlock(agents, now)[d][a] = block[d][a]
    BY <1>3 DEF RecoveredBlock
  <2> QED
    BY <1>1, <1>3, <2>1, <2>2
<1> QED
  BY <1>2, <1>3

\* recover_all_expired_invocations, and what a claim does to the rows it does not take.
LEMMA RecoverySteps ==
  ASSUME PromiseInv, NEW agents, NEW now \in Times, NEW d \in Deliveries,
         delivery'[d] = RecoveredDelivery(agents, now)[d],
         \A a \in Attempts : /\ invocation'[d][a] = RecoveredInvocation(agents, now)[d][a]
                             /\ block'[d][a] = RecoveredBlock(agents, now)[d][a]
  PROVE  Step(d)
<1>1. SameDispatches(d) /\ SameDecisions(d)
  BY RecoveredRows DEF SameDispatches, SameDecisions
<1>2. CASE d \in Parked(agents, now)
  <2>1. delivery'[d].state = "blocked" /\ PhaseOf(d) = "dispatched"
    BY <1>2, RecoveredRows
  <2>2. PhaseOf(d)' = "parked" /\ LeaseIsOpen(d)'
    BY <2>1, NextPhaseTable DEF LeaseIsOpen
  <2> QED
    BY <1>1, <2>1, <2>2 DEF Step, Quiet, Promise!Moves
<1>3. CASE d \notin Parked(agents, now)
  <2>1. /\ delivery'[d] = delivery[d]
        /\ \A a \in Attempts :
              /\ block'[d][a] = block[d][a]
              /\ invocation'[d][a].state = "dispatch_armed"
                    <=> invocation[d][a].state = "dispatch_armed"
    BY <1>3, RecoveredRows
  <2>2. LeaseIsOpen(d) /\ delivery[d].state \in DeliveryStates
    BY Columns DEF PromiseInv, FenceInv, FenceTypeOK
  <2>3. LeaseIsOpen(d)'
    BY <2>1, <2>2 DEF LeaseIsOpen
  <2>4. PhaseOf(d)' = PhaseOf(d)
    <3>1. CASE delivery[d].state = "leased"
      BY <3>1, <2>1, <2>2 DEF LeaseIsOpen, PhaseOf
    <3>2. CASE delivery[d].state # "leased"
      BY <3>2, <2>1, <2>2, PhaseTable, NextPhaseTable DEF DeliveryStates
    <3> QED
      BY <3>1, <3>2
  <2> QED
    BY <1>1, <2>3, <2>4 DEF Step, Quiet
<1> QED
  BY <1>2, <1>3

\* claim_deliveries and reserve_invocations: a row of the batch was waiting, or its
\* holder let a lease expire without arming; the new holder has dispatched nothing.
LEMMA LeaseSteps ==
  ASSUME PromiseInv, FenceTypeOK', NEW agent, NEW accepted, NEW limit, NEW ms \in LeaseMs,
         NEW now \in Times, NEW batch,
         batch = Batch(agent, accepted, limit, now),
         LeaseClaimable(agent, batch, now + ms, now),
         OpensOnly({}, agent, batch, now) \/ OpensOnly({Reserved(now + ms)}, agent, batch, now),
         NEW d \in Deliveries
  PROVE  Step(d)
<1> DEFINE r == delivery[d]
           V(a) == RecoveredInvocation({agent}, now)[d][a]
<1>t. FenceInv /\ FenceTypeOK /\ r \in DeliveryRow
  BY DEF PromiseInv, FenceInv, FenceTypeOK
<1>b. \A a \in Attempts : block'[d][a] = RecoveredBlock({agent}, now)[d][a]
  BY DEF LeaseClaimable
<1>i. \A a \in Attempts : \/ invocation'[d][a] = V(a)
                          \/ /\ d \in batch /\ a = r.attempt + 1
                             /\ invocation'[d][a] = Reserved(now + ms)
  BY DEF OpensOnly
<1>1. CASE d \notin batch
  <2>1. delivery'[d] = RecoveredDelivery({agent}, now)[d]
    BY <1>1 DEF LeaseClaimable
  <2>2. \A a \in Attempts : invocation'[d][a] = V(a)
    BY <1>1, <1>i
  <2> QED
    BY <1>b, <2>1, <2>2, RecoverySteps
<1>2. CASE d \in batch
  <2>1. d \in Batch(agent, accepted, limit, now)
    BY <1>2
  <2>2. /\ RecoveredDelivery({agent}, now)[d] = r
        /\ r.state \in {"pending", "leased"}
        /\ \A a \in Attempts : a = r.attempt => V(a).state \notin {"reserved", "dispatch_armed"}
    BY <2>1, <1>t, ChosenRow
  <2>3. d \notin Parked({agent}, now)
    BY <2>2, RecoveredRows
  <2>4. /\ now + ms \in Times
        /\ r.attempt < MaxAttempts
        /\ delivery'[d] = Leased(r, now + ms)
    BY <1>2, LaterIsATime, DeliveryAssumption DEF LeaseClaimable
  <2>5. delivery'[d].state = "leased" /\ delivery'[d].attempt = r.attempt + 1
    BY <2>4, <1>t, LeasedAgainRow
  <2>6. r.attempt + 1 \in Attempts /\ r.attempt # r.attempt + 1
    BY <2>4, <1>t, Columns, DeliveryAssumption DEF Attempts
  <2>7. /\ invocation[d][r.attempt + 1] = NoInvocation /\ block[d][r.attempt + 1] = "none"
    <3>1. AttemptInv(r, invocation[d][r.attempt + 1], block[d][r.attempt + 1], r.attempt + 1)
      BY <2>6, <1>t DEF FenceInv
    <3>2. r.attempt + 1 > r.attempt
      BY <1>t, Columns, DeliveryAssumption
    <3> QED
      BY <3>1, <3>2 DEF AttemptInv
  <2>8. \A a \in Attempts :
           /\ V(a).armed = invocation[d][a].armed
           /\ block'[d][a] = block[d][a]
           /\ V(a).state = "dispatch_armed" <=> invocation[d][a].state = "dispatch_armed"
    <3>1. ASSUME NEW a \in Attempts
          PROVE  /\ V(a).armed = invocation[d][a].armed
                 /\ RecoveredBlock({agent}, now)[d][a] = block[d][a]
                 /\ V(a).state = "dispatch_armed" <=> invocation[d][a].state = "dispatch_armed"
      BY <2>3, RecoveredRows
    <3> HIDE DEF V
    <3> QED
      BY <1>b, <3>1
  <2>9. /\ Reserved(now + ms).armed = FALSE /\ Reserved(now + ms).state = "reserved"
        /\ NoInvocation.armed = FALSE /\ NoInvocation.state = "none"
    BY <2>4, ReservedRow, EmptyRows
  <2> HIDE DEF V, r
  <2>10. SameDispatches(d) /\ SameDecisions(d)
    BY <1>i, <2>6, <2>7, <2>8, <2>9 DEF SameDispatches, SameDecisions
  <2>11. LeaseIsOpen(d)'
    BY <2>5, <2>6, <2>7, <2>8 DEF LeaseIsOpen
  <2>12. PhaseOf(d)' = "held"
    <3>1. invocation'[d][r.attempt + 1].state # "dispatch_armed"
      BY <1>i, <2>6, <2>7, <2>8, <2>9
    <3> QED
      BY <3>1, <2>5, NextPhaseTable
  <2>13. PhaseOf(d) \in {"waiting", "held"}
    <3>1. CASE r.state = "pending"
      BY <3>1, PhaseTable DEF r
    <3>2. CASE r.state = "leased"
      <4>1. r.attempt \in Attempts
        BY <3>2 DEF PromiseInv, LeaseIsOpen, r
      <4>2. invocation[d][r.attempt].state # "dispatch_armed"
        BY <4>1, <2>2, <2>8
      <4> QED
        BY <3>2, <4>2, PhaseTable DEF r
    <3> QED
      BY <2>2, <3>1, <3>2
  <2> QED
    BY <2>10, <2>11, <2>12, <2>13 DEF Step, Quiet, Promise!Moves
<1> QED
  BY <1>1, <1>2

\* arm_invocation authorises the effect of work that its caller holds.
LEMMA ArmSteps ==
  ASSUME PromiseInv, NEW d \in Deliveries, NEW a \in Attempts, NEW now \in Times,
         ArmInvocation(d, a, now), NEW e \in Deliveries
  PROVE  Step(e)
<1> DEFINE v == invocation[d][a]
           w == [v EXCEPT !.state = "dispatch_armed", !.armed = TRUE]
<1>t. FenceInv /\ FenceTypeOK /\ v \in InvocationRow /\ LeaseIsOpen(e)
  BY DEF PromiseInv, FenceInv, FenceTypeOK
<1>1. invocation' = [invocation EXCEPT ![d][a] = w] /\ UNCHANGED <<delivery, block>>
  BY DEF ArmInvocation
<1>2. w.state = "dispatch_armed" /\ w.armed = TRUE
  BY <1>t, ArmedRow
<1>3. v.state = "reserved" /\ delivery[d].state = "leased" /\ delivery[d].attempt = a
  BY DEF ArmInvocation, LiveInvocation, HoldsLease
<1>4. ~ v.armed
  <2>1. AttemptInv(delivery[d], v, block[d][a], a)
    BY <1>t DEF FenceInv
  <2> QED
    BY <1>3, <2>1 DEF AttemptInv
<1>5. /\ invocation'[d][a] = w
      /\ \A b \in Attempts : b # a => invocation'[d][b] = invocation[d][b]
      /\ e # d => \A b \in Attempts : invocation'[e][b] = invocation[e][b]
  BY <1>1, <1>t DEF FenceTypeOK
<1> HIDE DEF v, w
<1>6. CASE e # d
  BY <1>1, <1>5, <1>6, <1>t, Untouched
<1>7. CASE e = d
  <2>1. PhaseOf(d) = "held"
    BY <1>3, PhaseTable DEF v
  <2>2. PhaseOf(d)' = "dispatched"
    BY <1>1, <1>2, <1>3, <1>5, NextPhaseTable
  <2>3. LeaseIsOpen(d)' /\ SameDecisions(d)
    BY <1>1, <1>t, <1>7 DEF LeaseIsOpen, SameDecisions
  <2>4. Arms(d)
    BY <1>2, <1>4, <1>5, <2>1, <2>2, <2>3 DEF Arms, v
  <2> QED
    BY <1>7, <2>3, <2>4 DEF Step
<1> QED
  BY <1>6, <1>7

\* Every way a holder ends its lease: the phase it leads to depends on the row only.
LEMMA SettlementSteps ==
  ASSUME PromiseInv, NEW d \in Deliveries, NEW a \in Attempts,
         delivery[d].state = "leased", delivery[d].attempt = a,
         \A b \in Attempts : invocation'[d][b].armed = invocation[d][b].armed,
         \A b \in Attempts : block'[d][b] = block[d][b] \/ (b = a /\ block'[d][b] = "unresolved"),
         \/ delivery'[d].state \in {"acknowledged", "blocked"}
         \/ delivery'[d].state = "pending" /\ invocation[d][a].state # "dispatch_armed"
  PROVE  Step(d)
<1>1. block[d][a] = "none"
  BY DEF PromiseInv, LeaseIsOpen
<1>2. SameDispatches(d) /\ SameDecisions(d)
  BY <1>1 DEF SameDispatches, SameDecisions
<1>3. LeaseIsOpen(d)'
  BY DEF LeaseIsOpen
<1>4. PhaseOf(d) \in {"held", "dispatched"}
  BY PhaseTable
<1>5. \/ PhaseOf(d)' \in {"done", "parked"}
      \/ PhaseOf(d)' = "waiting" /\ PhaseOf(d) = "held"
  BY PhaseTable, NextPhaseTable
<1> QED
  BY <1>2, <1>3, <1>4, <1>5 DEF Step, Quiet, Promise!Moves

\* acknowledge_delivery, block_delivery and retry_delivery.
LEMMA HolderSteps ==
  ASSUME PromiseInv, NEW d \in Deliveries, NEW a \in Attempts, NEW now \in Times,
         \/ AcknowledgeDelivery(d, a, now)
         \/ BlockDelivery(d, a, now)
         \/ \E after \in RetryMs : RetryDelivery(d, a, after, now),
         NEW e \in Deliveries
  PROVE  Step(e)
<1> DEFINE r == delivery[d]
           v == invocation[d][a]
<1>t. FenceTypeOK /\ r \in DeliveryRow /\ v \in InvocationRow /\ LeaseIsOpen(e)
  BY DEF PromiseInv, FenceInv, FenceTypeOK
<1>1. r.state = "leased" /\ r.attempt = a
  BY DEF AcknowledgeDelivery, BlockDelivery, RetryDelivery, HoldsLease
<1>2. ASSUME NEW s, NEW w, w.armed = v.armed,
             \/ s.state \in {"acknowledged", "blocked"}
             \/ s.state = "pending" /\ v.state # "dispatch_armed",
             delivery' = [delivery EXCEPT ![d] = s],
             invocation' = [invocation EXCEPT ![d][a] = w],
             block' = block \/ block' = [block EXCEPT ![d][a] = "unresolved"]
      PROVE  Step(e)
  <2>1. delivery'[d] = s /\ (e # d => delivery'[e] = delivery[e])
    BY <1>2, <1>t DEF FenceTypeOK
  <2>2. /\ \A b \in Attempts : invocation'[d][b].armed = invocation[d][b].armed
        /\ \A b \in Attempts : block'[d][b] = block[d][b] \/ (b = a /\ block'[d][b] = "unresolved")
    BY <1>2, <1>t DEF FenceTypeOK
  <2>3. e # d => \A b \in Attempts : invocation'[e][b] = invocation[e][b] /\ block'[e][b] = block[e][b]
    BY <1>2, <1>t DEF FenceTypeOK
  <2>4. CASE e = d
    BY <1>1, <1>2, <2>1, <2>2, <2>4, SettlementSteps
  <2>5. CASE e # d
    BY <1>t, <2>1, <2>3, <2>5, Untouched
  <2> QED
    BY <2>4, <2>5
<1>3. CASE AcknowledgeDelivery(d, a, now)
  <2> DEFINE s == Settled(r, "acknowledged", "acknowledged")
             w == Terminalized(v, "outcome_known")
  <2>1. s.state = "acknowledged" /\ w.armed = v.armed
    BY <1>t, SettledRow, TerminalizedRow DEF DeliveryStates, Settlements, Certainties
  <2>2. delivery' = [delivery EXCEPT ![d] = s] /\ invocation' = [invocation EXCEPT ![d][a] = w] /\ block' = block
    BY <1>3 DEF AcknowledgeDelivery
  <2> HIDE DEF s, w, r, v
  <2> QED
    BY <1>2, <2>1, <2>2
<1>4. CASE BlockDelivery(d, a, now)
  <2> DEFINE s == Settled(r, "blocked", "blocked")
             w == Terminalized(v, "outcome_unknown")
  <2>1. s.state = "blocked" /\ w.armed = v.armed
    BY <1>t, SettledRow, TerminalizedRow DEF DeliveryStates, Settlements, Certainties
  <2>2. /\ delivery' = [delivery EXCEPT ![d] = s] /\ invocation' = [invocation EXCEPT ![d][a] = w]
        /\ block' = [block EXCEPT ![d][a] = "unresolved"]
    BY <1>4 DEF BlockDelivery
  <2> HIDE DEF s, w, r, v
  <2> QED
    BY <1>2, <2>1, <2>2
<1>5. ASSUME NEW after \in RetryMs, RetryDelivery(d, a, after, now)
      PROVE  Step(e)
  <2> DEFINE s == [Settled(r, "pending", "retry") EXCEPT !.available = now + after]
             w == Terminalized(v, "not_started")
  <2>1. now + after \in Times /\ v.state # "dispatch_armed"
    BY <1>5, LaterIsATime, DeliveryAssumption DEF RetryDelivery, RetryIsSafe
  <2>2. s.state = "pending" /\ w.armed = v.armed
    <3>1. s.state = "pending"
      BY <1>t, <2>1, RetriedRow
    <3>2. w.armed = v.armed
      BY <1>t, TerminalizedRow DEF Certainties
    <3> QED
      BY <3>1, <3>2
  <2>3. delivery' = [delivery EXCEPT ![d] = s] /\ invocation' = [invocation EXCEPT ![d][a] = w] /\ block' = block
    BY <1>5 DEF RetryDelivery
  <2> HIDE DEF s, w, r, v
  <2> QED
    BY <1>2, <2>1, <2>2, <2>3
<1> QED
  BY <1>3, <1>4, <1>5

\* A new row waits: insert_message, for an append and for a result.
LEMMA InsertionSteps ==
  ASSUME PromiseInv, NEW e \in Deliveries, NEW at \in Times, delivery[e].state = "absent",
         delivery'[e] = Inserted(at),
         \A b \in Attempts : invocation'[e][b] = invocation[e][b] /\ block'[e][b] = block[e][b]
  PROVE  Step(e)
<1>1. delivery'[e].state = "pending"
  BY InsertedRow
<1>2. SameDispatches(e) /\ SameDecisions(e)
  BY DEF SameDispatches, SameDecisions
<1>3. LeaseIsOpen(e)'
  BY <1>1 DEF LeaseIsOpen
<1>4. PhaseOf(e) = "absent" /\ PhaseOf(e)' = "waiting"
  BY <1>1, PhaseTable, NextPhaseTable
<1> QED
  BY <1>2, <1>3, <1>4 DEF Step, Quiet, Promise!Moves

\* complete_invocation ends its delivery and lets the deliveries of the result wait.
LEMMA CompletionSteps ==
  ASSUME PromiseInv, NEW d \in Deliveries, NEW a \in Attempts, NEW now \in Times,
         NEW at \in Times, CompleteInvocation(d, a, at, now), NEW e \in Deliveries
  PROVE  Step(e)
<1> DEFINE r == delivery[d]
           v == invocation[d][a]
           s == Settled(r, "acknowledged", "acknowledged")
           w == [Terminal(v, "outcome_known") EXCEPT !.result = TRUE]
<1>t. FenceInv /\ FenceTypeOK /\ r \in DeliveryRow /\ v \in InvocationRow /\ LeaseIsOpen(e)
  BY DEF PromiseInv, FenceInv, FenceTypeOK
<1>1. r.state = "leased" /\ r.attempt = a
  BY DEF CompleteInvocation, LiveInvocation, HoldsLease
<1>2. s.state = "acknowledged" /\ w.armed = v.armed
  <2>1. s.state = "acknowledged"
    BY <1>t, SettledRow DEF DeliveryStates, Settlements
  <2>2. w.armed = v.armed
    BY <1>t, CompletedRow
  <2> QED
    BY <2>1, <2>2
<1>3. /\ delivery' = [f \in Deliveries |->
             IF f = d THEN s ELSE IF f \in ReplyTo[d] THEN Inserted(at) ELSE delivery[f]]
      /\ invocation' = [invocation EXCEPT ![d][a] = w]
      /\ block' = block
  BY DEF CompleteInvocation
<1> HIDE DEF s, w
<1>4. \A b \in Attempts : /\ invocation'[d][b].armed = invocation[d][b].armed
                          /\ block'[d][b] = block[d][b]
  BY <1>2, <1>3, <1>t DEF FenceTypeOK
<1>5. e # d => \A b \in Attempts : invocation'[e][b] = invocation[e][b] /\ block'[e][b] = block[e][b]
  BY <1>3, <1>t DEF FenceTypeOK
<1>6. CASE e = d
  <2>1. delivery'[d].state = "acknowledged"
    BY <1>2, <1>3
  <2> QED
    BY <1>1, <1>4, <1>6, <2>1, SettlementSteps
<1>7. CASE e # d /\ e \in ReplyTo[d]
  <2>1. delivery[e].state = "absent"
    BY <1>1, <1>7, <1>t, ReplyIsNew, EmptyRows
  <2>2. delivery'[e] = Inserted(at)
    BY <1>3, <1>7
  <2> QED
    BY <1>5, <1>7, <2>1, <2>2, InsertionSteps
<1>8. CASE e # d /\ e \notin ReplyTo[d]
  <2>1. delivery'[e] = delivery[e]
    BY <1>3, <1>8
  <2> QED
    BY <1>5, <1>8, <1>t, <2>1, Untouched
<1> QED
  BY <1>6, <1>7, <1>8

\* resolve_delivery_block: the one operation that adds a decision.
LEMMA DecisionSteps ==
  ASSUME PromiseInv, NEW d \in Deliveries, NEW a \in Attempts,
         \/ \E now \in Times, after \in RetryMs : RequeueBlock(d, a, after, now)
         \/ AbandonBlock(d, a),
         NEW e \in Deliveries
  PROVE  Step(e)
<1> DEFINE r == delivery[d]
<1>t. FenceTypeOK /\ r \in DeliveryRow /\ LeaseIsOpen(e)
  BY DEF PromiseInv, FenceInv, FenceTypeOK
<1>1. r.state = "blocked" /\ block[d][a] = "unresolved" /\ PhaseOf(d) = "parked"
  BY PhaseTable DEF RequeueBlock, AbandonBlock, Resolvable
<1>2. ASSUME NEW s, NEW c,
             (s.state = "pending" /\ c = "requeued") \/ (s.state = "dead" /\ c = "abandoned"),
             delivery' = [delivery EXCEPT ![d] = s], block' = [block EXCEPT ![d][a] = c],
             invocation' = invocation
      PROVE  Step(e)
  <2>1. delivery'[d] = s /\ (e # d => delivery'[e] = delivery[e])
    BY <1>2, <1>t DEF FenceTypeOK
  <2>2. block'[d][a] = c /\ \A b \in Attempts : b # a => block'[d][b] = block[d][b]
    BY <1>2, <1>t DEF FenceTypeOK
  <2>3. e # d => \A b \in Attempts : invocation'[e][b] = invocation[e][b] /\ block'[e][b] = block[e][b]
    BY <1>2, <1>t DEF FenceTypeOK
  <2>4. CASE e # d
    BY <1>t, <2>1, <2>3, <2>4, Untouched
  <2>5. SameDispatches(d) /\ LeaseIsOpen(d)'
    BY <1>2, <2>1 DEF SameDispatches, LeaseIsOpen
  <2>6. CASE e = d /\ c = "requeued"
    <3>1. PhaseOf(d)' = "waiting"
      BY <1>2, <2>1, <2>6, NextPhaseTable
    <3>2. Decides(d)
      BY <1>1, <2>2, <2>5, <2>6, <3>1 DEF Decides
    <3> QED
      BY <2>5, <2>6, <3>2 DEF Step
  <2>7. CASE e = d /\ c = "abandoned"
    <3>1. PhaseOf(d)' = "abandoned"
      BY <1>2, <2>1, <2>7, NextPhaseTable
    <3>2. SameDecisions(d)
      BY <1>1, <2>2, <2>7 DEF SameDecisions
    <3> QED
      BY <1>1, <2>5, <2>7, <3>1, <3>2 DEF Step, Quiet, Promise!Moves
  <2> QED
    BY <1>2, <2>4, <2>6, <2>7
<1>3. ASSUME NEW now \in Times, NEW after \in RetryMs, RequeueBlock(d, a, after, now)
      PROVE  Step(e)
  <2> DEFINE s == [r EXCEPT !.state = "pending", !.available = now + after,
                            !.settled = 0, !.settlement = "none"]
  <2>1. now + after \in Times
    BY <1>3, LaterIsATime, DeliveryAssumption DEF RequeueBlock
  <2>2. s.state = "pending"
    BY <1>t, <2>1, RequeuedRow
  <2>3. /\ delivery' = [delivery EXCEPT ![d] = s] /\ block' = [block EXCEPT ![d][a] = "requeued"]
        /\ invocation' = invocation
    BY <1>3 DEF RequeueBlock
  <2> HIDE DEF s
  <2> QED
    BY <1>2, <2>2, <2>3
<1>4. CASE AbandonBlock(d, a)
  <2> DEFINE s == [r EXCEPT !.state = "dead", !.settled = 0, !.settlement = "none"]
  <2>1. s.state = "dead"
    BY <1>t, AbandonedRow
  <2>2. /\ delivery' = [delivery EXCEPT ![d] = s] /\ block' = [block EXCEPT ![d][a] = "abandoned"]
        /\ invocation' = invocation
    BY <1>4 DEF AbandonBlock
  <2> HIDE DEF s
  <2> QED
    BY <1>2, <2>1, <2>2
<1> QED
  BY <1>3, <1>4

\* Every transaction takes every delivery through a step of the promise.
LEMMA NextSteps ==
  ASSUME PromiseInv, FenceNext
  PROVE  \A e \in Deliveries : Step(e)
<1> SUFFICES ASSUME NEW e \in Deliveries PROVE Step(e)
  OBVIOUS
<1>t. FenceInv /\ FenceTypeOK /\ FenceTypeOK' /\ LeaseIsOpen(e)
  BY NextTypeOK DEF PromiseInv, FenceInv
<1>1. ASSUME NEW now \in Times, NEW agent \in Agents, NEW limit, NEW ms \in LeaseMs,
             ClaimDeliveries(agent, limit, ms, now)
      PROVE  Step(e)
  <2> DEFINE batch == Batch(agent, Deliveries, limit, now)
  <2>1. LeaseClaimable(agent, batch, now + ms, now)
    BY <1>1 DEF ClaimDeliveries
  <2>2. OpensOnly({}, agent, batch, now)
    BY <1>1 DEF ClaimDeliveries, OpensOnly
  <2>3. batch = Batch(agent, Deliveries, limit, now)
    OBVIOUS
  <2> HIDE DEF batch
  <2> QED
    BY <1>t, <2>1, <2>2, <2>3, LeaseSteps
<1>2. ASSUME NEW now \in Times, NEW agent \in Agents, NEW limit, NEW ms \in LeaseMs,
             NEW accepted, ReserveInvocations(agent, accepted, limit, ms, now)
      PROVE  Step(e)
  <2> DEFINE batch == Batch(agent, accepted, limit, now)
  <2>1. LeaseClaimable(agent, batch, now + ms, now)
    BY <1>2 DEF ReserveInvocations
  <2>2. invocation' = [d \in Deliveries |-> [a \in Attempts |->
               IF d \in batch /\ a = delivery[d].attempt + 1
               THEN Reserved(now + ms)
               ELSE RecoveredInvocation({agent}, now)[d][a]]]
    BY <1>2 DEF ReserveInvocations
  <2>3. batch = Batch(agent, accepted, limit, now)
    OBVIOUS
  <2> HIDE DEF batch
  <2>4. OpensOnly({Reserved(now + ms)}, agent, batch, now)
    BY <2>2 DEF OpensOnly
  <2> QED
    BY <1>t, <2>1, <2>3, <2>4, LeaseSteps
<1>3. ASSUME NEW now \in Times, NEW agents, RecoverAllExpiredInvocations(agents, now)
      PROVE  Step(e)
  BY <1>3, RecoverySteps DEF RecoverAllExpiredInvocations
<1>4. ASSUME NEW d \in Deliveries, NEW at \in Times, InsertDelivery(d, at)
      PROVE  Step(e)
  <2>1. /\ delivery[d].state = "absent"
        /\ delivery' = [delivery EXCEPT ![d] = Inserted(at)] /\ UNCHANGED <<invocation, block>>
    BY <1>4 DEF InsertDelivery
  <2>2. delivery'[d] = Inserted(at) /\ (e # d => delivery'[e] = delivery[e])
    BY <1>t, <2>1 DEF FenceTypeOK
  <2>3. CASE e = d
    BY <2>1, <2>2, <2>3, InsertionSteps
  <2>4. CASE e # d
    BY <1>t, <2>1, <2>2, <2>4, Untouched
  <2> QED
    BY <2>3, <2>4
<1>5. ASSUME NEW c, ArchiveChannel(c) PROVE Step(e)
  BY <1>t, <1>5, Untouched DEF ArchiveChannel
<1> QED
  BY <1>1, <1>2, <1>3, <1>4, <1>5, ArmSteps, CompletionSteps, HolderSteps, DecisionSteps
  DEF FenceNext

\* The initial tables are the initial promise: nothing exists.
LEMMA InitPromise == FenceInit => PromiseInv /\ Promise!Init
<1> SUFFICES ASSUME FenceInit PROVE PromiseInv /\ Promise!Init
  OBVIOUS
<1>1. \A d \in Deliveries : delivery[d].state = "absent"
  BY EmptyRows DEF FenceInit
<1>2. PromiseInv
  BY <1>1, InitInv DEF PromiseInv, LeaseIsOpen
<1>3. \A d \in Deliveries : PhaseOf(d) = "absent"
  BY <1>1, PhaseTable
<1>4. \A d \in Deliveries : /\ {a \in Attempts : invocation[d][a].armed} = {}
                            /\ {a \in Attempts : block[d][a] = "requeued"} = {}
  BY EmptyRows DEF FenceInit
<1>5. Cardinality({}) = 0
  BY FS_EmptySet
<1>6. Promise!Init
  BY <1>3, <1>4, <1>5 DEF Promise!Init
<1> QED
  BY <1>2, <1>6

\* Leases keep their attempts and their unwritten blocks.
LEMMA NextPromiseInv == PromiseInv /\ [FenceNext]_fenceVars => PromiseInv'
<1>1. CASE PromiseInv /\ FenceNext
  BY <1>1, NextSteps, NextInv DEF PromiseInv, Step
<1>2. CASE PromiseInv /\ UNCHANGED fenceVars
  BY <1>2, NextInv DEF PromiseInv, LeaseIsOpen, fenceVars
<1> QED
  BY <1>1, <1>2

\* A transaction is a step of the promise, or changes nothing it speaks of.
LEMMA NextPromise ==
  PromiseInv /\ [FenceNext]_fenceVars => [Promise!Next]_(Promise!promiseVars)
<1>1. CASE PromiseInv /\ FenceNext
  <2>1. FenceTypeOK /\ FenceTypeOK'
    BY <1>1, NextTypeOK DEF PromiseInv, FenceInv
  <2>2. \A d \in Deliveries : Quiet(d) \/ Arms(d) \/ Decides(d)
    BY <1>1, NextSteps DEF Step
  <2> QED
    BY <2>1, <2>2, StepsOfThePromise
<1>2. CASE UNCHANGED fenceVars
  BY <1>2 DEF fenceVars, Promise!promiseVars, PhaseOf
<1> QED
  BY <1>1, <1>2

\* The three tables implement the promise: whatever leases, expiries, recoveries,
\* settlements and decisions happen in whatever order, work that was dispatched
\* reaches another holder only through an operator's decision.
THEOREM FenceImplementsPromise == FenceSpec => ImplementsPromise
<1>1. FenceSpec => []PromiseInv
  BY InitPromise, NextPromiseInv, PTL DEF FenceSpec
<1> QED
  BY <1>1, InitPromise, NextPromise, PTL DEF FenceSpec, ImplementsPromise, Promise!Spec

Account == INSTANCE WorkPromiseProofs WITH
    Work <- Deliveries,
    phase <- [d \in Deliveries |-> PhaseOf(d)],
    dispatches <- [d \in Deliveries |-> Cardinality({a \in Attempts : invocation[d][a].armed})],
    decisions <- [d \in Deliveries |-> Cardinality({a \in Attempts : block[d][a] = "requeued"})]

\* Over all its attempts, a delivery is armed at most once more than an operator has
\* requeued it.
THEOREM ArmsArePaidFor == FenceSpec => []Promise!DispatchesArePaidFor
<1>1. ImplementsPromise => []Promise!DispatchesArePaidFor
  BY Account!PromiseKeepsAccount, PTL
  DEF ImplementsPromise, Promise!Spec, Account!Spec, Promise!Init, Account!Init, Promise!Next, Account!Next,
      Promise!promiseVars, Account!promiseVars, Promise!DispatchesArePaidFor, Account!DispatchesArePaidFor,
      Promise!Move, Account!Move, Promise!Moves, Account!Moves, Promise!Dispatch, Account!Dispatch,
      Promise!Decide, Account!Decide, Promise!Phases, Account!Phases
<1> QED
  BY <1>1, FenceImplementsPromise, PTL
====
