------------------------- MODULE DeliveryFenceProofs -------------------------
(***************************************************************************)
(* Proofs about DeliveryFence for every set of agents, deliveries and      *)
(* selectors, every bound and every clock.                                 *)
(***************************************************************************)
EXTENDS DeliveryFence, TLAPS

\* A row that was never inserted is empty, and the evidence of an acknowledgement
\* is only found in an acknowledged row.
RowInv(r) ==
    /\ r.state = "absent" => r = NoDelivery
    /\ r.settlement = "acknowledged" => r.state = "acknowledged"

\* What delivery row r, and invocation v and block b of attempt a, know of each
\* other.  The first five conjuncts are the invariants of DeliveryFence.  The rest
\* makes them inductive: attempts after the last lease have left nothing; only a
\* terminal invocation has a certainty; the mark of an arm is never cleared; the
\* last attempt, if it was armed, is still armed while its lease stands and was
\* requeued by an operator if the row is pending.
AttemptInv(r, v, b, a) ==
    /\ v.state \in {"reserved", "dispatch_armed"} =>
          r.state = "leased" /\ r.attempt = a /\ r.expires = v.expires
    /\ v.armed /\ r.attempt > a => b = "requeued"
    /\ v.armed => v.certainty # "not_started"
    /\ b = "unresolved" <=> r.state = "blocked" /\ r.attempt = a
    /\ v.result => r.state = "acknowledged" /\ r.attempt = a /\ v.armed
    /\ a > r.attempt => v = NoInvocation /\ b = "none"
    /\ v.state # "terminal" => v.certainty = "none"
    /\ v.state = "dispatch_armed" => v.armed
    /\ v.armed => v.state \in {"dispatch_armed", "terminal"}
    /\ v.armed /\ r.attempt = a =>
          /\ r.state = "leased" => v.state = "dispatch_armed"
          /\ r.state = "pending" => b = "requeued"

\* The delivery of a result exists only after the result.
ReplyFollowsResult ==
    \A d, e \in Deliveries :
        e \in ReplyTo[d] /\ delivery[e].state # "absent" => delivery[d].state = "acknowledged"

\* The inductive invariant.
FenceInv ==
    /\ FenceTypeOK
    /\ \A d \in Deliveries : RowInv(delivery[d])
    /\ \A d \in Deliveries, a \in Attempts :
          AttemptInv(delivery[d], invocation[d][a], block[d][a], a)
    /\ ReplyFollowsResult

-----------------------------------------------------------------------------
(* Rows.  Each lemma says that a row transition keeps the schema and what it  *)
(* leaves in the columns, so that nothing after this section expands a row.   *)

DeliveryStates == {"absent", "pending", "leased", "blocked", "acknowledged", "dead"}
Settlements == {"none", "acknowledged", "retry", "blocked"}
Certainties == {"none", "not_started", "outcome_known", "outcome_unknown"}

LEMMA ZeroIsATime == 0 \in Times /\ 0 \in 0..MaxAttempts
  BY DeliveryAssumption DEF Times

LEMMA LaterIsATime ==
  ASSUME NEW now \in Times, NEW ms \in Nat, now + ms <= MaxTime
  PROVE  now + ms \in Times /\ (ms # 0 => now + ms # 0)
  BY DeliveryAssumption DEF Times

\* mark_acknowledged, mark_retry, mark_blocked.
LEMMA SettledRow ==
  ASSUME NEW r \in DeliveryRow, NEW state \in DeliveryStates, NEW settlement \in Settlements
  PROVE  LET s == Settled(r, state, settlement)
         IN  /\ s \in DeliveryRow
             /\ s.state = state /\ s.attempt = r.attempt /\ s.expires = 0
             /\ s.settled = r.attempt /\ s.settlement = settlement
<1> DEFINE s == Settled(r, state, settlement)
<1>1. s \in DeliveryRow
  BY ZeroIsATime DEF DeliveryRow, Settled, DeliveryStates, Settlements
<1>2. /\ s.state = state /\ s.attempt = r.attempt /\ s.expires = 0
      /\ s.settled = r.attempt /\ s.settlement = settlement
  BY DEF DeliveryRow, Settled
<1> QED
  BY <1>1, <1>2

\* mark_retry also sets available_at_ms.
LEMMA RetriedRow ==
  ASSUME NEW r \in DeliveryRow, NEW at \in Times
  PROVE  LET s == [Settled(r, "pending", "retry") EXCEPT !.available = at]
         IN  /\ s \in DeliveryRow
             /\ s.state = "pending" /\ s.attempt = r.attempt /\ s.expires = 0
             /\ s.settlement = "retry"
<1>1. Settled(r, "pending", "retry") \in DeliveryRow
  BY SettledRow DEF DeliveryStates, Settlements
<1> DEFINE t == Settled(r, "pending", "retry")
           s == [t EXCEPT !.available = at]
<1>2. t.state = "pending" /\ t.attempt = r.attempt /\ t.expires = 0 /\ t.settlement = "retry"
  BY SettledRow DEF DeliveryStates, Settlements
<1> HIDE DEF t
<1>3. t \in DeliveryRow
  BY <1>1 DEF t
<1>4. s \in DeliveryRow /\ s.state = t.state /\ s.attempt = t.attempt /\ s.expires = t.expires
        /\ s.settlement = t.settlement
  BY <1>3 DEF DeliveryRow
<1> QED
  BY <1>2, <1>4 DEF t

\* lease_claimable.
LEMMA LeasedAgainRow ==
  ASSUME NEW r \in DeliveryRow, NEW expires \in Times, r.attempt < MaxAttempts
  PROVE  LET s == Leased(r, expires)
         IN  /\ s \in DeliveryRow
             /\ s.state = "leased" /\ s.attempt = r.attempt + 1 /\ s.expires = expires
             /\ s.settlement = r.settlement
<1> DEFINE s == Leased(r, expires)
<1>1. r.attempt + 1 \in 0..MaxAttempts
  BY DeliveryAssumption DEF DeliveryRow
<1>2. s \in DeliveryRow
  BY <1>1 DEF DeliveryRow, Leased
<1>3. /\ s.state = "leased" /\ s.attempt = r.attempt + 1 /\ s.expires = expires
      /\ s.settlement = r.settlement
  BY DEF DeliveryRow, Leased
<1> QED
  BY <1>2, <1>3

\* resolve_delivery_row, requeue and abandon.
LEMMA RequeuedRow ==
  ASSUME NEW r \in DeliveryRow, NEW at \in Times
  PROVE  LET s == [r EXCEPT !.state = "pending", !.available = at,
                            !.settled = 0, !.settlement = "none"]
         IN  /\ s \in DeliveryRow
             /\ s.state = "pending" /\ s.attempt = r.attempt /\ s.expires = r.expires
             /\ s.settlement = "none"
  BY ZeroIsATime DEF DeliveryRow

LEMMA AbandonedRow ==
  ASSUME NEW r \in DeliveryRow
  PROVE  LET s == [r EXCEPT !.state = "dead", !.settled = 0, !.settlement = "none"]
         IN  /\ s \in DeliveryRow
             /\ s.state = "dead" /\ s.attempt = r.attempt /\ s.expires = r.expires
             /\ s.settlement = "none"
  BY ZeroIsATime DEF DeliveryRow

\* insert_delivery_snapshot.
LEMMA InsertedRow ==
  ASSUME NEW at \in Times
  PROVE  /\ Inserted(at) \in DeliveryRow
         /\ Inserted(at).state = "pending" /\ Inserted(at).attempt = 0
         /\ Inserted(at).expires = 0 /\ Inserted(at).settlement = "none"
  BY ZeroIsATime DEF DeliveryRow, Inserted, NoDelivery

LEMMA EmptyRows ==
  /\ NoDelivery \in DeliveryRow
  /\ NoDelivery.state = "absent" /\ NoDelivery.attempt = 0 /\ NoDelivery.expires = 0
  /\ NoDelivery.settlement = "none"
  /\ NoInvocation \in InvocationRow
  /\ NoInvocation.state = "none" /\ NoInvocation.armed = FALSE
  /\ NoInvocation.certainty = "none" /\ NoInvocation.result = FALSE
  BY ZeroIsATime DEF DeliveryRow, InvocationRow, NoDelivery, NoInvocation

LEMMA Columns ==
  /\ \A r \in DeliveryRow : /\ r.state \in DeliveryStates /\ r.attempt \in 0..MaxAttempts
                            /\ r.expires \in Times /\ r.settlement \in Settlements
  /\ \A v \in InvocationRow : /\ v.state \in {"none", "reserved", "dispatch_armed", "terminal"}
                              /\ v.armed \in BOOLEAN /\ v.result \in BOOLEAN
                              /\ v.expires \in Times /\ v.certainty \in Certainties
  BY DEF DeliveryRow, InvocationRow, DeliveryStates, Settlements, Certainties

\* complete_invocation, and every other way an invocation ends.
LEMMA TerminalRow ==
  ASSUME NEW v \in InvocationRow, NEW certainty \in Certainties
  PROVE  LET t == Terminal(v, certainty)
         IN  /\ t \in InvocationRow
             /\ t.state = "terminal" /\ t.armed = v.armed
             /\ t.certainty = certainty /\ t.result = v.result
<1> DEFINE t == Terminal(v, certainty)
<1>1. t \in InvocationRow
  BY ZeroIsATime DEF InvocationRow, Terminal, Certainties
<1>2. t.state = "terminal" /\ t.armed = v.armed /\ t.certainty = certainty /\ t.result = v.result
  BY DEF InvocationRow, Terminal
<1> QED
  BY <1>1, <1>2

LEMMA TerminalizedRow ==
  ASSUME NEW v \in InvocationRow, NEW certainty \in Certainties
  PROVE  LET t == Terminalized(v, certainty)
         IN  /\ t \in InvocationRow
             /\ t.state \in {"none", "terminal"} /\ t.armed = v.armed /\ t.result = v.result
             /\ v.state \in {"reserved", "dispatch_armed"} =>
                   t.state = "terminal" /\ t.certainty = certainty
             /\ v.state \notin {"reserved", "dispatch_armed"} => t = v
  BY TerminalRow, Columns DEF Terminalized

LEMMA CompletedRow ==
  ASSUME NEW v \in InvocationRow
  PROVE  LET t == [Terminal(v, "outcome_known") EXCEPT !.result = TRUE]
         IN  /\ t \in InvocationRow
             /\ t.state = "terminal" /\ t.armed = v.armed
             /\ t.certainty = "outcome_known" /\ t.result = TRUE
<1> DEFINE u == Terminal(v, "outcome_known")
<1>1. u \in InvocationRow /\ u.state = "terminal" /\ u.armed = v.armed /\ u.certainty = "outcome_known"
  BY TerminalRow DEF Certainties
<1> HIDE DEF u
<1> DEFINE t == [u EXCEPT !.result = TRUE]
<1>2. t \in InvocationRow
  BY <1>1 DEF InvocationRow
<1>3. t.state = u.state /\ t.armed = u.armed /\ t.certainty = u.certainty /\ t.result = TRUE
  BY <1>1 DEF InvocationRow
<1> QED
  BY <1>1, <1>2, <1>3 DEF u

\* arm_invocation.
LEMMA ArmedRow ==
  ASSUME NEW v \in InvocationRow
  PROVE  LET t == [v EXCEPT !.state = "dispatch_armed", !.armed = TRUE]
         IN  /\ t \in InvocationRow
             /\ t.state = "dispatch_armed" /\ t.armed = TRUE /\ t.expires = v.expires
             /\ t.certainty = v.certainty /\ t.result = v.result
  BY DEF InvocationRow

\* reserve_row.
LEMMA ReservedRow ==
  ASSUME NEW expires \in Times
  PROVE  LET t == Reserved(expires)
         IN  /\ t \in InvocationRow
             /\ t.state = "reserved" /\ t.armed = FALSE /\ t.expires = expires
             /\ t.certainty = "none" /\ t.result = FALSE
  BY DEF InvocationRow, NoInvocation, Reserved

-----------------------------------------------------------------------------
(* Types. *)

\* The tables are empty at first.
LEMMA InitTypeOK == FenceInit => FenceTypeOK
  BY EmptyRows DEF FenceInit, FenceTypeOK, BlockState

\* Recovery writes rows the schema allows.
LEMMA RecoveredTypeOK ==
  ASSUME FenceTypeOK, NEW agents, NEW now
  PROVE  /\ RecoveredDelivery(agents, now) \in [Deliveries -> DeliveryRow]
         /\ \A d \in Deliveries : RecoveredDelivery(agents, now)[d].state = "leased"
                                      <=> RecoveredDelivery(agents, now)[d].expires # 0
         /\ RecoveredInvocation(agents, now) \in [Deliveries -> [Attempts -> InvocationRow]]
         /\ RecoveredBlock(agents, now) \in [Deliveries -> [Attempts -> BlockState]]
<1>1. \A d \in Deliveries :
         LET s == Settled(delivery[d], "blocked", "blocked")
         IN  s \in DeliveryRow /\ s.state = "blocked" /\ s.expires = 0
  BY SettledRow DEF FenceTypeOK, DeliveryStates, Settlements
<1>2. RecoveredDelivery(agents, now) \in [Deliveries -> DeliveryRow]
  BY <1>1 DEF RecoveredDelivery, FenceTypeOK
<1>3. \A d \in Deliveries : RecoveredDelivery(agents, now)[d].state = "leased"
                               <=> RecoveredDelivery(agents, now)[d].expires # 0
  BY <1>1 DEF RecoveredDelivery, FenceTypeOK
<1>4. \A v \in InvocationRow : /\ Terminalized(v, "not_started") \in InvocationRow
                               /\ Terminalized(v, "outcome_unknown") \in InvocationRow
  BY TerminalizedRow DEF Certainties
<1>5. RecoveredInvocation(agents, now) \in [Deliveries -> [Attempts -> InvocationRow]]
  BY <1>4 DEF RecoveredInvocation, FenceTypeOK
<1>6. RecoveredBlock(agents, now) \in [Deliveries -> [Attempts -> BlockState]]
  BY DEF RecoveredBlock, FenceTypeOK, BlockState
<1> QED
  BY <1>2, <1>3, <1>5, <1>6

\* Every operation writes rows the schema allows.
LEMMA NextTypeOK == FenceTypeOK /\ [FenceNext]_fenceVars => FenceTypeOK'
<1> SUFFICES ASSUME FenceTypeOK, [FenceNext]_fenceVars PROVE FenceTypeOK'
  OBVIOUS
<1> USE DEF FenceTypeOK
<1>d. \A d \in Deliveries : delivery[d] \in DeliveryRow
  OBVIOUS
<1>i. \A d \in Deliveries, a \in Attempts : invocation[d][a] \in InvocationRow
  OBVIOUS
<1>l. ASSUME NEW agent, NEW batch, NEW ms \in LeaseMs, NEW now \in Times,
             LeaseClaimable(agent, batch, now + ms, now)
      PROVE  /\ delivery' \in [Deliveries -> DeliveryRow]
             /\ \A d \in Deliveries : delivery'[d].state = "leased" <=> delivery'[d].expires # 0
             /\ block' \in [Deliveries -> [Attempts -> BlockState]]
             /\ now + ms \in Times
  <2>1. now + ms \in Times /\ now + ms # 0
    <3>1. now + ms <= MaxTime
      BY <1>l DEF LeaseClaimable
    <3> QED
      BY <3>1, LaterIsATime, DeliveryAssumption
  <2> DEFINE Again(d) == Leased(delivery[d], now + ms)
  <2>2. \A d \in Deliveries : d \in batch =>
           Again(d) \in DeliveryRow /\ Again(d).state = "leased" /\ Again(d).expires = now + ms
    <3>1. \A d \in batch : delivery[d].attempt < MaxAttempts
      BY <1>l DEF LeaseClaimable
    <3> QED
      BY <1>d, <2>1, <3>1, LeasedAgainRow
  <2>3. delivery' = [d \in Deliveries |-> IF d \in batch THEN Again(d)
                                          ELSE RecoveredDelivery({agent}, now)[d]]
    BY <1>l DEF LeaseClaimable
  <2> HIDE DEF Again
  <2>4. block' = RecoveredBlock({agent}, now)
    BY <1>l DEF LeaseClaimable
  <2> QED
    BY <2>1, <2>2, <2>3, <2>4, RecoveredTypeOK
<1>1. ASSUME NEW now \in Times, NEW agent \in Agents, NEW limit, NEW ms \in LeaseMs,
             ClaimDeliveries(agent, limit, ms, now)
      PROVE  FenceTypeOK'
  BY <1>1, <1>l, RecoveredTypeOK DEF ClaimDeliveries
<1>2. ASSUME NEW now \in Times, NEW agent \in Agents, NEW limit, NEW ms \in LeaseMs,
             NEW accepted, ReserveInvocations(agent, accepted, limit, ms, now)
      PROVE  FenceTypeOK'
  <2> DEFINE batch == Batch(agent, accepted, limit, now)
             fresh == Reserved(now + ms)
  <2>1. LeaseClaimable(agent, batch, now + ms, now)
    BY <1>2 DEF ReserveInvocations
  <2>2. fresh \in InvocationRow
    BY <2>1, <1>l, ReservedRow
  <2>3. invocation' = [d \in Deliveries |-> [a \in Attempts |->
           IF d \in batch /\ a = delivery[d].attempt + 1 THEN fresh
           ELSE RecoveredInvocation({agent}, now)[d][a]]]
    BY <1>2 DEF ReserveInvocations
  <2> HIDE DEF batch, fresh
  <2>4. invocation' \in [Deliveries -> [Attempts -> InvocationRow]]
    BY <2>2, <2>3, RecoveredTypeOK
  <2>5. archived' = archived
    BY <1>2 DEF ReserveInvocations
  <2> QED
    BY <2>1, <2>4, <2>5, <1>l
<1>3. ASSUME NEW now \in Times, NEW agents, RecoverAllExpiredInvocations(agents, now)
      PROVE  FenceTypeOK'
  BY <1>3, RecoveredTypeOK DEF RecoverAllExpiredInvocations
<1>4. ASSUME NEW d \in Deliveries, NEW a \in Attempts, NEW now \in Times, ArmInvocation(d, a, now)
      PROVE  FenceTypeOK'
  <2>1. invocation' = [invocation EXCEPT ![d][a] =
                          [invocation[d][a] EXCEPT !.state = "dispatch_armed", !.armed = TRUE]]
    BY <1>4 DEF ArmInvocation, LiveInvocation
  <2>2. [invocation[d][a] EXCEPT !.state = "dispatch_armed", !.armed = TRUE] \in InvocationRow
    BY <1>i, ArmedRow
  <2>3. UNCHANGED <<delivery, block, archived>>
    BY <1>4 DEF ArmInvocation, LiveInvocation
  <2> QED
    BY <2>1, <2>2, <2>3
<1>5. ASSUME NEW d \in Deliveries, NEW a \in Attempts, NEW now \in Times, NEW at \in Times,
             CompleteInvocation(d, a, at, now)
      PROVE  FenceTypeOK'
  <2> DEFINE s == Settled(delivery[d], "acknowledged", "acknowledged")
             t == [Terminal(invocation[d][a], "outcome_known") EXCEPT !.result = TRUE]
  <2>1. s \in DeliveryRow /\ s.state = "acknowledged" /\ s.expires = 0
    BY SettledRow DEF DeliveryStates, Settlements
  <2>2. t \in InvocationRow
    BY CompletedRow
  <2>3. delivery' = [e \in Deliveries |-> IF e = d THEN s
                       ELSE IF e \in ReplyTo[d] THEN Inserted(at) ELSE delivery[e]]
    BY <1>5 DEF CompleteInvocation, LiveInvocation
  <2>4. invocation' = [invocation EXCEPT ![d][a] = t]
    BY <1>5 DEF CompleteInvocation, LiveInvocation
  <2>5. UNCHANGED <<block, archived>>
    BY <1>5 DEF CompleteInvocation, LiveInvocation
  <2> HIDE DEF s, t
  <2> QED
    BY <2>1, <2>2, <2>3, <2>4, <2>5, InsertedRow
<1>s. ASSUME NEW d \in Deliveries, NEW a \in Attempts, NEW s \in DeliveryRow,
             NEW t \in InvocationRow, s.state # "leased", s.expires = 0,
             delivery' = [delivery EXCEPT ![d] = s],
             invocation' = [invocation EXCEPT ![d][a] = t],
             archived' = archived, block' \in [Deliveries -> [Attempts -> BlockState]]
      PROVE  FenceTypeOK'
  BY <1>s
<1>6. ASSUME NEW d \in Deliveries, NEW a \in Attempts, NEW now \in Times,
             AcknowledgeDelivery(d, a, now)
      PROVE  FenceTypeOK'
  <2> DEFINE s == Settled(delivery[d], "acknowledged", "acknowledged")
             t == Terminalized(invocation[d][a], "outcome_known")
  <2>1. s \in DeliveryRow /\ s.state # "leased" /\ s.expires = 0 /\ t \in InvocationRow
    BY SettledRow, TerminalizedRow DEF DeliveryStates, Settlements, Certainties
  <2>2. /\ delivery' = [delivery EXCEPT ![d] = s]
        /\ invocation' = [invocation EXCEPT ![d][a] = t]
        /\ archived' = archived /\ block' = block
    BY <1>6 DEF AcknowledgeDelivery
  <2> HIDE DEF s, t
  <2> QED
    BY <2>1, <2>2, <1>s
<1>7. ASSUME NEW d \in Deliveries, NEW a \in Attempts, NEW now \in Times, BlockDelivery(d, a, now)
      PROVE  FenceTypeOK'
  <2> DEFINE s == Settled(delivery[d], "blocked", "blocked")
             t == Terminalized(invocation[d][a], "outcome_unknown")
  <2>1. s \in DeliveryRow /\ s.state # "leased" /\ s.expires = 0 /\ t \in InvocationRow
    BY SettledRow, TerminalizedRow DEF DeliveryStates, Settlements, Certainties
  <2>2. /\ delivery' = [delivery EXCEPT ![d] = s]
        /\ invocation' = [invocation EXCEPT ![d][a] = t]
        /\ archived' = archived /\ block' = [block EXCEPT ![d][a] = "unresolved"]
    BY <1>7 DEF BlockDelivery
  <2>3. block' \in [Deliveries -> [Attempts -> BlockState]]
    BY <2>2 DEF BlockState
  <2> HIDE DEF s, t
  <2> QED
    BY <2>1, <2>2, <2>3, <1>s
<1>8. ASSUME NEW d \in Deliveries, NEW a \in Attempts, NEW now \in Times, NEW after \in RetryMs,
             RetryDelivery(d, a, after, now)
      PROVE  FenceTypeOK'
  <2> DEFINE s == [Settled(delivery[d], "pending", "retry") EXCEPT !.available = now + after]
             t == Terminalized(invocation[d][a], "not_started")
  <2>1. now + after \in Times
    BY <1>8, LaterIsATime, DeliveryAssumption DEF RetryDelivery, RetryIsSafe
  <2>2. s \in DeliveryRow /\ s.state # "leased" /\ s.expires = 0 /\ t \in InvocationRow
    BY <2>1, RetriedRow, TerminalizedRow DEF Certainties
  <2>3. /\ delivery' = [delivery EXCEPT ![d] = s]
        /\ invocation' = [invocation EXCEPT ![d][a] = t]
        /\ archived' = archived /\ block' = block
    BY <1>8 DEF RetryDelivery, RetryIsSafe
  <2> HIDE DEF s, t
  <2> QED
    BY <2>2, <2>3, <1>s
<1>9. ASSUME NEW d \in Deliveries, NEW a \in Attempts, NEW now \in Times, NEW after \in RetryMs,
             RequeueBlock(d, a, after, now)
      PROVE  FenceTypeOK'
  <2> DEFINE s == [delivery[d] EXCEPT !.state = "pending", !.available = now + after,
                                      !.settled = 0, !.settlement = "none"]
  <2>1. now + after \in Times
    BY <1>9, LaterIsATime, DeliveryAssumption DEF RequeueBlock, Resolvable
  <2>2. s \in DeliveryRow /\ s.state = "pending" /\ s.expires = 0
    <3>1. delivery[d].expires = 0
      BY <1>9 DEF RequeueBlock, Resolvable
    <3> QED
      BY <1>d, <2>1, <3>1, RequeuedRow
  <2>3. /\ delivery' = [delivery EXCEPT ![d] = s]
        /\ block' = [block EXCEPT ![d][a] = "requeued"]
        /\ UNCHANGED <<invocation, archived>>
    BY <1>9 DEF RequeueBlock, Resolvable
  <2> HIDE DEF s
  <2> QED
    BY <2>2, <2>3 DEF BlockState
<1>10. ASSUME NEW d \in Deliveries, NEW a \in Attempts, AbandonBlock(d, a)
       PROVE  FenceTypeOK'
  <2> DEFINE s == [delivery[d] EXCEPT !.state = "dead", !.settled = 0, !.settlement = "none"]
  <2>1. s \in DeliveryRow /\ s.state = "dead" /\ s.expires = 0
    BY <1>10, AbandonedRow DEF AbandonBlock, Resolvable
  <2>2. /\ delivery' = [delivery EXCEPT ![d] = s]
        /\ block' = [block EXCEPT ![d][a] = "abandoned"]
        /\ UNCHANGED <<invocation, archived>>
    BY <1>10 DEF AbandonBlock, Resolvable
  <2> HIDE DEF s
  <2> QED
    BY <2>1, <2>2 DEF BlockState
<1>11. ASSUME NEW d \in Deliveries, NEW at \in Times, InsertDelivery(d, at)
       PROVE  FenceTypeOK'
  BY <1>11, InsertedRow DEF InsertDelivery
<1>12. ASSUME NEW c \in Channels, ArchiveChannel(c)
       PROVE  FenceTypeOK'
  BY <1>12 DEF ArchiveChannel
<1>13. CASE UNCHANGED fenceVars
  BY <1>13 DEF fenceVars
<1> HIDE DEF FenceTypeOK
<1> QED
  BY <1>1, <1>2, <1>3, <1>4, <1>5, <1>6, <1>7, <1>8, <1>9, <1>10, <1>11, <1>12, <1>13
  DEF FenceNext

\* The type invariant of the three tables, for every value of the constants.
THEOREM TypeCorrect == FenceSpec => []FenceTypeOK
  BY InitTypeOK, NextTypeOK, PTL DEF FenceSpec

-----------------------------------------------------------------------------
(* One attempt of one delivery.  Its row r becomes s, its invocation v becomes *)
(* w, its block b becomes c; each lemma is one thing an operation does to it.  *)

LEMMA AttemptNumbers ==
  /\ \A r \in DeliveryRow : r.attempt \in Int /\ r.attempt >= 0
  /\ \A a \in Attempts : a \in Int /\ a >= 1
  BY Columns, DeliveryAssumption DEF Attempts

\* An attempt that was not the last one and does not become it is not touched.
LEMMA OtherAttempt ==
  ASSUME NEW r \in DeliveryRow, NEW s \in DeliveryRow, NEW v, NEW b, NEW a \in Attempts,
         AttemptInv(r, v, b, a), a # r.attempt, a # s.attempt,
         s.attempt = r.attempt \/ s.attempt = r.attempt + 1
  PROVE  AttemptInv(s, v, b, a)
  BY AttemptNumbers, EmptyRows DEF AttemptInv

\* acknowledge_delivery.
LEMMA AcknowledgedAttempt ==
  ASSUME NEW r \in DeliveryRow, NEW s \in DeliveryRow, NEW v \in InvocationRow, NEW b,
         NEW w, NEW a \in Attempts, AttemptInv(r, v, b, a),
         r.state = "leased", r.attempt = a, s.state = "acknowledged", s.attempt = a,
         w = Terminalized(v, "outcome_known")
  PROVE  AttemptInv(s, w, b, a)
  BY AttemptNumbers, TerminalizedRow, Columns DEF AttemptInv, Certainties

\* complete_invocation.
LEMMA CompletedAttempt ==
  ASSUME NEW r \in DeliveryRow, NEW s \in DeliveryRow, NEW v \in InvocationRow, NEW b,
         NEW w, NEW a \in Attempts, AttemptInv(r, v, b, a), v.state = "dispatch_armed",
         r.state = "leased", r.attempt = a, s.state = "acknowledged", s.attempt = a,
         w = [Terminal(v, "outcome_known") EXCEPT !.result = TRUE]
  PROVE  AttemptInv(s, w, b, a)
  BY AttemptNumbers, CompletedRow DEF AttemptInv

\* retry_delivery: only work that was not armed goes back to the inbox.
LEMMA RetriedAttempt ==
  ASSUME NEW r \in DeliveryRow, NEW s \in DeliveryRow, NEW v \in InvocationRow, NEW b,
         NEW w, NEW a \in Attempts, AttemptInv(r, v, b, a), v.state # "dispatch_armed",
         r.state = "leased", r.attempt = a, s.state = "pending", s.attempt = a,
         w = Terminalized(v, "not_started")
  PROVE  AttemptInv(s, w, b, a)
  BY AttemptNumbers, TerminalizedRow, Columns DEF AttemptInv, Certainties

\* block_delivery, and recovery of an expired armed attempt.
LEMMA BlockedAttempt ==
  ASSUME NEW r \in DeliveryRow, NEW s \in DeliveryRow, NEW v \in InvocationRow, NEW b,
         NEW w, NEW a \in Attempts, AttemptInv(r, v, b, a),
         r.state = "leased", r.attempt = a, s.state = "blocked", s.attempt = a,
         w = Terminalized(v, "outcome_unknown")
  PROVE  AttemptInv(s, w, "unresolved", a)
  BY AttemptNumbers, TerminalizedRow, Columns DEF AttemptInv, Certainties

\* Recovery of an expired reservation; its row waits for the next lease.
LEMMA ExpiredReservation ==
  ASSUME NEW r \in DeliveryRow, NEW v \in InvocationRow, NEW b, NEW w, NEW a \in Attempts,
         AttemptInv(r, v, b, a), v.state = "reserved", w = Terminalized(v, "not_started")
  PROVE  AttemptInv(r, w, b, a)
  BY AttemptNumbers, TerminalizedRow, Columns DEF AttemptInv, Certainties

\* arm_invocation.
LEMMA ArmedAttempt ==
  ASSUME NEW r \in DeliveryRow, NEW v \in InvocationRow, NEW b, NEW w, NEW a \in Attempts,
         AttemptInv(r, v, b, a), v.state = "reserved",
         w = [v EXCEPT !.state = "dispatch_armed", !.armed = TRUE]
  PROVE  AttemptInv(r, w, b, a)
<1>1. /\ w.state = "dispatch_armed" /\ w.armed = TRUE /\ w.expires = v.expires
      /\ w.certainty = v.certainty /\ w.result = v.result
  BY ArmedRow
<1>2. r.state = "leased" /\ r.attempt = a /\ r.expires = v.expires /\ ~ v.result
      /\ v.certainty = "none" /\ b # "unresolved"
  BY Columns DEF AttemptInv
<1> QED
  BY <1>1, <1>2, AttemptNumbers DEF AttemptInv

\* The operator's decision on the block of the last attempt.
LEMMA DecidedAttempt ==
  ASSUME NEW r \in DeliveryRow, NEW s \in DeliveryRow, NEW v \in InvocationRow, NEW b, NEW c,
         NEW a \in Attempts, AttemptInv(r, v, b, a), b = "unresolved", s.attempt = r.attempt,
         \/ s.state = "pending" /\ c = "requeued"
         \/ s.state = "dead" /\ c = "abandoned"
  PROVE  AttemptInv(s, v, c, a)
  BY AttemptNumbers DEF AttemptInv

\* A new lease closes the last attempt: it was never armed, or it was requeued.
LEMMA ClosedAttempt ==
  ASSUME NEW r \in DeliveryRow, NEW s \in DeliveryRow, NEW v \in InvocationRow, NEW b,
         NEW a \in Attempts, AttemptInv(r, v, b, a), a = r.attempt,
         r.state \in {"pending", "leased"}, v.state \notin {"reserved", "dispatch_armed"},
         s.state = "leased", s.attempt = r.attempt + 1
  PROVE  AttemptInv(s, v, b, a)
  BY AttemptNumbers DEF AttemptInv

\* and opens the next, with a reservation that expires with the lease or without.
LEMMA OpenedAttempt ==
  ASSUME NEW r \in DeliveryRow, NEW s \in DeliveryRow, NEW v \in InvocationRow, NEW b, NEW w,
         NEW a \in Attempts, AttemptInv(r, v, b, a), a = r.attempt + 1,
         s.state = "leased", s.attempt = a, s.expires \in Times,
         w = v \/ w = Reserved(s.expires)
  PROVE  AttemptInv(s, w, b, a)
<1>1. v = NoInvocation /\ b = "none"
  BY AttemptNumbers DEF AttemptInv
<1>2. /\ w.state = "none" \/ (w.state = "reserved" /\ w.expires = s.expires)
      /\ w.armed = FALSE /\ w.certainty = "none" /\ w.result = FALSE
  BY <1>1, EmptyRows, ReservedRow
<1> QED
  BY <1>1, <1>2, AttemptNumbers DEF AttemptInv

-----------------------------------------------------------------------------
(* Recovery, and the leases that follow it in the same transaction. *)

\* Recovery keeps what every row knows of its attempts, and parks or leaves alone.
LEMMA Recovered ==
  ASSUME FenceInv, NEW agents, NEW now \in Times, NEW d \in Deliveries
  PROVE  LET s == RecoveredDelivery(agents, now)[d]
         IN  /\ RowInv(s) /\ s.attempt = delivery[d].attempt
             /\ s = delivery[d] \/ (delivery[d].state = "leased" /\ s.state = "blocked")
             /\ \A a \in Attempts :
                   AttemptInv(s, RecoveredInvocation(agents, now)[d][a],
                              RecoveredBlock(agents, now)[d][a], a)
<1> DEFINE r == delivery[d]
           s == RecoveredDelivery(agents, now)[d]
<1>1. r \in DeliveryRow /\ RowInv(r) /\ s \in DeliveryRow
  BY RecoveredTypeOK DEF FenceInv, FenceTypeOK
<1>2. \A a \in Attempts : invocation[d][a] \in InvocationRow /\ AttemptInv(r, invocation[d][a], block[d][a], a)
  BY DEF FenceInv, FenceTypeOK
<1>3. CASE d \in Parked(agents, now)
  <2>1. /\ r.state = "leased" /\ AgentOf[d] \in agents /\ r.attempt \in Attempts
        /\ Expired(d, r.attempt, now) /\ invocation[d][r.attempt].state = "dispatch_armed"
    BY <1>3 DEF Parked, Expired
  <2>2. s.state = "blocked" /\ s.attempt = r.attempt /\ s.settlement = "blocked"
    <3>1. s = Settled(r, "blocked", "blocked")
      BY <1>3 DEF RecoveredDelivery
    <3> HIDE DEF s
    <3> QED
      BY <3>1, <1>1, SettledRow DEF DeliveryStates, Settlements
  <2>3. RowInv(s)
    BY <2>2 DEF RowInv
  <2>4. ASSUME NEW a \in Attempts, a # r.attempt
        PROVE  /\ RecoveredInvocation(agents, now)[d][a] = invocation[d][a]
               /\ RecoveredBlock(agents, now)[d][a] = block[d][a]
    BY <2>4 DEF RecoveredInvocation, RecoveredBlock, Expired
  <2>5. /\ RecoveredInvocation(agents, now)[d][r.attempt]
               = Terminalized(invocation[d][r.attempt], "outcome_unknown")
        /\ RecoveredBlock(agents, now)[d][r.attempt] = "unresolved"
    BY <1>3, <2>1 DEF RecoveredInvocation, RecoveredBlock
  <2>6. ASSUME NEW a \in Attempts
        PROVE  AttemptInv(s, RecoveredInvocation(agents, now)[d][a], RecoveredBlock(agents, now)[d][a], a)
    <3> HIDE DEF r, s
    <3>1. CASE a = r.attempt
      BY <3>1, <1>1, <1>2, <2>1, <2>2, <2>5, BlockedAttempt
    <3>2. CASE a # r.attempt
      BY <3>2, <1>1, <1>2, <2>2, <2>4, OtherAttempt
    <3> QED
      BY <3>1, <3>2
  <2> QED
    BY <2>1, <2>2, <2>3, <2>6
<1>4. CASE d \notin Parked(agents, now)
  <2>1. s = r
    BY <1>4 DEF RecoveredDelivery
  <2>2. ASSUME NEW a \in Attempts
        PROVE  AttemptInv(r, RecoveredInvocation(agents, now)[d][a], RecoveredBlock(agents, now)[d][a], a)
    <3>1. RecoveredBlock(agents, now)[d][a] = block[d][a]
      BY <1>4 DEF RecoveredBlock
    <3>2. CASE AgentOf[d] \in agents /\ Expired(d, a, now) /\ invocation[d][a].state = "reserved"
      <4>1. RecoveredInvocation(agents, now)[d][a] = Terminalized(invocation[d][a], "not_started")
        BY <3>2 DEF RecoveredInvocation
      <4> HIDE DEF r
      <4> QED
        BY <1>1, <1>2, <3>1, <3>2, <4>1, ExpiredReservation
    <3>3. CASE ~ (AgentOf[d] \in agents /\ Expired(d, a, now) /\ invocation[d][a].state = "reserved")
      <4>1. RecoveredInvocation(agents, now)[d][a] = invocation[d][a]
        BY <1>4, <3>3 DEF RecoveredInvocation, Parked, Terminalized
      <4> QED
        BY <1>2, <3>1, <4>1
    <3> QED
      BY <3>2, <3>3
  <2> QED
    BY <1>1, <2>1, <2>2
<1> QED
  BY <1>3, <1>4

\* A row that a claim chooses has no invocation that is still live: the claim's own
\* recovery has ended a reservation and parked an armed dispatch.
LEMMA ChosenRow ==
  ASSUME FenceInv, NEW agent, NEW accepted, NEW limit, NEW now \in Times,
         NEW d \in Deliveries, d \in Batch(agent, accepted, limit, now)
  PROVE  /\ RecoveredDelivery({agent}, now)[d] = delivery[d]
         /\ delivery[d].state \in {"pending", "leased"}
         /\ \A a \in Attempts : a = delivery[d].attempt =>
               RecoveredInvocation({agent}, now)[d][a].state \notin {"reserved", "dispatch_armed"}
<1> DEFINE r == delivery[d]
           s == RecoveredDelivery({agent}, now)[d]
<1>1. AgentOf[d] = agent /\ Claimable(s, now)
  BY DEF Batch, Oldest
<1>2. s.state \in {"pending", "leased"} /\ (s.state = "leased" => s.expires <= now)
  BY <1>1 DEF Claimable
<1>3. s = r
  <2> HIDE DEF r, s
  <2> QED
    BY <1>1, <1>2, Recovered DEF r, s
<1>4. ASSUME NEW a \in Attempts, a = r.attempt,
             invocation[d][a].state \in {"reserved", "dispatch_armed"}
      PROVE  Expired(d, a, now)
  <2>1. AttemptInv(r, invocation[d][a], block[d][a], a)
    BY <1>1 DEF FenceInv
  <2>2. r.state = "leased" /\ r.expires = invocation[d][a].expires
    BY <2>1, <1>4 DEF AttemptInv
  <2> QED
    BY <1>2, <1>3, <1>4, <2>2 DEF Expired
<1>5. ASSUME NEW a \in Attempts, a = r.attempt
      PROVE  RecoveredInvocation({agent}, now)[d][a].state \notin {"reserved", "dispatch_armed"}
  <2>1. invocation[d][a] \in InvocationRow
    BY <1>1 DEF FenceInv, FenceTypeOK
  <2>2. \/ RecoveredInvocation({agent}, now)[d][a] = Terminalized(invocation[d][a], "not_started")
        \/ RecoveredInvocation({agent}, now)[d][a] = Terminalized(invocation[d][a], "outcome_unknown")
        \/ /\ RecoveredInvocation({agent}, now)[d][a] = invocation[d][a]
           /\ ~ Expired(d, a, now)
    BY <1>1 DEF RecoveredInvocation
  <2> QED
    BY <1>4, <1>5, <2>1, <2>2, TerminalizedRow DEF Certainties
<1> QED
  BY <1>1, <1>2, <1>3, <1>5

\* The invocations after a lease: recovered, and the new attempts of the batch.
OpensOnly(fresh, agent, batch, now) ==
    \A d \in Deliveries, a \in Attempts :
        \/ invocation'[d][a] = RecoveredInvocation({agent}, now)[d][a]
        \/ d \in batch /\ a = delivery[d].attempt + 1 /\ invocation'[d][a] \in fresh

\* A transaction that recovers and then leases a batch keeps the invariant.  The
\* new attempts of the batch are reservations, or have no invocation at all.
LEMMA LeaseKeepsInv ==
  ASSUME FenceInv, FenceTypeOK', NEW agent, NEW accepted, NEW limit, NEW ms \in LeaseMs,
         NEW now \in Times, NEW batch,
         batch = Batch(agent, accepted, limit, now),
         LeaseClaimable(agent, batch, now + ms, now),
         OpensOnly({}, agent, batch, now) \/ OpensOnly({Reserved(now + ms)}, agent, batch, now)
  PROVE  FenceInv'
<1> DEFINE R(d) == RecoveredDelivery({agent}, now)[d]
           V(d, a) == RecoveredInvocation({agent}, now)[d][a]
           B(d, a) == RecoveredBlock({agent}, now)[d][a]
<1>1. ASSUME NEW d \in Deliveries
      PROVE  /\ RowInv(R(d)) /\ R(d).attempt = delivery[d].attempt
             /\ R(d) = delivery[d] \/ (delivery[d].state = "leased" /\ R(d).state = "blocked")
             /\ \A a \in Attempts : AttemptInv(R(d), V(d, a), B(d, a), a)
  BY Recovered
<1>2. ASSUME NEW d \in Deliveries, d \in batch
      PROVE  /\ R(d) = delivery[d] /\ delivery[d].state \in {"pending", "leased"}
             /\ \A a \in Attempts : a = delivery[d].attempt =>
                   V(d, a).state \notin {"reserved", "dispatch_armed"}
  <2>1. d \in Batch(agent, accepted, limit, now)
    BY <1>2
  <2> QED
    BY <2>1, ChosenRow
<1>3. ASSUME NEW d \in Deliveries
      PROVE  /\ delivery[d] \in DeliveryRow /\ R(d) \in DeliveryRow /\ delivery'[d] \in DeliveryRow
             /\ \A a \in Attempts : V(d, a) \in InvocationRow /\ block'[d][a] = B(d, a)
  <2>1. FenceTypeOK
    BY DEF FenceInv
  <2>2. /\ RecoveredDelivery({agent}, now) \in [Deliveries -> DeliveryRow]
        /\ RecoveredInvocation({agent}, now) \in [Deliveries -> [Attempts -> InvocationRow]]
    BY <2>1, RecoveredTypeOK
  <2>3. block' = RecoveredBlock({agent}, now)
    BY DEF LeaseClaimable
  <2>4. delivery[d] \in DeliveryRow /\ delivery'[d] \in DeliveryRow
    BY <2>1 DEF FenceTypeOK
  <2> QED
    BY <2>2, <2>3, <2>4
<1>4. ASSUME NEW d \in Deliveries, d \notin batch
      PROVE  delivery'[d] = R(d)
  BY <1>4 DEF LeaseClaimable
<1>5. ASSUME NEW d \in Deliveries, d \in batch
      PROVE  /\ delivery'[d].state = "leased" /\ delivery'[d].attempt = delivery[d].attempt + 1
             /\ delivery'[d].expires = now + ms
             /\ delivery'[d].settlement = delivery[d].settlement
  <2>1. now + ms \in Times /\ delivery[d].attempt < MaxAttempts
    <3>1. now + ms <= MaxTime /\ delivery[d].attempt < MaxAttempts
      BY <1>5 DEF LeaseClaimable
    <3> QED
      BY <3>1, LaterIsATime, DeliveryAssumption
  <2>2. delivery'[d] = Leased(delivery[d], now + ms)
    BY <1>5 DEF LeaseClaimable
  <2> QED
    BY <1>3, <2>1, <2>2, LeasedAgainRow
<1> HIDE DEF R, V, B
<1>6. ASSUME NEW d \in Deliveries
      PROVE  RowInv(delivery'[d])
  <2>1. CASE d \in batch
    BY <2>1, <1>1, <1>2, <1>5 DEF RowInv
  <2>2. CASE d \notin batch
    BY <2>2, <1>1, <1>4
  <2> QED
    BY <2>1, <2>2
<1>7. ASSUME NEW d \in Deliveries, NEW a \in Attempts
      PROVE  AttemptInv(delivery'[d], invocation'[d][a], block'[d][a], a)
  <2>1. /\ AttemptInv(R(d), V(d, a), B(d, a), a) /\ block'[d][a] = B(d, a)
        /\ V(d, a) \in InvocationRow /\ R(d) \in DeliveryRow /\ delivery'[d] \in DeliveryRow
    BY <1>1, <1>3
  <2>2. \/ invocation'[d][a] = V(d, a)
        \/ /\ d \in batch /\ a = delivery[d].attempt + 1
           /\ invocation'[d][a] = Reserved(now + ms)
    BY DEF V, OpensOnly
  <2>3. CASE d \notin batch
    BY <2>1, <2>2, <2>3, <1>4
  <2>4. CASE d \in batch
    <3>1. /\ R(d) = delivery[d] /\ R(d).state \in {"pending", "leased"}
          /\ delivery'[d].state = "leased" /\ delivery'[d].attempt = R(d).attempt + 1
          /\ a = R(d).attempt => V(d, a).state \notin {"reserved", "dispatch_armed"}
      BY <2>4, <1>2, <1>5
    <3>2. delivery'[d].expires = now + ms /\ delivery'[d].expires \in Times
      BY <2>1, <2>4, <1>5, Columns
    <3>3. CASE a = R(d).attempt + 1
      <4>1. \/ invocation'[d][a] = V(d, a)
            \/ invocation'[d][a] = Reserved(delivery'[d].expires)
        BY <2>2, <3>2
      <4>2. delivery'[d].attempt = a /\ delivery'[d].state = "leased"
        BY <3>1, <3>3
      <4> DEFINE r == R(d)
                 s == delivery'[d]
                 v == V(d, a)
                 w == invocation'[d][a]
                 b == B(d, a)
      <4>3. /\ r \in DeliveryRow /\ s \in DeliveryRow /\ v \in InvocationRow
            /\ AttemptInv(r, v, b, a) /\ a = r.attempt + 1
            /\ s.state = "leased" /\ s.attempt = a /\ s.expires \in Times
            /\ \/ w = v
               \/ w = Reserved(s.expires)
        BY <2>1, <3>2, <3>3, <4>1, <4>2
      <4>4. block'[d][a] = b
        BY <2>1
      <4> HIDE DEF r, s, v, w, b
      <4>5. AttemptInv(s, w, b, a)
        BY <4>3, OpenedAttempt
      <4> QED
        BY <4>4, <4>5 DEF s, w
    <3>4. CASE a = R(d).attempt
      <4>1. invocation'[d][a] = V(d, a)
        BY <2>1, <2>2, <3>1, <3>4, AttemptNumbers
      <4> QED
        BY <2>1, <3>1, <3>4, <4>1, ClosedAttempt
    <3>5. CASE a # R(d).attempt /\ a # R(d).attempt + 1
      <4>1. invocation'[d][a] = V(d, a)
        BY <2>2, <3>1, <3>5
      <4> QED
        BY <2>1, <3>1, <3>5, <4>1, OtherAttempt
    <3> QED
      BY <3>3, <3>4, <3>5
  <2> QED
    BY <2>3, <2>4
<1>8. ASSUME NEW d \in Deliveries
      PROVE  /\ delivery[d].state = "absent" <=> delivery'[d].state = "absent"
             /\ delivery[d].state = "acknowledged" => delivery'[d].state = "acknowledged"
  BY <1>1, <1>2, <1>4, <1>5
<1>9. ReplyFollowsResult'
  BY <1>8 DEF FenceInv, ReplyFollowsResult
<1> QED
  BY <1>6, <1>7, <1>9 DEF FenceInv

-----------------------------------------------------------------------------
(* The invariant. *)

\* Empty tables contradict nothing.
LEMMA InitInv == FenceInit => FenceInv
<1> SUFFICES ASSUME FenceInit PROVE FenceInv
  OBVIOUS
<1>1. FenceTypeOK
  BY InitTypeOK
<1>2. \A d \in Deliveries : delivery[d] = NoDelivery
  BY DEF FenceInit
<1>3. \A d \in Deliveries, a \in Attempts : invocation[d][a] = NoInvocation /\ block[d][a] = "none"
  BY DEF FenceInit
<1>4. \A d \in Deliveries : RowInv(delivery[d])
  BY <1>2, EmptyRows DEF RowInv
<1>5. \A a \in Attempts : AttemptInv(NoDelivery, NoInvocation, "none", a)
  BY EmptyRows, AttemptNumbers DEF AttemptInv
<1>6. ReplyFollowsResult
  BY <1>2, EmptyRows DEF ReplyFollowsResult
<1> QED
  BY <1>1, <1>2, <1>3, <1>4, <1>5, <1>6 DEF FenceInv

\* A transaction that only touches attempt a of delivery d, its last one.
TouchesOnly(d, a) ==
    /\ \A e \in Deliveries : e # d => delivery'[e] = delivery[e]
    /\ \A e \in Deliveries, b \in Attempts : <<e, b>> # <<d, a>> =>
          invocation'[e][b] = invocation[e][b] /\ block'[e][b] = block[e][b]

LEMMA TouchKeepsInv ==
  ASSUME FenceInv, FenceTypeOK', NEW d \in Deliveries, NEW a \in Attempts, TouchesOnly(d, a),
         delivery[d].attempt = a, delivery'[d].attempt = a,
         delivery[d].state \notin {"absent", "acknowledged"},
         RowInv(delivery'[d]),
         AttemptInv(delivery'[d], invocation'[d][a], block'[d][a], a)
  PROVE  FenceInv'
<1>1. \A e \in Deliveries : RowInv(delivery'[e])
  BY DEF TouchesOnly, FenceInv
<1>2. ASSUME NEW e \in Deliveries, NEW b \in Attempts
      PROVE  AttemptInv(delivery'[e], invocation'[e][b], block'[e][b], b)
  <2>1. CASE e = d /\ b = a
    BY <2>1
  <2>2. CASE e = d /\ b # a
    <3>1. invocation'[d][b] = invocation[d][b] /\ block'[d][b] = block[d][b]
      BY <2>2 DEF TouchesOnly
    <3>2. delivery[d] \in DeliveryRow /\ delivery'[d] \in DeliveryRow
      BY DEF FenceInv, FenceTypeOK
    <3>3. AttemptInv(delivery[d], invocation[d][b], block[d][b], b)
      BY DEF FenceInv
    <3> QED
      BY <2>2, <3>1, <3>2, <3>3, OtherAttempt
  <2>3. CASE e # d
    BY <2>3 DEF TouchesOnly, FenceInv
  <2> QED
    BY <2>1, <2>2, <2>3
<1>3. ReplyFollowsResult'
  BY DEF TouchesOnly, FenceInv, ReplyFollowsResult
<1> QED
  BY <1>1, <1>2, <1>3 DEF FenceInv

\* The delivery of a result that is being published does not exist yet.
LEMMA ReplyIsNew ==
  ASSUME FenceInv, NEW d \in Deliveries, NEW e \in ReplyTo[d], delivery[d].state = "leased"
  PROVE  e \in Deliveries /\ e # d /\ delivery[e] = NoDelivery
<1>1. e \in Deliveries /\ e > d
  BY DeliveryAssumption
<1>2. e # d
  BY <1>1, DeliveryAssumption
<1>3. delivery[e].state = "absent"
  BY <1>1 DEF FenceInv, ReplyFollowsResult
<1> QED
  BY <1>1, <1>2, <1>3 DEF FenceInv, RowInv

\* A row that is inserted finds no attempts.
LEMMA NewRow ==
  ASSUME FenceInv, NEW d \in Deliveries, delivery[d] = NoDelivery, NEW at \in Times
  PROVE  /\ RowInv(Inserted(at))
         /\ \A a \in Attempts : AttemptInv(Inserted(at), invocation[d][a], block[d][a], a)
<1>1. RowInv(Inserted(at))
  BY InsertedRow DEF RowInv
<1>2. \A a \in Attempts : AttemptInv(NoDelivery, invocation[d][a], block[d][a], a)
  BY DEF FenceInv
<1>3. \A a \in Attempts : invocation[d][a] = NoInvocation /\ block[d][a] = "none"
  BY <1>2, EmptyRows, AttemptNumbers DEF AttemptInv
<1> QED
  BY <1>1, <1>3, InsertedRow, EmptyRows, AttemptNumbers DEF AttemptInv

\* complete_invocation keeps the invariant: the input is acknowledged, its result
\* known, and the deliveries of the result are new.
LEMMA CompleteKeepsInv ==
  ASSUME FenceInv, FenceTypeOK', NEW d \in Deliveries, NEW a \in Attempts, NEW now \in Times,
         NEW at \in Times, CompleteInvocation(d, a, at, now)
  PROVE  FenceInv'
<1> DEFINE r == delivery[d]
           s == Settled(r, "acknowledged", "acknowledged")
           w == [Terminal(invocation[d][a], "outcome_known") EXCEPT !.result = TRUE]
<1>1. r \in DeliveryRow /\ invocation[d][a] \in InvocationRow
  BY DEF FenceInv, FenceTypeOK
<1>2. r.state = "leased" /\ r.attempt = a /\ invocation[d][a].state = "dispatch_armed"
  BY DEF CompleteInvocation, HoldsLease, LiveInvocation
<1>3. s \in DeliveryRow /\ s.state = "acknowledged" /\ s.attempt = a
  BY <1>1, <1>2, SettledRow DEF DeliveryStates, Settlements
<1>4. delivery' = [e \in Deliveries |-> IF e = d THEN s
                      ELSE IF e \in ReplyTo[d] THEN Inserted(at) ELSE delivery[e]]
  BY DEF CompleteInvocation, LiveInvocation
<1>5. invocation' = [invocation EXCEPT ![d][a] = w] /\ block' = block
  BY DEF CompleteInvocation, LiveInvocation
<1>6. \A e \in ReplyTo[d] : e \in Deliveries /\ e # d /\ delivery[e] = NoDelivery
  BY <1>2, ReplyIsNew
<1>7. AttemptInv(r, invocation[d][a], block[d][a], a)
  BY DEF FenceInv
<1>8. \A e \in Deliveries, b \in Attempts : <<e, b>> # <<d, a>> => invocation'[e][b] = invocation[e][b]
  BY <1>5 DEF FenceInv, FenceTypeOK
<1>9. invocation'[d][a] = w
  BY <1>5 DEF FenceInv, FenceTypeOK
<1>w. w = [Terminal(invocation[d][a], "outcome_known") EXCEPT !.result = TRUE]
  OBVIOUS
<1> HIDE DEF r, s, w
<1>10. AttemptInv(s, w, block[d][a], a)
  BY <1>1, <1>2, <1>3, <1>7, <1>w, CompletedAttempt
<1>11. ASSUME NEW e \in Deliveries
       PROVE  /\ RowInv(delivery'[e])
              /\ \A b \in Attempts : AttemptInv(delivery'[e], invocation'[e][b], block'[e][b], b)
  <2>1. CASE e = d
    <3>1. delivery'[e] = s
      BY <1>4, <2>1
    <3>2. RowInv(s)
      BY <1>3 DEF RowInv
    <3>3. ASSUME NEW b \in Attempts, b # a
          PROVE  AttemptInv(s, invocation[d][b], block[d][b], b)
      <4>1. AttemptInv(r, invocation[d][b], block[d][b], b)
        BY DEF FenceInv, r
      <4> QED
        BY <1>1, <1>2, <1>3, <3>3, <4>1, OtherAttempt
    <3> QED
      BY <1>5, <1>8, <1>9, <1>10, <2>1, <3>1, <3>2, <3>3
  <2>2. CASE e # d /\ e \in ReplyTo[d]
    BY <1>4, <1>5, <1>6, <1>8, <2>2, NewRow
  <2>3. CASE e # d /\ e \notin ReplyTo[d]
    <3>1. delivery'[e] = delivery[e]
      BY <1>4, <2>3
    <3>2. \A b \in Attempts : invocation'[e][b] = invocation[e][b] /\ block'[e][b] = block[e][b]
      BY <1>5, <1>8, <2>3
    <3> QED
      BY <3>1, <3>2 DEF FenceInv
  <2> QED
    BY <2>1, <2>2, <2>3
<1>12. ReplyFollowsResult'
  <2> SUFFICES ASSUME NEW f \in Deliveries, NEW e \in Deliveries, e \in ReplyTo[f],
                      delivery'[e].state # "absent"
               PROVE  delivery'[f].state = "acknowledged"
    BY DEF ReplyFollowsResult
  <2>1. CASE f = d
    BY <1>3, <1>4, <2>1
  <2>2. CASE f # d
    <3>1. e \notin ReplyTo[d]
      BY <2>2, DeliveryAssumption
    <3>2. delivery[e].state # "absent"
      BY <1>2, <1>4, <3>1 DEF r
    <3>3. delivery[f].state = "acknowledged"
      BY <3>2 DEF FenceInv, ReplyFollowsResult
    <3>4. f \notin ReplyTo[d]
      BY <1>6, <3>3, EmptyRows
    <3> QED
      BY <1>4, <2>2, <3>3, <3>4
  <2> QED
    BY <2>1, <2>2
<1> QED
  BY <1>11, <1>12 DEF FenceInv

\* A settlement of the live lease of delivery d keeps the invariant.
LEMMA SettleKeepsInv ==
  ASSUME FenceInv, FenceTypeOK', NEW d \in Deliveries, NEW a \in Attempts, NEW now \in Times,
         \/ AcknowledgeDelivery(d, a, now)
         \/ BlockDelivery(d, a, now)
         \/ \E after \in RetryMs : RetryDelivery(d, a, after, now)
  PROVE  FenceInv'
<1> DEFINE r == delivery[d]
           v == invocation[d][a]
           b == block[d][a]
<1>1. r \in DeliveryRow /\ v \in InvocationRow /\ AttemptInv(r, v, b, a)
  BY DEF FenceInv, FenceTypeOK
<1>2. r.state = "leased" /\ r.attempt = a
  BY DEF AcknowledgeDelivery, BlockDelivery, RetryDelivery, HoldsLease, RetryIsSafe
<1>3. ASSUME NEW s, NEW w, NEW c,
             delivery' = [delivery EXCEPT ![d] = s],
             invocation' = [invocation EXCEPT ![d][a] = w],
             block' = [block EXCEPT ![d][a] = c],
             s.attempt = a, RowInv(s), AttemptInv(s, w, c, a)
      PROVE  FenceInv'
  <2>1. delivery'[d] = s /\ invocation'[d][a] = w /\ block'[d][a] = c
    BY <1>3 DEF FenceInv, FenceTypeOK
  <2>2. TouchesOnly(d, a)
    BY <1>3 DEF FenceInv, FenceTypeOK, TouchesOnly
  <2> QED
    BY <1>2, <1>3, <2>1, <2>2, TouchKeepsInv
<1>b. block = [block EXCEPT ![d][a] = b]
  BY DEF FenceInv, FenceTypeOK
<1> HIDE DEF b
<1>4. CASE AcknowledgeDelivery(d, a, now)
  <2> DEFINE s == Settled(r, "acknowledged", "acknowledged")
             w == Terminalized(v, "outcome_known")
  <2>1. s \in DeliveryRow /\ s.state = "acknowledged" /\ s.attempt = a
    BY <1>1, <1>2, SettledRow DEF DeliveryStates, Settlements
  <2>2. delivery' = [delivery EXCEPT ![d] = s] /\ invocation' = [invocation EXCEPT ![d][a] = w] /\ block' = block
    BY <1>4 DEF AcknowledgeDelivery
  <2>w. w = Terminalized(v, "outcome_known")
    OBVIOUS
  <2> HIDE DEF s, w, r, v
  <2>3. RowInv(s) /\ AttemptInv(s, w, b, a)
    <3>1. RowInv(s)
      BY <2>1 DEF RowInv
    <3> QED
      BY <1>1, <1>2, <2>1, <2>w, <3>1, AcknowledgedAttempt
  <2> QED
    BY <1>3, <1>b, <2>1, <2>2, <2>3
<1>5. CASE BlockDelivery(d, a, now)
  <2> DEFINE s == Settled(r, "blocked", "blocked")
             w == Terminalized(v, "outcome_unknown")
  <2>1. s \in DeliveryRow /\ s.state = "blocked" /\ s.attempt = a /\ s.settlement = "blocked"
    BY <1>1, <1>2, SettledRow DEF DeliveryStates, Settlements
  <2>2. /\ delivery' = [delivery EXCEPT ![d] = s] /\ invocation' = [invocation EXCEPT ![d][a] = w]
        /\ block' = [block EXCEPT ![d][a] = "unresolved"]
    BY <1>5 DEF BlockDelivery
  <2>w. w = Terminalized(v, "outcome_unknown")
    OBVIOUS
  <2> HIDE DEF s, w, r, v
  <2>3. RowInv(s) /\ AttemptInv(s, w, "unresolved", a)
    <3>1. RowInv(s)
      BY <2>1 DEF RowInv
    <3> QED
      BY <1>1, <1>2, <2>1, <2>w, <3>1, BlockedAttempt
  <2> QED
    BY <1>3, <2>1, <2>2, <2>3
<1>6. ASSUME NEW after \in RetryMs, RetryDelivery(d, a, after, now)
      PROVE  FenceInv'
  <2> DEFINE s == [Settled(r, "pending", "retry") EXCEPT !.available = now + after]
             w == Terminalized(v, "not_started")
  <2>0. now + after \in Times /\ v.state # "dispatch_armed"
    BY <1>6, LaterIsATime, DeliveryAssumption DEF RetryDelivery, RetryIsSafe
  <2>1. s \in DeliveryRow /\ s.state = "pending" /\ s.attempt = a /\ s.settlement = "retry"
    BY <1>1, <1>2, <2>0, RetriedRow
  <2>2. delivery' = [delivery EXCEPT ![d] = s] /\ invocation' = [invocation EXCEPT ![d][a] = w] /\ block' = block
    BY <1>6 DEF RetryDelivery, RetryIsSafe
  <2>w. w = Terminalized(v, "not_started")
    OBVIOUS
  <2> HIDE DEF s, w, r, v
  <2>3. RowInv(s) /\ AttemptInv(s, w, b, a)
    <3>1. RowInv(s)
      BY <2>1 DEF RowInv
    <3> QED
      BY <1>1, <1>2, <2>0, <2>1, <2>w, <3>1, RetriedAttempt
  <2> QED
    BY <1>3, <1>b, <2>1, <2>2, <2>3
<1> QED
  BY <1>4, <1>5, <1>6

\* An operator's decision keeps the invariant.
LEMMA DecisionKeepsInv ==
  ASSUME FenceInv, FenceTypeOK', NEW d \in Deliveries, NEW a \in Attempts,
         \/ \E now \in Times, after \in RetryMs : RequeueBlock(d, a, after, now)
         \/ AbandonBlock(d, a)
  PROVE  FenceInv'
<1> DEFINE r == delivery[d]
           v == invocation[d][a]
<1>1. r \in DeliveryRow /\ v \in InvocationRow /\ AttemptInv(r, v, block[d][a], a)
  BY DEF FenceInv, FenceTypeOK
<1>2. block[d][a] = "unresolved" /\ r.state = "blocked" /\ r.attempt = a
  BY <1>1 DEF AttemptInv, RequeueBlock, AbandonBlock, Resolvable
<1>3. ASSUME NEW s \in DeliveryRow, NEW c,
             delivery' = [delivery EXCEPT ![d] = s], invocation' = invocation,
             block' = [block EXCEPT ![d][a] = c], s.attempt = a, s.settlement = "none",
             \/ s.state = "pending" /\ c = "requeued"
             \/ s.state = "dead" /\ c = "abandoned"
      PROVE  FenceInv'
  <2>1. delivery'[d] = s /\ block'[d][a] = c
    BY <1>3 DEF FenceInv, FenceTypeOK
  <2>2. TouchesOnly(d, a)
    BY <1>3 DEF FenceInv, FenceTypeOK, TouchesOnly
  <2>3. RowInv(s)
    BY <1>3 DEF RowInv
  <2>4. AttemptInv(s, v, c, a)
    <3> HIDE DEF r, v
    <3> QED
      BY <1>1, <1>2, <1>3, DecidedAttempt
  <2>5. invocation'[d][a] = v
    BY <1>3
  <2>6. delivery[d].state = "blocked" /\ delivery[d].attempt = a
    BY <1>2
  <2> HIDE DEF r, v
  <2> QED
    BY <1>3, <2>1, <2>2, <2>3, <2>4, <2>5, <2>6, TouchKeepsInv
<1>4. ASSUME NEW now \in Times, NEW after \in RetryMs, RequeueBlock(d, a, after, now)
      PROVE  FenceInv'
  <2> DEFINE s == [delivery[d] EXCEPT !.state = "pending", !.available = now + after,
                                      !.settled = 0, !.settlement = "none"]
  <2>1. now + after \in Times
    BY <1>4, LaterIsATime, DeliveryAssumption DEF RequeueBlock, Resolvable
  <2>2. s \in DeliveryRow /\ s.state = "pending" /\ s.attempt = a /\ s.settlement = "none"
    BY <1>1, <1>2, <2>1, RequeuedRow
  <2>3. /\ delivery' = [delivery EXCEPT ![d] = s] /\ invocation' = invocation
        /\ block' = [block EXCEPT ![d][a] = "requeued"]
    BY <1>4 DEF RequeueBlock, Resolvable
  <2> HIDE DEF s, r, v
  <2> QED
    BY <1>3, <2>2, <2>3
<1>5. CASE AbandonBlock(d, a)
  <2> DEFINE s == [delivery[d] EXCEPT !.state = "dead", !.settled = 0, !.settlement = "none"]
  <2>1. s \in DeliveryRow /\ s.state = "dead" /\ s.attempt = a /\ s.settlement = "none"
    BY <1>1, <1>2, AbandonedRow
  <2>2. /\ delivery' = [delivery EXCEPT ![d] = s] /\ invocation' = invocation
        /\ block' = [block EXCEPT ![d][a] = "abandoned"]
    BY <1>5 DEF AbandonBlock, Resolvable
  <2> HIDE DEF s, r, v
  <2> QED
    BY <1>3, <2>1, <2>2
<1> QED
  BY <1>4, <1>5

\* Every operation keeps the invariant.
LEMMA NextInv == FenceInv /\ [FenceNext]_fenceVars => FenceInv'
<1> SUFFICES ASSUME FenceInv, [FenceNext]_fenceVars PROVE FenceInv'
  OBVIOUS
<1>t. FenceTypeOK /\ FenceTypeOK'
  BY NextTypeOK DEF FenceInv
<1>1. ASSUME NEW now \in Times, NEW agent \in Agents, NEW limit, NEW ms \in LeaseMs,
             ClaimDeliveries(agent, limit, ms, now)
      PROVE  FenceInv'
  <2> DEFINE batch == Batch(agent, Deliveries, limit, now)
  <2>1. LeaseClaimable(agent, batch, now + ms, now)
    BY <1>1 DEF ClaimDeliveries
  <2>2. OpensOnly({}, agent, batch, now)
    BY <1>1 DEF ClaimDeliveries, OpensOnly
  <2>3. batch = Batch(agent, Deliveries, limit, now)
    OBVIOUS
  <2> HIDE DEF batch
  <2> QED
    BY <1>t, <2>1, <2>2, <2>3, LeaseKeepsInv
<1>2. ASSUME NEW now \in Times, NEW agent \in Agents, NEW limit, NEW ms \in LeaseMs,
             NEW accepted, ReserveInvocations(agent, accepted, limit, ms, now)
      PROVE  FenceInv'
  <2> DEFINE batch == Batch(agent, accepted, limit, now)
  <2>1. LeaseClaimable(agent, batch, now + ms, now)
    BY <1>2 DEF ReserveInvocations
  <2>2. invocation' = [d \in Deliveries |-> [a \in Attempts |->
               IF d \in batch /\ a = delivery[d].attempt + 1
               THEN Reserved(now + ms)
               ELSE RecoveredInvocation({agent}, now)[d][a]]]
    BY <1>2 DEF ReserveInvocations
  <2>3. batch = Batch(agent, accepted, limit, now)
    OBVIOUS
  <2> HIDE DEF batch
  <2>4. OpensOnly({Reserved(now + ms)}, agent, batch, now)
    BY <2>2 DEF OpensOnly
  <2> QED
    BY <1>t, <2>1, <2>3, <2>4, LeaseKeepsInv
<1>3. ASSUME NEW now \in Times, NEW agents, RecoverAllExpiredInvocations(agents, now)
      PROVE  FenceInv'
  <2>1. /\ delivery' = RecoveredDelivery(agents, now)
        /\ invocation' = RecoveredInvocation(agents, now)
        /\ block' = RecoveredBlock(agents, now)
    BY <1>3 DEF RecoverAllExpiredInvocations
  <2>2. ASSUME NEW d \in Deliveries
        PROVE  /\ RowInv(delivery'[d])
               /\ \A a \in Attempts : AttemptInv(delivery'[d], invocation'[d][a], block'[d][a], a)
               /\ \/ delivery'[d] = delivery[d]
                  \/ delivery[d].state = "leased" /\ delivery'[d].state = "blocked"
    BY <2>1, Recovered
  <2>3. ReplyFollowsResult'
    BY <2>2 DEF FenceInv, ReplyFollowsResult
  <2> QED
    BY <1>t, <2>2, <2>3 DEF FenceInv
<1>4. ASSUME NEW d \in Deliveries, NEW a \in Attempts, NEW now \in Times, ArmInvocation(d, a, now)
      PROVE  FenceInv'
  <2> DEFINE v == invocation[d][a]
             w == [v EXCEPT !.state = "dispatch_armed", !.armed = TRUE]
  <2>1. invocation' = [invocation EXCEPT ![d][a] = w] /\ UNCHANGED <<delivery, block>>
    BY <1>4 DEF ArmInvocation, LiveInvocation
  <2>2. invocation'[d][a] = w /\ delivery'[d] = delivery[d] /\ block'[d][a] = block[d][a]
    BY <1>t, <2>1 DEF FenceTypeOK
  <2>3. TouchesOnly(d, a)
    BY <1>t, <2>1 DEF FenceTypeOK, TouchesOnly
  <2>4. /\ delivery[d] \in DeliveryRow /\ v \in InvocationRow /\ RowInv(delivery[d])
        /\ AttemptInv(delivery[d], v, block[d][a], a)
    BY <1>t DEF FenceInv, FenceTypeOK
  <2>5. v.state = "reserved" /\ delivery[d].state = "leased" /\ delivery[d].attempt = a
    BY <1>4 DEF ArmInvocation, HoldsLease, LiveInvocation
  <2>w. w = [v EXCEPT !.state = "dispatch_armed", !.armed = TRUE]
    OBVIOUS
  <2> HIDE DEF v, w
  <2>6. AttemptInv(delivery[d], w, block[d][a], a)
    BY <2>4, <2>5, <2>w, ArmedAttempt
  <2> QED
    BY <1>t, <2>2, <2>3, <2>4, <2>5, <2>6, TouchKeepsInv
<1>5. ASSUME NEW d \in Deliveries, NEW at \in Times, InsertDelivery(d, at)
      PROVE  FenceInv'
  <2>1. delivery[d] = NoDelivery /\ \A e \in Deliveries : d \notin ReplyTo[e]
    BY <1>5 DEF InsertDelivery, FenceInv, RowInv
  <2>2. delivery' = [delivery EXCEPT ![d] = Inserted(at)] /\ UNCHANGED <<invocation, block>>
    BY <1>5 DEF InsertDelivery
  <2>3. delivery'[d] = Inserted(at) /\ \A e \in Deliveries : e # d => delivery'[e] = delivery[e]
    BY <1>t, <2>2 DEF FenceTypeOK
  <2>4. \A e \in Deliveries :
           /\ RowInv(delivery'[e])
           /\ \A b \in Attempts : AttemptInv(delivery'[e], invocation'[e][b], block'[e][b], b)
    <3>1. RowInv(Inserted(at)) /\ \A b \in Attempts : AttemptInv(Inserted(at), invocation[d][b], block[d][b], b)
      BY <2>1, NewRow
    <3> QED
      BY <2>2, <2>3, <3>1 DEF FenceInv
  <2>5. ReplyFollowsResult'
    <3>1. delivery[d].state # "acknowledged"
      BY <2>1, EmptyRows
    <3> QED
      BY <2>1, <2>3, <3>1 DEF FenceInv, ReplyFollowsResult
  <2> QED
    BY <1>t, <2>4, <2>5 DEF FenceInv
<1>6. ASSUME UNCHANGED <<delivery, invocation, block>>
      PROVE  FenceInv'
  BY <1>t, <1>6 DEF FenceInv, ReplyFollowsResult
<1>7. CASE FenceNext
  BY <1>1, <1>2, <1>3, <1>4, <1>5, <1>6, <1>7, <1>t, CompleteKeepsInv, SettleKeepsInv,
     DecisionKeepsInv DEF FenceNext, ArchiveChannel
<1> QED
  BY <1>6, <1>7 DEF fenceVars

\* The three tables never contradict one another.
THEOREM InvariantHolds == FenceSpec => []FenceInv
  BY InitInv, NextInv, PTL DEF FenceSpec

-----------------------------------------------------------------------------
(* What follows from it. *)

\* A reservation or an armed dispatch always owns the current lease of its delivery
\* and expires with it, so exactly one settlement or recovery can end it.
THEOREM LeaseIsOwned == FenceSpec => []LiveInvocationOwnsLease
<1>1. FenceInv => LiveInvocationOwnsLease
  BY DEF FenceInv, AttemptInv, LiveInvocationOwnsLease
<1> QED
  BY <1>1, InvariantHolds, PTL

\* No expiry, crash, retry or late call hands out work whose armed dispatch has no
\* known outcome: claim_deliveries, reserve_invocations and retry_delivery only
\* open an attempt after an operator requeued the armed one.
THEOREM WorkIsNotRedispatched == FenceSpec => []NoBlindRedispatch
<1>1. FenceInv => NoBlindRedispatch
  BY DEF FenceInv, AttemptInv, NoBlindRedispatch
<1> QED
  BY <1>1, InvariantHolds, PTL

\* Work that was armed is never recorded as not started.
THEOREM CertaintyIsHonest == FenceSpec => []ArmedIsNeverNotStarted
<1>1. FenceInv => ArmedIsNeverNotStarted
  BY DEF FenceInv, AttemptInv, ArmedIsNeverNotStarted
<1> QED
  BY <1>1, InvariantHolds, PTL

\* The operator's list of blocks is exact: a parked delivery has one open block, that
\* of its last attempt, and no other delivery has any.
THEOREM BlocksAreExact == FenceSpec => []BlockedHasOneOpenBlock
<1>1. FenceInv => BlockedHasOneOpenBlock
  BY DEF FenceInv, AttemptInv, BlockedHasOneOpenBlock
<1> QED
  BY <1>1, InvariantHolds, PTL

\* complete_invocation publishes at most one result per delivery, and the delivery
\* is acknowledged with it.
THEOREM ResultIsUnique == FenceSpec => []OneResultPerDelivery
<1>1. FenceInv => OneResultPerDelivery
  BY DEF FenceInv, AttemptInv, OneResultPerDelivery
<1> QED
  BY <1>1, InvariantHolds, PTL

-----------------------------------------------------------------------------
(* What a step may never do. *)

\* A row that changes was not settled; if it was parked, its block is decided.
RowMoves(d) ==
    \/ delivery'[d] = delivery[d]
    \/ delivery[d].state \in {"absent", "pending", "leased"}
    \/ /\ delivery[d].state = "blocked"
       /\ \/ delivery'[d].state = "pending" /\ block'[d][delivery[d].attempt] = "requeued"
          \/ delivery'[d].state = "dead" /\ block'[d][delivery[d].attempt] = "abandoned"

LEMMA StepMovesRows ==
  ASSUME FenceInv, [FenceNext]_fenceVars, NEW d \in Deliveries
  PROVE  RowMoves(d)
<1>t. FenceTypeOK
  BY DEF FenceInv
<1>l. ASSUME NEW now \in Times, NEW agent, NEW accepted, NEW limit, NEW expires,
             LeaseClaimable(agent, Batch(agent, accepted, limit, now), expires, now)
      PROVE  RowMoves(d)
  <2>1. CASE d \in Batch(agent, accepted, limit, now)
    <3>1. delivery[d].state \in {"pending", "leased"}
      BY <2>1, ChosenRow
    <3> QED
      BY <3>1 DEF RowMoves
  <2>2. CASE d \notin Batch(agent, accepted, limit, now)
    <3>1. delivery'[d] = RecoveredDelivery({agent}, now)[d]
      BY <1>l, <2>2 DEF LeaseClaimable
    <3> QED
      BY <3>1, Recovered DEF RowMoves
  <2> QED
    BY <2>1, <2>2
<1>1. ASSUME NEW now \in Times, NEW agent \in Agents, NEW limit, NEW ms \in LeaseMs,
             \/ ClaimDeliveries(agent, limit, ms, now)
             \/ \E accepted \in Selectors : ReserveInvocations(agent, accepted, limit, ms, now)
      PROVE  RowMoves(d)
  BY <1>1, <1>l DEF ClaimDeliveries, ReserveInvocations
<1>2. ASSUME NEW now \in Times, NEW agents, RecoverAllExpiredInvocations(agents, now)
      PROVE  RowMoves(d)
  BY <1>2, Recovered DEF RecoverAllExpiredInvocations, RowMoves
<1>3. ASSUME NEW e \in Deliveries, NEW a \in Attempts, NEW now \in Times, NEW at \in Times,
             CompleteInvocation(e, a, at, now)
      PROVE  RowMoves(d)
  <2>1. delivery[e].state = "leased"
    BY <1>3 DEF CompleteInvocation, HoldsLease, LiveInvocation
  <2>2. CASE d = e
    BY <2>1, <2>2 DEF RowMoves
  <2>3. CASE d \in ReplyTo[e]
    BY <2>1, <2>3, ReplyIsNew, EmptyRows DEF RowMoves
  <2>4. CASE d # e /\ d \notin ReplyTo[e]
    BY <1>3, <2>4 DEF CompleteInvocation, RowMoves, LiveInvocation
  <2> QED
    BY <2>2, <2>3, <2>4
<1>4. ASSUME NEW e \in Deliveries, NEW a \in Attempts, NEW now \in Times,
             \/ AcknowledgeDelivery(e, a, now)
             \/ BlockDelivery(e, a, now)
             \/ \E after \in RetryMs : RetryDelivery(e, a, after, now)
      PROVE  RowMoves(d)
  <2>1. delivery[e].state = "leased"
    BY <1>4 DEF AcknowledgeDelivery, BlockDelivery, RetryDelivery, HoldsLease, RetryIsSafe
  <2>2. d # e => delivery'[d] = delivery[d]
    BY <1>4, <1>t DEF AcknowledgeDelivery, BlockDelivery, RetryDelivery, FenceTypeOK, RetryIsSafe
  <2> QED
    BY <2>1, <2>2 DEF RowMoves
<1>5. ASSUME NEW e \in Deliveries, NEW a \in Attempts,
             \/ \E now \in Times, after \in RetryMs : RequeueBlock(e, a, after, now)
             \/ AbandonBlock(e, a)
      PROVE  RowMoves(d)
  <2>1. delivery[e].state = "blocked" /\ block[e][a] = "unresolved"
    BY <1>5 DEF RequeueBlock, AbandonBlock, Resolvable
  <2>2. delivery[e].attempt = a
    <3>1. AttemptInv(delivery[e], invocation[e][a], block[e][a], a)
      BY DEF FenceInv
    <3> QED
      BY <2>1, <3>1 DEF AttemptInv
  <2>3. CASE d # e
    BY <1>5, <1>t, <2>3 DEF RequeueBlock, AbandonBlock, FenceTypeOK, RowMoves, Resolvable
  <2>4. CASE d = e
    <3>0. delivery[e] \in DeliveryRow
      BY <1>t DEF FenceTypeOK
    <3>1. ASSUME NEW now \in Times, NEW after \in RetryMs, RequeueBlock(e, a, after, now)
          PROVE  delivery'[e].state = "pending" /\ block'[e][a] = "requeued"
      <4>1. delivery' = [delivery EXCEPT ![e] = [delivery[e] EXCEPT !.state = "pending",
                !.available = now + after, !.settled = 0, !.settlement = "none"]]
        BY <3>1 DEF RequeueBlock, Resolvable
      <4>2. block' = [block EXCEPT ![e][a] = "requeued"]
        BY <3>1 DEF RequeueBlock, Resolvable
      <4>4. delivery'[e] = [delivery[e] EXCEPT !.state = "pending",
                !.available = now + after, !.settled = 0, !.settlement = "none"]
        BY <1>t, <4>1 DEF FenceTypeOK
      <4>5. block'[e][a] = "requeued"
        BY <1>t, <4>2 DEF FenceTypeOK
      <4>6. delivery'[e].state = "pending"
        BY <3>0, <4>4 DEF DeliveryRow
      <4> QED
        BY <4>5, <4>6
    <3>2. ASSUME AbandonBlock(e, a)
          PROVE  delivery'[e].state = "dead" /\ block'[e][a] = "abandoned"
      <4>1. delivery' = [delivery EXCEPT ![e] = [delivery[e] EXCEPT !.state = "dead",
                !.settled = 0, !.settlement = "none"]]
        BY <3>2 DEF AbandonBlock, Resolvable
      <4>2. block' = [block EXCEPT ![e][a] = "abandoned"]
        BY <3>2 DEF AbandonBlock, Resolvable
      <4>3. delivery'[e] = [delivery[e] EXCEPT !.state = "dead", !.settled = 0, !.settlement = "none"]
        BY <1>t, <4>1 DEF FenceTypeOK
      <4>4. block'[e][a] = "abandoned"
        BY <1>t, <4>2 DEF FenceTypeOK
      <4>5. delivery'[e].state = "dead"
        BY <3>0, <4>3 DEF DeliveryRow
      <4> QED
        BY <4>4, <4>5
    <3> QED
      BY <1>5, <2>1, <2>2, <2>4, <3>1, <3>2 DEF RowMoves
  <2> QED
    BY <2>3, <2>4
<1>6. ASSUME NEW e \in Deliveries, NEW at \in Times, InsertDelivery(e, at)
      PROVE  RowMoves(d)
  BY <1>6, <1>t DEF InsertDelivery, FenceTypeOK, RowMoves
<1>7. ASSUME UNCHANGED delivery
      PROVE  RowMoves(d)
  BY <1>7 DEF RowMoves
<1>8. ASSUME NEW e \in Deliveries, NEW a \in Attempts, NEW now \in Times, ArmInvocation(e, a, now)
      PROVE  UNCHANGED delivery
  BY <1>8 DEF ArmInvocation, LiveInvocation
<1>9. ASSUME NEW c \in Channels, ArchiveChannel(c)
      PROVE  UNCHANGED delivery
  BY <1>9 DEF ArchiveChannel
<1>10. CASE FenceNext
  BY <1>1, <1>2, <1>3, <1>4, <1>5, <1>6, <1>7, <1>8, <1>9, <1>10 DEF FenceNext
<1> QED
  BY <1>7, <1>10 DEF fenceVars

\* No late settlement, recovery, resolution or lease moves a row out of acknowledged
\* or dead.
THEOREM SettledRowsAreFinal == FenceSpec => SettledIsFinal
<1>1. FenceInv /\ [FenceNext]_fenceVars =>
        [\A d \in Deliveries :
          delivery[d].state \in {"acknowledged", "dead"} => delivery'[d].state = delivery[d].state]_fenceVars
  BY StepMovesRows DEF RowMoves
<1> QED
  BY <1>1, InvariantHolds, PTL DEF FenceSpec, SettledIsFinal

\* The evidence with which settle_miss answers a replay of an acknowledgement is
\* never overwritten.
THEOREM AcknowledgementsReplay == FenceSpec => AcknowledgementReplayStable
<1>1. FenceInv /\ [FenceNext]_fenceVars =>
        [\A d \in Deliveries :
          delivery[d].settlement = "acknowledged" =>
              delivery'[d].settlement = "acknowledged" /\ delivery'[d].settled = delivery[d].settled]_fenceVars
  BY StepMovesRows DEF RowMoves, FenceInv, RowInv
<1> QED
  BY <1>1, InvariantHolds, PTL DEF FenceSpec, AcknowledgementReplayStable

\* A delivery leaves blocked only in the transaction that records the operator's
\* decision on the block of its last attempt.
THEOREM BlocksEndByDecision == FenceSpec => OnlyOperatorUnblocks
<1>1. FenceInv /\ [FenceNext]_fenceVars =>
        [\A d \in Deliveries :
          delivery[d].state = "blocked" /\ delivery'[d].state # "blocked" =>
              LET a == delivery[d].attempt
              IN  \/ delivery'[d].state = "pending" /\ block'[d][a] = "requeued"
                  \/ delivery'[d].state = "dead" /\ block'[d][a] = "abandoned"]_fenceVars
  BY StepMovesRows DEF RowMoves
<1> QED
  BY <1>1, InvariantHolds, PTL DEF FenceSpec, OnlyOperatorUnblocks
====
