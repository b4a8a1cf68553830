---------------------------- MODULE MessageGrant ----------------------------
(***************************************************************************)
(* The invocation-scoped grant under which a running turn publishes        *)
(* messages (crates/execution/src/message_grant.rs), between the steps of  *)
(* the managed turn that arms and revokes it (controller.rs), over the     *)
(* message log.                                                            *)
(*                                                                         *)
(* One seat, so one broker: one mutex around one optional grant, lost with *)
(* the process.  A publish holds the mutex from its checks through its     *)
(* append, which is why the two halves of it are two actions.  Whether the *)
(* grant has expired is the clock's choice: an expired grant refuses the   *)
(* call, which changes nothing.                                            *)
(***************************************************************************)
EXTENDS MessageLog

CONSTANTS
    Seat,          \* the agent of the turn
    Callers,       \* tool calls of the harness that may be in flight at once
    Operations,    \* operation ids the harness chooses
    MaxPublished,  \* MAX_MESSAGES_PER_INVOCATION
    MaxAttempts    \* bound: attempts of one delivery

ASSUME GrantAssumption ==
    /\ Seat \in Agents
    /\ MaxPublished \in Nat \ {0}
    /\ MaxAttempts \in Nat \ {0}

VARIABLES
    attempts,  \* per delivery of the seat, how many turns were armed
    turn,      \* where the controller is: phase, and the delivery it works on
    grant,     \* MessageBrokerInner.active
    call       \* per caller, the accepted publish whose append is outstanding

grantVars == <<attempts, turn, grant, call>>
vars == <<channel, member, log, delivered, trigger, attempts, turn, grant, call>>

NoTurn == [phase |-> "idle", source |-> 0, attempt |-> 0]
NoGrant == [source |-> 0, attempt |-> 0, published |-> 0, operations |-> {}]
NoCall == [operation |-> "none", message |-> <<>>]

PublishKey(s, n, op) == <<"publish", s, n, op>>
ResultKey(s, n) == <<"result", s, n>>

Init ==
    /\ LogInit
    /\ attempts = [s \in Seqs |-> 0]
    /\ turn = NoTurn
    /\ grant = NoGrant
    /\ call = [k \in Callers |-> NoCall]

\* The broker's mutex is free.
Unlocked == \A k \in Callers : call[k] = NoCall

Completed(s) == \E r \in DOMAIN log, n \in 1..MaxAttempts : log[r].key = ResultKey(s, n)

-----------------------------------------------------------------------------
\* The controller.

\* The invocation is armed: no earlier attempt completed the delivery.
ArmTurn(s) ==
    /\ turn = NoTurn
    /\ <<s, Seat>> \in delivered
    /\ ~Completed(s)
    /\ attempts[s] < MaxAttempts
    /\ attempts' = [attempts EXCEPT ![s] = @ + 1]
    /\ turn' = [phase |-> "armed", source |-> s, attempt |-> attempts[s] + 1]
    /\ UNCHANGED <<grant, call, channel, member, log, delivered, trigger>>

\* activate: under the mutex, and only if no grant is active.
ActivateGrant ==
    /\ turn.phase = "armed"
    /\ Unlocked
    /\ grant = NoGrant
    /\ grant' = [source |-> turn.source, attempt |-> turn.attempt,
                 published |-> 0, operations |-> {}]
    /\ turn' = [turn EXCEPT !.phase = "running"]
    /\ UNCHANGED <<attempts, call, channel, member, log, delivered, trigger>>

\* await_terminal gave up on the turn and parked its delivery (or failed to), and its
\* grant is still active.
ParkTurn ==
    /\ turn.phase = "running"
    /\ turn' = [turn EXCEPT !.phase = "parked"]
    /\ UNCHANGED <<attempts, grant, call, channel, member, log, delivered, trigger>>

\* A parked turn ends with its revocation; one that has a terminal, or that failed to
\* start, is settled or parked after it.
Revoked == IF turn.phase = "parked" THEN NoTurn ELSE [turn EXCEPT !.phase = "revoked"]

\* Mutant: revocation does not wait for an accepted publish.
RevokeAtOnce ==
    /\ turn.phase \in {"running", "parked"}
    /\ grant' = NoGrant
    /\ turn' = Revoked
    /\ UNCHANGED <<attempts, call, channel, member, log, delivered, trigger>>

\* revoke_grants: deactivate takes the mutex, so it waits for an accepted publish.
RevokeGrant ==
    /\ turn.phase \in {"running", "parked"}
    /\ Unlocked
    /\ grant' = NoGrant
    /\ turn' = Revoked
    /\ UNCHANGED <<attempts, call, channel, member, log, delivered, trigger>>

\* The turn's result is appended to the channel of its message, for its sender.
CompleteTurn(content) ==
    /\ turn.phase = "revoked"
    /\ InsertMessage(Message(log[turn.source].channel, Seat, log[turn.source].sender,
                             ResultKey(turn.source, turn.attempt), content))
    /\ turn' = NoTurn
    /\ UNCHANGED <<attempts, grant, call, channel, member, trigger>>

\* The turn ends without a result and without a grant: activation was refused, the
\* start failed, or the terminal cannot be settled.
BlockTurn ==
    /\ turn.phase \in {"armed", "revoked"}
    /\ turn' = NoTurn
    /\ UNCHANGED <<attempts, grant, call, channel, member, log, delivered, trigger>>

\* The process dies: what is in memory is gone, an outstanding append with it.
Crash ==
    /\ turn # NoTurn
    /\ turn' = NoTurn
    /\ grant' = NoGrant
    /\ call' = [k \in Callers |-> NoCall]
    /\ UNCHANGED <<attempts, channel, member, log, delivered, trigger>>

-----------------------------------------------------------------------------
\* The harness.

\* The budget check: an operation that succeeded before is not charged again.
WithinBudgetOnly(op) == grant.published < MaxPublished
WithinBudget(op) == op \in grant.operations \/ grant.published < MaxPublished

PublishUnlocked(k, op, recipient, content) ==
    /\ call[k] = NoCall
    /\ grant # NoGrant
    /\ recipient # Seat
    /\ WithinBudget(op)
    /\ call' = [call EXCEPT ![k] =
           [operation |-> op,
            message |-> Message(log[grant.source].channel, Seat, recipient,
                                PublishKey(grant.source, grant.attempt, op), content)]]
    /\ UNCHANGED <<attempts, turn, grant, channel, member, log, delivered, trigger>>

\* publish, up to its append: the mutex is taken, the grant admits the call.
AcceptPublish(k, op, recipient, content) ==
    /\ Unlocked
    /\ grant # NoGrant
    /\ recipient # Seat
    /\ WithinBudget(op)
    /\ call' = [call EXCEPT ![k] =
           [operation |-> op,
            message |-> Message(log[grant.source].channel, Seat, recipient,
                                PublishKey(grant.source, grant.attempt, op), content)]]
    /\ UNCHANGED <<attempts, turn, grant, channel, member, log, delivered, trigger>>

\* publish, from its append: a created message is counted, an answered operation
\* is known from now on, and the mutex is released.
CommitPublish(k) ==
    LET m == call[k].message
    IN  /\ call[k] # NoCall
        /\ Answer(m) # 0
        /\ \/ Created(m) /\ InsertMessage(m)
           \/ ~Created(m) /\ UNCHANGED <<log, delivered>>
        /\ grant' = [grant EXCEPT !.published = IF Created(m) THEN @ + 1 ELSE @,
                                   !.operations = @ \cup {call[k].operation}]
        /\ call' = [call EXCEPT ![k] = NoCall]
        /\ UNCHANGED <<attempts, turn, channel, member, trigger>>

\* The append is refused (not a member, archived, key used for another message),
\* or fails.
RefusePublish(k) ==
    /\ call[k] # NoCall
    /\ call' = [call EXCEPT ![k] = NoCall]
    /\ UNCHANGED <<attempts, turn, grant, channel, member, log, delivered, trigger>>

-----------------------------------------------------------------------------
Next ==
    \/ LogNext /\ UNCHANGED grantVars
    \/ \E s \in Seqs : ArmTurn(s)
    \/ ActivateGrant
    \/ ParkTurn
    \/ RevokeGrant
    \/ \E x \in Contents : CompleteTurn(x)
    \/ BlockTurn
    \/ Crash
    \/ \E k \in Callers, op \in Operations, r \in Agents, x \in Contents :
          AcceptPublish(k, op, r, x)
    \/ \E k \in Callers : CommitPublish(k) \/ RefusePublish(k)

Spec == Init /\ [][Next]_vars

-----------------------------------------------------------------------------
\* Properties.

Published(s, n) ==
    {q \in DOMAIN log : \E op \in Operations : log[q].key = PublishKey(s, n, op)}

\* However its calls overlap, an invocation publishes no more messages than its
\* budget, and the active grant counts exactly those in the log (publish holds the
\* mutex from the budget check through the append).
PublishBudget ==
    /\ \A s \in Seqs, n \in 1..MaxAttempts : Cardinality(Published(s, n)) <= MaxPublished
    /\ grant.source # 0 =>
           grant.published = Cardinality(Published(grant.source, grant.attempt))

\* Nothing is published under an invocation after its result: revocation waits for
\* the accepted call, and the controller completes after revocation (deactivate, run).
\* A turn that is parked instead may publish until the revocation that follows.
PublishedBeforeResult ==
    \A s \in Seqs, n \in 1..MaxAttempts, r \in DOMAIN log :
        log[r].key = ResultKey(s, n) => \A q \in Published(s, n) : q < r

\* While a grant is active, repeating an operation that published is admitted and
\* answered with the message it published, the budget spent or not, the channel
\* archived or not (publish: "Repeating an operation_id is idempotent and does not
\* consume budget").
RetriesAreAnswered ==
    \A op \in Operations, q \in DOMAIN log :
        Unlocked /\ log[q].key = PublishKey(grant.source, grant.attempt, op) =>
            WithinBudget(op) /\ Answer(log[q]) = q
=============================================================================
