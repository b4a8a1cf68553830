# fleetd in TLA+

TLA+ models of fleetd's coordination plane, the TLC configurations that check
them on small instances, and TLAPS proofs about the part everything else rests
on. `PROJECT.json` maps every definition to the source lines it translates and
lists the runs, the hazards and the theorems.

    tlc -workers 2 -config MCSessionOne.cfg MCSessionFence    # a run
    tlapm SessionFenceProofs.tla                              # a proof

## The system

fleetd lets agents exchange work over an ordered message log in one SQLite
database. A daemon owns the HTTP surface, the streams and the reaper. Separate
worker processes take deliveries from an agent's inbox, run them as turns of a
native agent session inside a plugin process, and publish the result.

| part | state | operations | module |
|---|---|---|---|
| message log, channels, members (`kernel/src/store`) | `channels`, `channel_members`, `messages`, read cursors | create, open direct, join, archive, append with an idempotency key, snapshot of deliveries, advance cursor | `MessageLog` |
| inbound triggers (`execution/src/trigger.rs`) | `triggers` | register, retire, fire | `MessageLog` |
| delivery inbox (`kernel/src/delivery.rs`) | `agent_deliveries` | lease, take over an expired lease, acknowledge, retry, block | `DeliveryFence` |
| write-ahead fence (`execution/src/invocation.rs`) | `invocations`, `delivery_blocks` | reserve, arm, complete, recover | `DeliveryFence` |
| settlement (`execution/src/settlement.rs`) | the three tables above, and session turns | claim, settle, resolve a block | `DeliveryFence`, `SessionFence` |
| session bindings (`execution/src/session_binding.rs`) | `session_bindings`, `session_binding_turns` | acquire, adopt, rotate, ready, arm bound, uncertain, retire | `SessionFence` |
| plugin generations (`execution/src/operations.rs`) | `plugin_generations` | start, stop | `SessionFence` |
| managed controller and worker (`execution/src/controller.rs`, `worker.rs`) | what one process remembers between two store calls | one turn, interruption, rotation, crash | `ManagedTurn` |
| message grants (`execution/src/message_grant.rs`) | the broker's mutex and its one grant | activate, publish, revoke | `MessageGrant` |
| commit hints (`execution/src/message_commit_hint.rs`) | datagrams in flight | send, bridge, lose | `ChannelStream` |
| stream grants (`http/src/stream_grant_broker.rs`) | unused grants, active slots, counters | issue, redeem, reserve, release | `ChannelStream` |
| channel streams (`http/src/streams.rs`, `channel_stream.rs`) | a cursor, a page, a bus receiver | subscribe, replay, wake, end | `ChannelStream` |
| stream clients (the TypeScript adapters and acceptance queue) | pending messages, accepted cursor, attempts | receive, accept, reject, reconnect, stop | `ChannelStream` |
| ACP host (`acp-host/src`) | one session, its active turn, pending permissions, the notification channel | open, prompt, update, permission, cancel, terminal, replay | `AcpHost` |
| plugin RPC and client (`plugin-host/src/rpc.rs`, `harness_acp.rs`) | pending calls, the notification buffer, the fence and last event number | call, reply, time out, notify, shut down, kill | `HarnessTurn` |
| turn evidence (`controller.rs`, `operations.rs`) | `invocation_observations`, the drain's local state | record an event, resolve a permission, record the terminal, cancel and drain, settle | `HarnessTurn` |
| transcript command (`src/cli/transcript.rs`) | its entries and report | resume, replay, collect | `HarnessTurn` |
| evidence listings (`execution/src/operations.rs`) | two tables and a collector's cursors | heartbeat, stop, record, page | `EvidencePages` |
| worker supervisor (`src/cli/worker_supervisor.rs`), seat configuration, inference host | seat configurations, the lock, running seats and backends | configure, a pass in its awaited steps, stop, crash | `WorkerSupervisor` |
| author-review workflow (`workflows/author-review`) | the workflow's messages, the runner's input and proposals | claim, evaluate, publish, settle, crash; the agents' answers | `AuthorReview` |

How they meet. An append creates deliveries in the recipients' inboxes. A
worker reserves one (a lease and an invocation row in one transaction), binds it
to a lane's native session, arms it, and only then sends the prompt. While the
turn runs, the harness may publish messages under the turn's grant. Completion
publishes the result message and acknowledges the delivery in one transaction.
If the process dies, the daemon's reaper parks the delivery once the lease has
expired, and an operator requeues or abandons it. Every commit is followed by a
wake that may be lost; streams replay from the durable log. A machine's
supervisor keeps one worker per configured agent, and the author-review runner is
a client of the same log: it takes messages from its inbox and answers with the
effects its plugin proposes.

What is hard about it:

* a worker that stalls past its lease and then goes on, next to its successor;
* the clock is read before the write lock is taken, so an operation may act at a
  time older than rows it finds;
* a crash between any two store calls, in particular after the arm and before
  or after the prompt;
* retries of what has already committed (appends, acknowledgements, firings);
* one transaction of the reaper for all agents: one refusal undoes all of it;
* wakes that are lost, merged or late against a replay that is reading pages;
* resources of a stream that outlive the client that asked for them;
* events numbered in one process and recorded in another, behind two bounded
  channels, by a future that a deadline may drop wherever it is suspended;
* a reconciliation that reads its configurations once and awaits many times;
* an input that is evaluated again after some of its effects were published.

## Modules

**`WorkPromise`** is what a delivery promises: it is absent, waiting, held,
dispatched, parked, done or abandoned, and it returns from parked to waiting only
by an operator's decision. A step may move several deliveries, as a batch does.

**`DeliveryFence`** is the detailed specification of `agent_deliveries`,
`invocations` and `delivery_blocks`. One operation is one transaction, so one
action; an error rolls back and is a stutter. `now` is any value of `Times` in
every action, which covers late transactions and a clock that is set back. An
attempt number stands for the lease token of that attempt, since a token is
written exactly when `attempt` is incremented. `PhaseOf` and the counts of armed
rows and requeued blocks are the refinement mapping of `ImplementsPromise`.

**`SessionFence`** extends it: every operation of the fence is given its
session half (`TurnRecoverable`, `SessionRecoverable` and so on) in the same
action, as the code does it in the same transaction. An owner's fence is its
generation and its epoch. Any caller with that fence may retire an opening, a
ready or an uncertain binding (`retire_session_binding`); a retired row keeps why
it was retired.

**`ManagedTurn`** runs worker processes over `SessionFence`. A process is one
plugin generation with a program counter and its local memory: the invocation,
the owner fence, the cache of opened sessions, and the messages it had seen
before the turn. Two may overlap. Any store call or harness call may fail and
any process may crash anywhere. Workers retire only ready bindings
(`worker.rs:912`), and no other caller retires any. `effects` (prompts sent) and `tainted`
(interrupted sessions) are history variables that no guard reads.

**`MessageLog`** is the kernel's log with channels, memberships, cursors and
triggers. A position in the log is a message's `seq`. Payload, kind, correlation
and causation are one value, compared for equality as idempotency does.

**`MessageGrant`** extends it with the broker of one seat. A publish holds the
mutex from its checks to the end of its append, so it is two actions and
revocation waits between them. A turn that gets no terminal is parked with its
grant still active and revoked after that (`ParkTurn`); a turn that has one is
revoked first. An expired grant refuses a call, which is the call not happening.

**`ChannelStream`** follows one channel from commit to consumer: two kinds of
committer (the daemon's handlers and separate processes), the lossy hint, the
bounded bus with its lag flag, the grant broker's lock sections, the replay and
live task, the wire, and a client with its queue and reconnect delays.

**`AcpHost`** is one ACP plugin process. Its three tasks (the connection's
dispatch loop, the monitor of the prompt, the command loop behind stdio) share
one lock and one bounded channel; each action is one lock section or one send.
The answer to `session/load` and the end of the capture are two steps, since the
task that awaits the answer takes the lock later and the dispatch loop may capture
one more update in between. The inner ACP runtime and the ACP library are external: the library is taken to
run one handler at a time in the order of the frames, and the runtime may report,
ask, end or stay silent as it likes.

**`HarnessTurn`** composes it with the process that uses it, a worker or the
transcript command: the RPC peer and its reader, the fencing client, the
controller's select, drain, cancellation and settlement, and the evidence rows.
The select may drop the drain at every await (`DropDrain` covers a superset of
what the biased select allows). Locks that `emit_terminal` takes once per
permission are one action. `log` (events numbered) and `answered` (permission
answers given) are history variables.

**`EvidencePages`** has the two listings, with the time of a generation's write
bound before the statement waits for the write lock, and a collector.

**`WorkerSupervisor`** is one or more supervisor processes over the durable
configurations. A pass is a sequence of awaits, so it is a sequence of actions:
`list` is what it read at the start, `todo` and `agenda` what it has yet to visit
and to stop. A worker is a task and a backend is a process, which may outlive its
supervisor and keep the port, also when the supervisor dies while it awaits the
start (`StartBackend`, then `BackendAnswers`).

**`AuthorReview`** is the plugin as a function from an input and its history to
proposals, and the runner that publishes them one request at a time. Agents may
answer twice, differently or unreadably. A settlement that the daemon refuses ends
the runner's process (`Stopped`), one that fails in transit does not
(`SettlementFails`), and a stopped runner may be restarted. One runner is modelled,
as the workflow documents; payloads are the identities that the evaluations compare.

`MC*` modules give the constants small values. `DeliveryFenceProofs`,
`WorkPromiseProofs`, `DeliveryPromiseProofs` and `SessionFenceProofs` hold the
proofs.

## Runs

The passing runs reach between 36,448 (`worker_attempts`) and 788,194 distinct
states (`message_log`) and take up to three minutes on two workers. Deadlock is
not checked in any of them, because each system may really stop: everything is
settled, the bounds are used up, or the client has closed.

| run | instance | shows |
|---|---|---|
| `session_attempts` | one delivery, two attempts, clock 0..2, two compatible generations on a lane, two binding generations, two epochs | a live invocation owns its lease, armed work is not redispatched without a decision, a blocked delivery has one open block; lanes, turns and invocations never contradict each other; resolution meets no state it refuses; a requeue starts a fresh generation; an uncertain session never serves again |
| `worker_attempts` | two overlapping workers, one delivery and the delivery of its result, two attempts | prompts are paid for, a running turn owns its lane, one result per delivery, recovery meets no session it refuses, the whole stack implements `WorkPromise`, every armed dispatch settles |
| `worker_interrupt` | two workers that rotate the lane, two messages of one conversation | a session runs one turn at a time, worker steps are steps of `SessionFence`, a worker leaves the session it interrupted |
| `message_log` | three agents, two interchangeable channels of either kind, one trigger with two occurrences, two messages | retried appends replay, deliveries are explained by membership, firings are accounted for |
| `message_grant` | two callers, two operations, a budget of one, two attempts, over the live log | the budget is kept, nothing is published after a result, an accepted publish is answered again on retry |
| `channel_stream` | three messages, pages of two, a bus of one, one grant, one slot, a queue of one, one reconnect | acceptance exactly once and in order, no missed wake, exact counters, the consumer catches up |
| `harness_turn` | a worker with one turn and two reports, or two turns and one report, or the transcript command with three entries and a limit of two; channels of one and two; no tool budget | evidence is a prefix of what was observed and has a terminal only when whole; a settled turn is over everywhere; a granted permission is recorded; no permission outlives its turn; a transcript called whole is; every turn settles |
| `worker_supervisor` | two supervisors, two agents, two catalogs, profiles with, without and of no backend, up to three changes and failures | one worker per agent, seats stop before their backend, seats converge to the configuration |
| `author_review` | one child with a revision round, or two children; repeated, differing and unreadable answers, or up to two faults | the parent completes with its children, no effect twice, verdicts are final, replays never diverge, the workflow ends |
| `session_retirement` | the instance of `session_attempts` | violated: third finding |
| `author_exhausted` | two children, both sent back in the only round | violated: first finding |
| `evidence_archive` | two generations, two observations, pages of one, clock 0..2 | violated: second finding |

`ResolutionNeverConflicts` has one exception: a block whose session was retired
explicitly while it was uncertain is refused ("already retired differently",
`session_binding.rs:398`). `TranscriptIsWhole` lets the announced count exceed the
entries by one: an update that the runtime volunteers after its answer may be
captured, counted, and overtaken by the announcement before it is sent. `PublishedBeforeResult` is about turns that settle
with a result.

Why the bounds are enough for the cases that matter. Two attempts give a late
actor of the first and a live actor of the second. A clock of three values has a
time before, at and after the expiry of a lease of one. Batches of
two deliveries are in `worker_interrupt` and in the proofs. Two generations and two
epochs let a lane be both adopted and rotated, and leave one stale fence. Two
processes are the least that overlap. In the stream, pages of two of three
messages leave a page boundary inside the replay; a bus of one overruns on the
second wake; a queue of one overflows on the second message; one reconnect has a
connection before and after. Limits of one make every broker refusal reachable.
The message log has two messages because every one of its properties relates at
most two (a message and a repeat, a message and a later join, an older and a
newer cursor). One turn with two reports has two events in flight through both
channels; two turns have a late event or permission of the first beside the
second. Three changes without a failure reconfigure both seats during a pass; one
or two failures leave an orphan for a successor. Two children are the least whose
verdicts can come in either order, and a fault between any two effects of an input
gives the longer history that its replay sees.

The counters behind `Times`, attempts, generations and epochs are capped in the
guards; the action that would pass a bound is disabled.

### Fairness

* `LiveSpec` in `ManagedTurn` assumes weak fairness of `Reap` alone. The daemon
  runs `run_expired_invocation_reaper` in a loop for as long as it lives, and
  wall time passes every lease. Nothing is assumed of workers or operators.
* `ChannelStream` assumes weak fairness of the daemon's wake and serving steps,
  of the client's receiving, accepting, settling and its ready timer, and of
  noticing a closed socket: tasks of a running executor or event loop. Losses,
  disconnections, restarts, the end of a stream, a user's stop and the other
  clients' use of the broker are not fair. `ConsumerCatchesUp` therefore
  excepts a client that reached its end and messages whose wake was lost.
* `HarnessTurn` assumes only that some enabled step of the host's tasks, the
  worker or the transcript command is taken in the end: the executor runs ready
  tasks and deadlines pass. The runtime owes nothing, the plugin may die.
* `WorkerSupervisor` assumes that a live supervisor takes its steps, a cancelled
  worker drains (its shutdown has a timeout and ends in a kill), a backoff passes
  and an orphaned backend notices the end of its input. Changes and failures are
  bounded, so `SeatsConverge` speaks of what happens after them.
* `AuthorReview` assumes that the runner ticks, that a runner that stopped is
  started again (by its operator or service manager: nothing in the repository
  does), that an expired lease is reclaimed, and that each agent answers its assignment at least once. The last
  is no promise of the code; without it a workflow waits, as it should.

## Findings

Three statements of the documentation do not hold of the code.

1. `author_exhausted`. The workflow contract
   (`docs/contracts/author-review-workflow-draft.md:154`) says that a `revise`
   decision when the rounds are used up "blocks the child and parent". When two
   children are exhausted, the parent's block proposed for the second differs
   from the one already published for the first, the evaluation is refused as
   conflicting before its other proposal is published, and the second child is
   never reported blocked.
2. `evidence_archive`. `docs/OPERATIONS.md:264` says a collector that walks the
   cursor-addressed listings loses no rows. A row that settles in the same
   millisecond as the last row read, with a smaller id, or whose time was read
   before its statement got the write lock, takes its place behind the cursor.

3. `session_retirement`. ADR 0010
   (`docs/adr/0010-durable-session-bindings-and-owner-epochs.md:58`) says that
   when the controller dies after marking a turn uncertain and before parking it,
   "ordinary invocation lease recovery still parks the delivery". Lines 66-70 also
   let an operator retire the uncertain binding, and nothing asks that the delivery
   be parked first. Retirement clears the binding's active invocation, recovery
   then finds a turn that is not the active one and returns a conflict
   (`session_binding.rs:587`), and since recovery is one transaction it does so for
   all agents. `RecoveryNeverConflicts` holds in `worker_attempts`, where only
   workers retire.

### Known divergences

Two more were seen in the models; no run states them.

* `docs/WORKER.md:304` says an interrupted session is retired before the newer
  message is served. Completion and retirement are two transactions; a worker
  that stops between them leaves a ready binding that the next compatible
  generation resumes. `WorkerLeavesInterruptedSession` is about the worker that
  lives on.
* `docs/PROTOCOL.md:112` says that appends of the daemon wake the streams. A
  trigger's firing does not: the daemon's store has no notifier. These are the
  `"silent"` commits of `ChannelStream`, which `UnsentIsAnnounced` and
  `ConsumerCatchesUp` except; the message is sent at the next wake or reconnect.

## Proofs

`DeliveryFenceProofs` proves, for every set of agents, channels, deliveries,
selectors, lease and retry durations, and every bound on attempts and time, from
`DeliveryAssumption` only:

| theorem | property |
|---|---|
| `TypeCorrect` | `FenceTypeOK` |
| `InvariantHolds` | `FenceInv`, the inductive invariant |
| `LeaseIsOwned` | `LiveInvocationOwnsLease` |
| `WorkIsNotRedispatched` | `NoBlindRedispatch` |
| `CertaintyIsHonest` | `ArmedIsNeverNotStarted` |
| `BlocksAreExact` | `BlockedHasOneOpenBlock` |
| `ResultIsUnique` | `OneResultPerDelivery` |
| `SettledRowsAreFinal` | `SettledIsFinal` |
| `AcknowledgementsReplay` | `AcknowledgementReplayStable` |
| `BlocksEndByDecision` | `OnlyOperatorUnblocks` |

`DeliveryAssumption` says that an older message has a smaller number, that a
result is delivered after its cause and belongs to one cause, that durations
and bounds are natural numbers, and that the delivery set is finite.

The argument. Type correctness is inductive by itself. No other invariant is.
That armed work is not redispatched, for example, needs to know what a lease may
be taken from: if the last attempt was armed, its row is pending only after an
operator requeued it, and a leased row's armed invocation is still armed, so
recovery sees it. `AttemptInv` collects what the delivery row and the invocation
and block of one attempt know of each other: the five invariants, and that
attempts after the last have left nothing, that only a terminal invocation has a
certainty, that the mark of an arm is never cleared, and the two facts above.
`FenceInv` is `AttemptInv` for every delivery and attempt, the type invariant,
two facts about single rows (`RowInv`) and that a result's delivery exists only
after the result.

The proof never looks into a record twice. A first group of lemmas says what
each row transition leaves in its columns. A second takes one attempt through
each transition. The step lemmas, one per action, pick the attempt that moves
and leave the others to `OtherAttempt`. The action properties follow from the
same invariant.

`WorkPromiseProofs` proves of the abstract specification that every dispatch
but the first was paid for by a decision (`PromiseKeepsAccount`). Its inductive
invariant says that work that is not dispatched, parked or ended has one
dispatch in hand.

`DeliveryPromiseProofs` proves that the three tables implement that promise
(`FenceImplementsPromise`, the property `ImplementsPromise`), and from both that
every armed attempt but the first of a delivery was paid for by an operator's
decision (`ArmsArePaidFor`). The refinement mapping reads a delivery's phase from
its row and from the invocation of its last attempt, its dispatches from the marks
of the arms, its decisions from the blocks. The phase of a lease and the two counts
are safe only where a leased row has an attempt and the block of that attempt is
not yet written; otherwise parking it could overwrite a requeued decision and the
count would fall. `PromiseInv` adds exactly this to `FenceInv`. One step lemma per
kind of transaction shows that each delivery makes a quiet move, an arm or a
decision. The counts are cardinalities of sets of attempts, so a step that adds one
attempt to such a set adds one to the count.

`SessionFenceProofs` carries this to the specification that the runs check. Every
operation of `SessionFence` is one of `DeliveryFence` on the three tables or leaves
them alone (`SessionsKeepFence`), because the session half only adds guards and
writes tables of its own. So the lease, redispatch and block invariants hold of it
(`SessionsKeepFenceInvariants`), and it implements the promise
(`SessionsImplementPromise`).

Only model-checked: the same promise for the worker stack,
and the refinement `WorkersFollowSessionFence`; what is said of the session tables,
workers, the log, grants, streams, the harness, the supervisor and the workflow;
and the liveness properties, since fairness is out of the prover's reach.

## Not modelled

* The database: that a transaction is atomic and isolated is assumed. Migrations
  and the pool are left out.
* Credentials and authorization. A caller in a model is one the code admits.
* The daemon-wide limits of the grant broker, which have the form of the limits
  per credential; the admission of connections before a grant is read.
* HTTP handlers other than those of streams: each checks its caller and makes
  one store call. Command line, user interfaces, wire types, the vendor plugins
  and the soak tool.
* Names of agents, channels and triggers, whose only role is to be unique.
* The launch of an agent process, its sandbox and its environment; the format of
  frames, events and payloads; restart backoff of a worker.
* The OTLP sink, a bounded queue that may drop and that nothing else reads; the
  seat projection and the health and trajectory reports, which only read.
* The conversation session of the client library, which keeps what a view shows.
* Two runners of one author-review workflow at once, which it does not support.
* A tool call that reaches the message broker in the turn after the one that
  issued it: it carries no invocation, so neither the broker nor a model of it
  can tell.

`PROJECT.json` gives the reason for each part.
