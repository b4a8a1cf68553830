----------------------------- MODULE ManagedTurn -----------------------------
(***************************************************************************)
(* The continuous worker and its managed controller                        *)
(* (crates/execution/src/worker.rs, controller.rs) as processes over the   *)
(* session and delivery fences, with the operator, the message log and the *)
(* daemon's reaper as their environment.                                   *)
(*                                                                         *)
(* A process is one plugin generation: the worker restarts by starting the *)
(* next one, and nothing keeps two from overlapping (a supervisor that     *)
(* starts a second worker, a worker that stalled).  Between two store      *)
(* calls a process may crash, stall past its lease, or be overtaken; what  *)
(* it uses then is what it remembers: its invocation (job), the owner      *)
(* fence of the turn (held) and the sessions it opened (cache).            *)
(*                                                                         *)
(* Every store call may also fail for a reason of its own, and every       *)
(* harness call may fail.                                                  *)
(***************************************************************************)
EXTENDS SessionFence

VARIABLES
    pc,       \* where the generation is
    job,      \* the reserved invocation it works on
    held,     \* the lane fence <<generation, epoch>> of this turn
    cache,    \* sessions: the fence of each lane it has opened
    seen,     \* interrupt_after_seq: the messages written before the turn
    effects,  \* history: the invocations whose prompt was sent to a harness
    tainted   \* history: the lane, generation and process of interrupted turns

memory == <<job, held, cache, seen>>
history == <<effects, tainted>>
allVars == <<delivery, invocation, block, archived, binding, turn, generation,
             pc, job, held, cache, seen, effects, tainted>>

NoFence == <<0, 0>>
Fences == (Generations \X Epochs) \cup {NoFence}

WorkerInit ==
    /\ Init
    /\ pc = [i \in Instances |-> "off"]
    /\ job = [i \in Instances |-> NoTurn]
    /\ held = [i \in Instances |-> NoFence]
    /\ cache = [i \in Instances |-> [l \in Lanes |-> NoFence]]
    /\ seen = [i \in Instances |-> {}]
    /\ effects = {}
    /\ tainted = {}

Goto(i, from, to) == pc[i] \in from /\ pc' = [pc EXCEPT ![i] = to]

Lane(i) == LaneOf[job[i][1]]

Forget(i) ==
    /\ job' = [job EXCEPT ![i] = NoTurn]
    /\ held' = [held EXCEPT ![i] = NoFence]
    /\ seen' = [seen EXCEPT ![i] = {}]

-----------------------------------------------------------------------------
(* A generation starts, stops, and may crash anywhere. *)

StartGeneration(i) ==
    /\ Goto(i, {"off"}, "idle")
    /\ RecordPluginGeneration(i)
    /\ UNCHANGED <<memory, history>>

\* Cancellation or the turn limit when idle; elsewhere a failed store call, which
\* leaves an unarmed reservation or an armed turn to its lease.
EndGeneration(i) ==
    /\ Goto(i, {"idle", "reserved", "acquired", "opened", "ready", "armed", "running",
                "cancelling", "rotating", "parking"}, "exiting")
    /\ UNCHANGED <<vars, memory, history>>

StopGeneration(i) ==
    /\ Goto(i, {"exiting"}, "gone")
    /\ StopPluginGeneration(i)
    /\ Forget(i)
    /\ cache' = [cache EXCEPT ![i] = [l \in Lanes |-> NoFence]]
    /\ UNCHANGED history

\* The process dies; its generation row stays active, its memory is lost.
Crash(i) ==
    /\ pc[i] # "gone"
    /\ pc' = [pc EXCEPT ![i] = "gone"]
    /\ Forget(i)
    /\ cache' = [cache EXCEPT ![i] = [l \in Lanes |-> NoFence]]
    /\ UNCHANGED <<vars, history>>

-----------------------------------------------------------------------------
(* Before the dispatch. *)

ReserveOne(i, ms, now) ==
    LET batch == Batch(Serves[i], Deliveries, 1, now)
    IN  /\ pc[i] = "idle"
        /\ Reserve(Serves[i], Deliveries, 1, ms, now)
        /\ IF batch = {} THEN UNCHANGED <<pc, job>>
           ELSE \E d \in batch :
                   /\ pc' = [pc EXCEPT ![i] = "reserved"]
                   /\ job' = [job EXCEPT ![i] = <<d, delivery[d].attempt + 1>>]
        /\ UNCHANGED <<held, cache, seen, history>>

UseOpenSession(i) ==
    /\ Goto(i, {"reserved"}, "opened")
    /\ cache[i][Lane(i)] # NoFence
    /\ held' = [held EXCEPT ![i] = cache[i][Lane(i)]]
    /\ UNCHANGED <<vars, job, cache, seen, history>>

\* open_lane acquires the binding; the lane may be its own already.
AcquireLane(i) ==
    /\ Goto(i, {"reserved"}, "acquired")
    /\ cache[i][Lane(i)] = NoFence
    /\ \/ \E g \in Generations :
             /\ AcquireSessionBinding(i, Lane(i), g)
             /\ \E h \in Generations :
                   /\ binding'[Lane(i)][h].owner = i
                   /\ binding'[Lane(i)][h].state \in {"opening", "ready"}
                   /\ held' = [held EXCEPT ![i] = <<h, binding'[Lane(i)][h].epoch>>]
       \/ /\ \E g \in Current(Lane(i)) :
                /\ binding[Lane(i)][g].owner = i
                /\ binding[Lane(i)][g].state \in {"opening", "ready"}
                /\ held' = [held EXCEPT ![i] = <<g, binding[Lane(i)][g].epoch>>]
          /\ UNCHANGED vars
    /\ UNCHANGED <<job, cache, seen, history>>

\* The harness opened the native session; a resumed one is recorded already.
RecordOpened(i) ==
    LET l == Lane(i)
        g == held[i][1]
        e == held[i][2]
    IN  /\ Goto(i, {"acquired"}, "opened")
        /\ \/ RecordSessionOpened(l, g, e)
           \/ OwnerFence(l, g, e) /\ binding[l][g].state = "ready" /\ UNCHANGED vars
        /\ cache' = [cache EXCEPT ![i][l] = held[i]]
        /\ UNCHANGED <<job, held, seen, history>>

\* A refused acquisition continues with the next invocation; an unreadable channel
\* context, a refused message, a failed plugin and everything after the lane was
\* opened end the generation.
ReleasedFrom(to) ==
    IF to = "idle" THEN {"reserved", "acquired"} ELSE {"reserved", "acquired", "opened", "ready"}

\* retry_before_arm waits for the configured delay, a stopping worker for none.
RetryUnarmed(i, after, now) == Retry(job[i][1], job[i][2], after, now)

\* release_or_exit, stop_unarmed: the invocation is given back.
Release(i, to, after, now) ==
    /\ Goto(i, ReleasedFrom(to), to)
    /\ RetryUnarmed(i, after, now)
    /\ Forget(i)
    /\ UNCHANGED <<cache, history>>

\* execute_turn reads the interruption baseline: backlog does not interrupt.
ReadBaseline(i) ==
    /\ Goto(i, {"opened"}, "ready")
    /\ seen' = [seen EXCEPT ![i] = {d \in Deliveries : delivery[d].state # "absent"}]
    /\ UNCHANGED <<vars, job, held, cache, history>>

\* Mutants: the turn goes on although the arm was not committed; the arm uses the
\* owner epoch the lane has now instead of the one that was acquired.
ArmWithoutCommit(i, now) ==
    /\ Goto(i, {"ready"}, "armed")
    /\ HoldsLease(job[i][1], job[i][2], now)
    /\ UNCHANGED <<vars, memory, history>>

ArmUnderCurrentEpoch(i, now) ==
    /\ Goto(i, {"ready"}, "armed")
    /\ ArmSessionInvocation(job[i][1], job[i][2], i, held[i][1],
                            binding[Lane(i)][held[i][1]].epoch, now)
    /\ UNCHANGED <<memory, history>>

ArmTurn(i, now) ==
    /\ Goto(i, {"ready"}, "armed")
    /\ ArmSessionInvocation(job[i][1], job[i][2], i, held[i][1], held[i][2], now)
    /\ UNCHANGED <<memory, history>>

-----------------------------------------------------------------------------
(* After the dispatch was authorised. *)

StartTurn(i) ==
    /\ Goto(i, {"armed"}, "running")
    /\ effects' = effects \cup {job[i]}
    /\ UNCHANGED <<vars, memory, tainted>>

\* execute_turn: what the worker does after each outcome of the managed turn.
AfterTurn == [completed |-> "idle", interrupted |-> "rotating", blocked |-> "exiting"]

\* newest_claimable_delivery_message_after: work of the agent in the turn's channel
\* that was written after the baseline and may be leased now.
NewerClaimable(i, now) ==
    {d \in Deliveries \ seen[i] : /\ AgentOf[d] = Serves[i]
                                  /\ ChannelOf[d] = ChannelOf[job[i][1]]
                                  /\ Claimable(delivery[d], now)}

\* turn_interruption: a poll found a newer message, and the harness is asked to
\* cancel.
NoticeNewerMessage(i, now) ==
    /\ Goto(i, {"running"}, "cancelling")
    /\ NewerClaimable(i, now) # {}
    /\ UNCHANGED <<vars, memory, history>>

\* The terminal evidence is known and quiescent.
CompleteTurn(i, at, now) ==
    /\ Goto(i, {"running"}, AfterTurn.completed)
    /\ CompleteSessionInvocation(job[i][1], job[i][2], held[i][1], held[i][2], at, now)
    /\ Forget(i)
    /\ UNCHANGED <<cache, history>>

InterruptTurn(i, at, now) ==
    /\ Goto(i, {"cancelling"}, AfterTurn.interrupted)
    /\ CompleteSessionInvocation(job[i][1], job[i][2], held[i][1], held[i][2], at, now)
    /\ tainted' = tainted \cup {<<Lane(i), held[i][1], i>>}
    /\ UNCHANGED <<memory, effects>>

\* Mutant: the lane is forgotten and its binding is left to be acquired again.
RotateWithoutRetiring(i, to) ==
    /\ Goto(i, {"rotating"}, to)
    /\ cache' = [cache EXCEPT ![i][Lane(i)] = NoFence]
    /\ Forget(i)
    /\ UNCHANGED <<vars, history>>

\* rotate_interrupted_lane; the native session may fail to close.
RotateLane(i, to) ==
    LET l == Lane(i)
    IN  /\ to \in {"idle", "exiting"}
        /\ Goto(i, {"rotating"}, to)
        /\ RetireSessionBinding(l, held[i][1], held[i][2])
        /\ cache' = [cache EXCEPT ![i][l] = IF to = "idle" THEN NoFence ELSE @]
        /\ Forget(i)
        /\ UNCHANGED history

\* Mutant: ambiguity retires the session instead of fencing it.
RetireAmbiguous(i) ==
    /\ Goto(i, {"armed", "running", "cancelling"}, "parking")
    /\ turn' = turn /\ generation' = generation
    /\ binding' = [binding EXCEPT ![Lane(i)][held[i][1]] = Retired(@, "explicit")]
    /\ UNCHANGED <<fenceVars, memory, history>>

\* Any ambiguity after the arm: a grant or the start failed, the evidence is
\* unknown or incomplete, a cancellation did not drain.  Two transactions: the
\* session is fenced, then the delivery is parked.
FenceSession(i) ==
    /\ Goto(i, {"armed", "running", "cancelling"}, "parking")
    /\ MarkSessionInvocationUncertain(job[i][1], job[i][2], held[i][1], held[i][2])
    /\ UNCHANGED <<memory, history>>

ParkDelivery(i, now) ==
    /\ Goto(i, {"parking"}, AfterTurn.blocked)
    /\ Block(job[i][1], job[i][2], now)
    /\ UNCHANGED <<memory, history>>

-----------------------------------------------------------------------------
WorkerStep(i) ==
    \/ StartGeneration(i) \/ EndGeneration(i) \/ StopGeneration(i)
    \/ \E now \in Times :
          \/ \E ms \in LeaseMs : ReserveOne(i, ms, now)
          \/ \E after \in RetryMs, to \in {"idle", "exiting"} : Release(i, to, after, now)
          \/ ArmTurn(i, now)
          \/ \E at \in Times : CompleteTurn(i, at, now) \/ InterruptTurn(i, at, now)
          \/ NoticeNewerMessage(i, now)
          \/ ParkDelivery(i, now)
    \/ UseOpenSession(i)
    \/ AcquireLane(i)
    \/ RecordOpened(i)
    \/ ReadBaseline(i)
    \/ StartTurn(i)
    \/ \E to \in {"idle", "exiting"} : RotateLane(i, to)
    \/ FenceSession(i)

\* run_expired_invocation_reaper, in the daemon.
Reap == \E now \in Times : RecoverAll(Agents, now) /\ UNCHANGED <<pc, memory, history>>

\* The operator and the message log.
Environment ==
    /\ \/ \E d \in Deliveries, a \in Attempts :
             \/ Abandon(d, a)
             \/ \E after \in RetryMs, now \in Times : Requeue(d, a, after, now)
       \/ \E d \in Deliveries, at \in Times : InsertDelivery(d, at) /\ UNCHANGED sessionVars
       \/ \E c \in Channels : ArchiveChannel(c) /\ UNCHANGED sessionVars
    /\ UNCHANGED <<pc, memory, history>>

WorkerNext ==
    \/ \E i \in Instances : WorkerStep(i) \/ Crash(i)
    \/ Reap
    \/ Environment

WorkerSpec == WorkerInit /\ [][WorkerNext]_allVars

\* The daemon repeats the reaper's loop for ever, and the clock passes every lease.
\* Nothing is assumed of the workers: all of them may crash.
LiveSpec == WorkerSpec /\ WF_allVars(Reap)

-----------------------------------------------------------------------------
(* Properties. *)

RetiresOnlyReady ==
    \A l \in Lanes, g \in Generations :
        binding[l][g].reason # "explicit" /\ binding'[l][g].reason = "explicit"
            => binding[l][g].state = "ready"

\* Every step of the workers is one the session fence allows, and they explicitly
\* retire a binding only when it is ready: the interrupted turn has completed, and no
\* other generation can have armed a turn under the same fence.  The store itself also
\* accepts the retirement of an uncertain binding.
WorkersFollowSessionFence == Spec /\ [][RetiresOnlyReady]_vars

\* Prompts are sent at most once per operator decision, however generations
\* crash, stall, overlap and restart.
PromptsArePaidFor ==
    \A d \in Deliveries :
        Cardinality({a \in Attempts : <<d, a>> \in effects})
            <= Cardinality({a \in Attempts : block[d][a] = "requeued"}) + 1

\* A generation that waits for its turn and has not been fenced off owns the lane
\* the turn runs on, although an arm never names its owner: a cached fence that
\* another generation has overtaken cannot be armed.
RunningTurnOwnsLane ==
    \A i \in Instances :
        pc[i] \in {"armed", "running", "cancelling"} =>
            LET d == job[i][1]
                a == job[i][2]
            IN  turn[d][a].state = "active" =>
                    /\ binding[Lane(i)][turn[d][a].generation].owner = i
                    /\ binding[Lane(i)][turn[d][a].generation].active = job[i]

\* A generation never prompts again in a session whose turn it interrupted for a
\* newer message: it retires the binding and forgets the lane first.
WorkerLeavesInterruptedSession ==
    \A i \in Instances :
        pc[i] \in {"armed", "running", "cancelling"} => <<Lane(i), held[i][1], i>> \notin tainted

\* Every armed dispatch is settled: if nobody completes or blocks it, the reaper
\* parks it once its lease has expired, whatever became of its controller.
EveryArmedDispatchSettles ==
    \A d \in Deliveries, a \in Attempts :
        invocation[d][a].state = "dispatch_armed" ~> invocation[d][a].state = "terminal"

====
