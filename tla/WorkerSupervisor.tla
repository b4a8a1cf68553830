-------------------------- MODULE WorkerSupervisor --------------------------
(***************************************************************************)
(* The machine supervisor (src/cli/worker_supervisor.rs): it lists the     *)
(* durable seat configurations, checks and starts the inference backends   *)
(* that running seats share, and replaces, starts and stops one worker per *)
(* agent, over and over.  A pass is a sequence of awaited calls: the list  *)
(* is read once and used to the end, while operators write configurations, *)
(* workers end, model servers die and the process itself may go.           *)
(*                                                                         *)
(* A worker is a task of the supervisor process; what it runs is module    *)
(* ManagedTurn.  A backend is a plugin process with a model server, which  *)
(* outlives a killed supervisor until it notices the end of its input.     *)
(***************************************************************************)
EXTENDS Naturals, Sequences, FiniteSets, SequencesExt

CONSTANTS
    AgentOrder,      \* agent identities in the order of the list
    Supervisors,     \* processes that may try to supervise the database
    ProfileIds,      \* profile references an operator may choose
    Catalogs,        \* catalog files; each supervisor reads the same one
    MaxProfiles, MaxBackends,
    Budgets          \* bounds: pairs of operator changes (and shutdowns) and failures

NoBackend == "none"

Agents == ToSet(AgentOrder)

ASSUME SupervisorAssumption ==
    /\ IsInjective(AgentOrder)
    /\ {MaxProfiles, MaxBackends} \subseteq Nat
    /\ Budgets \subseteq Nat \X Nat
    /\ \A c \in Catalogs : \A k \in DOMAIN c.backends : c.backends[k] # NoBackend

VARIABLES
    catalog,    \* [schema, backends, profiles]: the file's two lists, in order
    config,     \* the durable configuration of each agent; revision 0: none
    sup,        \* the supervisor processes
    lock,       \* the holder of the lock beside the database, or "free"
    tasks,      \* every worker ever spawned
    servers,    \* every backend ever started
    changes, faults

vars == <<catalog, config, sup, lock, tasks, servers, changes, faults>>

Within(c, f) == \E b \in Budgets : c <= b[1] /\ f <= b[2]

Fault == Within(changes, faults + 1) /\ faults' = faults + 1

Change == Within(changes + 1, faults) /\ changes' = changes + 1

Configuration(profile, desired, revision) ==
    [profile |-> profile, desired |-> desired, revision |-> revision]

Unconfigured == Configuration("none", "stopped", 0)

\* One supervisor's memory: `running` and `backends` hold positions in tasks and
\* servers, todo is what the current loop has yet to visit, and agenda what it has
\* to stop, in order, before it goes on.
Off ==
    [pc |-> "off", list |-> [a \in Agents |-> Unconfigured],
     running |-> [a \in Agents |-> 0], backends |-> <<>>, backoff |-> {},
     todo |-> <<>>, agenda |-> <<>>]

Task(s, a, revision, profile, server) ==
    [sup |-> s, agent |-> a, revision |-> revision, profile |-> profile,
     server |-> server, state |-> "live", cancelled |-> FALSE]

Server(s, b, state) == [sup |-> s, backend |-> b, state |-> state]

----------------------------------------------------------------------------
(* Durable desired execution: seat_configuration. *)

\* configure: an exact replay leaves the revision as it is.
Configure(a, profile, desired) ==
    LET c == config[a]
    IN /\ c.revision = 0 \/ c.profile # profile \/ c.desired # desired
       /\ config' = [config EXCEPT ![a] = Configuration(profile, desired, c.revision + 1)]

\* restart refuses a seat that is stopped or was never configured.
Restart(a) ==
    /\ config[a].desired = "running"
    /\ config' = [config EXCEPT ![a].revision = @ + 1]

Operate ==
    /\ Change
    /\ \E a \in Agents :
           \/ \E p \in ProfileIds, d \in {"running", "stopped"} : Configure(a, p, d)
           \/ Restart(a)
    /\ UNCHANGED <<catalog, sup, lock, tasks, servers, faults>>

----------------------------------------------------------------------------
(* The catalog. *)

\* load_profile_catalog; schema 1 has no backends.
ValidCatalog(c) ==
    /\ c.schema \in {1, 2}
    /\ c.schema = 1 => c.backends = <<>>
    /\ Len(c.profiles) \in 1..MaxProfiles
    /\ Len(c.backends) <= MaxBackends
    /\ IsInjective(c.backends)
    /\ IsInjective([k \in DOMAIN c.profiles |-> c.profiles[k].id])
    /\ \A k \in DOMAIN c.profiles :
           c.profiles[k].backend \in {NoBackend} \cup ToSet(c.backends)
    /\ c.schema = 1 => \A k \in DOMAIN c.profiles : c.profiles[k].backend = NoBackend

Approved(p) == \E k \in DOMAIN catalog.profiles : catalog.profiles[k].id = p

BackendOf(p) ==
    catalog.profiles[CHOOSE k \in DOMAIN catalog.profiles : catalog.profiles[k].id = p].backend

\* desired_backend_ids
DesiredBackends(list) ==
    {BackendOf(list[a].profile) : a \in {b \in Agents :
        list[b].desired = "running" /\ Approved(list[b].profile)}} \ {NoBackend}

Init ==
    /\ catalog \in Catalogs
    /\ config = [a \in Agents |-> Unconfigured]
    /\ sup = [s \in Supervisors |-> Off]
    /\ lock = "free"
    /\ tasks = <<>> /\ servers = <<>>
    /\ changes = 0 /\ faults = 0

----------------------------------------------------------------------------
(* One process: supervise_workers, up to the loop. *)

\* Mutant: nobody asks who supervises this database.
LockAvailable(s) == TRUE

\* acquire_supervisor_lock does not wait.
AcquireLock(s) == lock = "free"

StartSupervisor(s) ==
    /\ sup[s].pc = "off"
    /\ ValidCatalog(catalog)
    /\ AcquireLock(s)
    /\ lock' = s
    /\ sup' = [sup EXCEPT ![s] = [Off EXCEPT !.pc = "list"]]
    /\ UNCHANGED <<catalog, config, tasks, servers, changes, faults>>

RunningBackend(s, b) ==
    LET own == {i \in ToSet(sup[s].backends) : servers[i].backend = b}
    IN IF own = {} THEN 0 ELSE CHOOSE i \in own : TRUE

\* Backends and seats in the order of the maps that hold them.
BackendSeq(set) == SelectSeq(catalog.backends, LAMBDA b : b \in set)

SeatStops(s, agents) ==
    LET stopped == SelectSeq(AgentOrder,
                       LAMBDA a : a \in agents /\ sup[s].running[a] # 0)
    IN [k \in DOMAIN stopped |-> [kind |-> "seat", agent |-> stopped[k]]]

BackendStops(list) == [k \in DOMAIN list |-> [kind |-> "backend", backend |-> list[k]]]

RunningBackends(s) == {servers[i].backend : i \in ToSet(sup[s].backends)}

----------------------------------------------------------------------------
(* reconcile: one read of the configurations, then three loops. *)

List(s) ==
    /\ sup[s].pc = "list"
    /\ sup' = [sup EXCEPT ![s] =
                  [@ EXCEPT !.pc = "health", !.list = config,
                            !.todo = BackendSeq(RunningBackends(s) \cap DesiredBackends(config))]]
    /\ UNCHANGED <<catalog, config, lock, tasks, servers, changes, faults>>

\* The read fails: the error ends the process without a drain.
ListFails(s) ==
    /\ sup[s].pc = "list"
    /\ Fault
    /\ sup' = [sup EXCEPT ![s].pc = "unwind"]
    /\ UNCHANGED <<catalog, config, lock, tasks, servers, changes>>

\* A server of the same backend, left by an earlier supervisor, holds the port.
PortTaken(b) ==
    \E j \in DOMAIN servers : servers[j].backend = b /\ servers[j].state = "orphan"

\* is_ready: the server the plugin started has not exited and its route answers.  A
\* server that could not take its port has not served yet: the one that holds it may
\* answer in its place.
Ready(i) ==
    \/ servers[i].state = "up"
    \/ servers[i].state = "shadowed" /\ PortTaken(servers[i].backend)

Users(s, i) ==
    {a \in Agents : sup[s].running[a] # 0 /\ tasks[sup[s].running[a]].server = i}

\* Mutant: the backend goes first.
StopFailedBackendFirst(s, b) ==
    BackendStops(<<b>>) \o SeatStops(s, Users(s, RunningBackend(s, b)))

\* stop_seats_using_backend, then stop_backend.
StopFailedBackend(s, b) ==
    SeatStops(s, Users(s, RunningBackend(s, b))) \o BackendStops(<<b>>)

Proceed(s) == sup[s].agenda = <<>>

\* health: a request may also time out.
Health(s, b, answer) ==
    \/ answer = "ok" /\ Ready(RunningBackend(s, b))
    \/ answer = "failed" /\ ~Ready(RunningBackend(s, b))

CheckHealth(s) ==
    /\ sup[s].pc = "health" /\ Proceed(s) /\ sup[s].todo # <<>>
    /\ LET b == Head(sup[s].todo)
           Failed == [sup EXCEPT ![s] = [@ EXCEPT !.todo = Tail(@),
                                                  !.agenda = StopFailedBackend(s, b)]]
       IN \/ /\ Health(s, b, "ok")
             /\ sup' = [sup EXCEPT ![s].todo = Tail(@)]
             /\ UNCHANGED faults
          \/ Health(s, b, "failed") /\ sup' = Failed /\ UNCHANGED faults
          \/ Health(s, b, "ok") /\ Fault /\ sup' = Failed
    /\ UNCHANGED <<catalog, config, lock, tasks, servers, changes>>

HealthChecked(s) ==
    /\ sup[s].pc = "health" /\ Proceed(s) /\ sup[s].todo = <<>>
    /\ sup' = [sup EXCEPT ![s] =
                  [@ EXCEPT !.pc = "start",
                            !.todo = SetToSeq(DesiredBackends(sup[s].list))]]
    /\ UNCHANGED <<catalog, config, lock, tasks, servers, changes, faults>>

\* A backend that neither runs nor waits is started: from here its process exists.
StartBackend(s) ==
    /\ sup[s].pc = "start" /\ sup[s].todo # <<>>
    /\ LET b == Head(sup[s].todo)
       IN \/ /\ RunningBackend(s, b) # 0 \/ b \in sup[s].backoff
             /\ sup' = [sup EXCEPT ![s].todo = Tail(@)]
             /\ UNCHANGED servers
          \/ /\ RunningBackend(s, b) = 0 /\ b \notin sup[s].backoff
             /\ b \notin ToSet(catalog.backends)
             /\ sup' = [sup EXCEPT ![s].pc = "panic"]
             /\ UNCHANGED servers
          \/ /\ RunningBackend(s, b) = 0 /\ b \notin sup[s].backoff
             /\ b \in ToSet(catalog.backends)
             /\ servers' = Append(servers, Server(s, b, IF PortTaken(b) THEN "shadowed" ELSE "up"))
             /\ sup' = [sup EXCEPT ![s].pc = "starting"]
    /\ UNCHANGED <<catalog, config, lock, tasks, changes, faults>>

\* The process whose start is awaited: the last one, for only the supervisor that
\* holds the lock starts any.
Starting(s) == IF sup[s].pc = "starting" THEN {Len(servers)} ELSE {}

\* start_backend returns: the backend described itself, or the start failed, which
\* leaves no process and waits before the next try.
BackendAnswers(s) ==
    /\ \E i \in Starting(s) :
          LET b == servers[i].backend
              Started(backends, backoff) ==
                  [sup EXCEPT ![s] = [@ EXCEPT !.pc = "start", !.todo = Tail(@),
                                               !.backends = backends, !.backoff = backoff]]
          IN \/ /\ Ready(i)
                /\ sup' = Started(Append(sup[s].backends, i), sup[s].backoff \ {b})
                /\ UNCHANGED <<servers, faults>>
             \/ /\ IF servers[i].state = "up" THEN Fault ELSE UNCHANGED faults
                /\ sup' = Started(sup[s].backends, sup[s].backoff \cup {b})
                /\ servers' = Front(servers)
    /\ UNCHANGED <<catalog, config, lock, tasks, changes>>

\* reconcile_seats begins with the seats whose configuration is gone.
BackendsStarted(s) ==
    /\ sup[s].pc = "start" /\ sup[s].todo = <<>>
    /\ sup' = [sup EXCEPT ![s] =
          [@ EXCEPT !.pc = "seats",
                    !.todo = SelectSeq(AgentOrder, LAMBDA a : sup[s].list[a].revision # 0),
                    !.agenda = SeatStops(s, {a \in Agents : sup[s].list[a].revision = 0})]]
    /\ UNCHANGED <<catalog, config, lock, tasks, servers, changes, faults>>

\* What the configuration asks for cannot or must not run now.
MustStop(s, a) ==
    LET c == sup[s].list[a]
    IN \/ c.desired = "stopped"
       \/ ~Approved(c.profile)
       \/ /\ Approved(c.profile) /\ BackendOf(c.profile) # NoBackend
          /\ RunningBackend(s, BackendOf(c.profile)) = 0

\* Mutant: a seat counts as current while its profile is the same.
SameProfile(s, a) ==
    /\ sup[s].running[a] # 0
    /\ tasks[sup[s].running[a]].profile = sup[s].list[a].profile
    /\ tasks[sup[s].running[a]].state = "live"

CurrentMatches(s, a) ==
    LET c == sup[s].list[a]
        t == tasks[sup[s].running[a]]
    IN /\ sup[s].running[a] # 0
       /\ t.revision = c.revision
       /\ (IF t.server = 0 THEN NoBackend ELSE servers[t.server].backend) = BackendOf(c.profile)
       /\ t.state = "live"

StopOrKeepSeat(s) ==
    /\ sup[s].pc = "seats" /\ Proceed(s) /\ sup[s].todo # <<>>
    /\ LET a == Head(sup[s].todo)
       IN \/ /\ MustStop(s, a)
             /\ sup' = [sup EXCEPT ![s] = [@ EXCEPT !.todo = Tail(@),
                                                    !.agenda = SeatStops(s, {a})]]
          \/ /\ ~MustStop(s, a) /\ CurrentMatches(s, a)
             /\ sup' = [sup EXCEPT ![s].todo = Tail(@)]
          \/ /\ ~MustStop(s, a) /\ ~CurrentMatches(s, a) /\ sup[s].running[a] # 0
             /\ sup' = [sup EXCEPT ![s].agenda = SeatStops(s, {a})]
    /\ UNCHANGED <<catalog, config, lock, tasks, servers, changes, faults>>

\* instantiate_profile and the spawn of run_loaded_worker.
StartSeat(s) ==
    /\ sup[s].pc = "seats" /\ Proceed(s) /\ sup[s].todo # <<>>
    /\ LET a == Head(sup[s].todo)
           c == sup[s].list[a]
       IN /\ ~MustStop(s, a) /\ sup[s].running[a] = 0
          /\ tasks' = Append(tasks, Task(s, a, c.revision, c.profile,
                                         RunningBackend(s, BackendOf(c.profile))))
          /\ sup' = [sup EXCEPT ![s] = [@ EXCEPT !.todo = Tail(@),
                                                 !.running[a] = Len(tasks) + 1]]
    /\ UNCHANGED <<catalog, config, lock, servers, changes, faults>>

\* stop_unused_backends; the pass is over once they are stopped.
StopUnused(s) ==
    /\ sup[s].pc = "seats" /\ Proceed(s) /\ sup[s].todo = <<>>
    /\ sup' = [sup EXCEPT ![s] =
          [@ EXCEPT !.pc = "unused",
                    !.agenda = BackendStops(BackendSeq(
                                   RunningBackends(s) \ DesiredBackends(sup[s].list)))]]
    /\ UNCHANGED <<catalog, config, lock, tasks, servers, changes, faults>>

----------------------------------------------------------------------------
(* The stops of the agenda. *)

\* stop_seat: cancel, then join.  The task leaves the map first.
CancelSeat(s) ==
    /\ sup[s].agenda # <<>> /\ Head(sup[s].agenda).kind = "seat"
    /\ LET a == Head(sup[s].agenda).agent
           t == sup[s].running[a]
       IN /\ tasks' = [tasks EXCEPT ![t].cancelled = TRUE]
          /\ sup' = [sup EXCEPT ![s] =
                        [@ EXCEPT !.running[a] = 0,
                                  !.agenda = <<[kind |-> "join", task |-> t]>> \o Tail(@)]]
    /\ UNCHANGED <<catalog, config, lock, servers, changes, faults>>

JoinSeat(s) ==
    /\ sup[s].agenda # <<>> /\ Head(sup[s].agenda).kind = "join"
    /\ tasks[Head(sup[s].agenda).task].state # "live"
    /\ sup' = [sup EXCEPT ![s].agenda = Tail(@)]
    /\ UNCHANGED <<catalog, config, lock, tasks, servers, changes, faults>>

\* stop_backend: shut down, or killed when that fails.  A backend that failed waits
\* before it is started again; one that is not used is forgotten.
StopBackend(s) ==
    /\ sup[s].agenda # <<>> /\ Head(sup[s].agenda).kind = "backend"
    /\ LET b == Head(sup[s].agenda).backend
           i == RunningBackend(s, b)
       IN /\ servers' = [servers EXCEPT ![i].state = "stopped"]
          /\ sup' = [sup EXCEPT ![s] =
                        [@ EXCEPT !.agenda = Tail(@), !.backends = SelectSeq(@, LAMBDA j : j # i),
                                  !.backoff = CASE sup[s].pc = "health" -> @ \cup {b}
                                                [] sup[s].pc = "unused" -> @ \ {b}
                                                [] OTHER -> @]]
    /\ UNCHANGED <<catalog, config, lock, tasks, changes, faults>>

\* BACKEND_RESTART_BACKOFF
BackoffPasses(s, b) ==
    /\ b \in sup[s].backoff
    /\ sup' = [sup EXCEPT ![s].backoff = @ \ {b}]
    /\ UNCHANGED <<catalog, config, lock, tasks, servers, changes, faults>>

\* The poll interval passes.
Wake(s) ==
    /\ sup[s].pc = "unused" /\ Proceed(s)
    /\ sup' = [sup EXCEPT ![s].pc = "list"]
    /\ UNCHANGED <<catalog, config, lock, tasks, servers, changes, faults>>

----------------------------------------------------------------------------
(* The ends of a process. *)

\* A signal is seen between two passes: every seat, then every backend.
Shutdown(s) ==
    /\ sup[s].pc = "unused" /\ Proceed(s)
    /\ Change
    /\ sup' = [sup EXCEPT ![s] =
          [@ EXCEPT !.pc = "drain",
                    !.agenda = SeatStops(s, Agents) \o BackendStops(BackendSeq(RunningBackends(s)))]]
    /\ UNCHANGED <<catalog, config, lock, tasks, servers, faults>>

Drained(s) ==
    /\ sup[s].pc = "drain" /\ Proceed(s)
    /\ sup' = [sup EXCEPT ![s] = [Off EXCEPT !.pc = "stopped"]]
    /\ lock' = "free"
    /\ UNCHANGED <<catalog, config, tasks, servers, changes, faults>>

\* After an error the locals are dropped: backends are killed and the lock is free
\* while the tasks, which nobody joins, still run.
Unwind(s) ==
    /\ sup[s].pc = "unwind"
    /\ servers' = [i \in DOMAIN servers |->
                      IF i \in ToSet(sup[s].backends) THEN [servers[i] EXCEPT !.state = "killed"]
                      ELSE servers[i]]
    /\ lock' = "free"
    /\ sup' = [sup EXCEPT ![s] = [Off EXCEPT !.pc = "exit"]]
    /\ UNCHANGED <<catalog, config, tasks, changes, faults>>

Aborted(s) ==
    [t \in DOMAIN tasks |->
        IF tasks[t].sup = s /\ tasks[t].state = "live"
        THEN [tasks[t] EXCEPT !.state = "aborted"] ELSE tasks[t]]

\* The runtime ends with main and its tasks with it.
Exit(s) ==
    /\ sup[s].pc = "exit"
    /\ tasks' = Aborted(s)
    /\ sup' = [sup EXCEPT ![s] = Off]
    /\ UNCHANGED <<catalog, config, lock, servers, changes, faults>>

\* The process is killed: its tasks and its lock go with it, its backends, one that is
\* being started included, do not.
Crash(s) ==
    /\ sup[s].pc \notin {"off", "stopped", "exit"}
    /\ Fault
    /\ tasks' = Aborted(s)
    /\ servers' = [i \in DOMAIN servers |->
                      IF i \in ToSet(sup[s].backends) \cup Starting(s)
                      THEN [servers[i] EXCEPT !.state = IF @ = "up" THEN "orphan" ELSE "killed"]
                      ELSE servers[i]]
    /\ lock' = "free"
    /\ sup' = [sup EXCEPT ![s] = Off]
    /\ UNCHANGED <<catalog, config, changes>>

----------------------------------------------------------------------------
(* Workers and backends on their own. *)

\* run_until drains once cancelled, and returns early on a fatal error.
WorkerDrains(t) ==
    /\ tasks[t].state = "live" /\ tasks[t].cancelled
    /\ tasks' = [tasks EXCEPT ![t].state = "finished"]
    /\ UNCHANGED <<catalog, config, sup, lock, servers, changes, faults>>

WorkerFails(t) ==
    /\ tasks[t].state = "live" /\ ~tasks[t].cancelled
    /\ Fault
    /\ tasks' = [tasks EXCEPT ![t].state = "finished"]
    /\ UNCHANGED <<catalog, config, sup, lock, servers, changes>>

ServerDies(i) ==
    /\ servers[i].state = "up"
    /\ Fault
    /\ servers' = [servers EXCEPT ![i].state = "dead"]
    /\ UNCHANGED <<catalog, config, sup, lock, tasks, changes>>

\* serve: the end of its input stops the plugin and its model server.
OrphanEnds(i) ==
    /\ servers[i].state = "orphan"
    /\ servers' = [servers EXCEPT ![i].state = "stopped"]
    /\ UNCHANGED <<catalog, config, sup, lock, tasks, changes, faults>>

Reconcile(s) ==
    \/ List(s) \/ CheckHealth(s) \/ HealthChecked(s) \/ StartBackend(s)
    \/ BackendAnswers(s) \/ BackendsStarted(s)
    \/ StopOrKeepSeat(s) \/ StartSeat(s) \/ StopUnused(s)
    \/ CancelSeat(s) \/ JoinSeat(s) \/ StopBackend(s)
    \/ Wake(s) \/ Drained(s) \/ Unwind(s) \/ Exit(s)

Next ==
    \/ Operate
    \/ \E s \in Supervisors :
           \/ StartSupervisor(s) \/ Reconcile(s) \/ ListFails(s) \/ Shutdown(s) \/ Crash(s)
           \/ \E b \in ToSet(catalog.backends) : BackoffPasses(s, b)
    \/ \E t \in DOMAIN tasks : WorkerDrains(t) \/ WorkerFails(t)
    \/ \E i \in DOMAIN servers : ServerDies(i) \/ OrphanEnds(i)

Spec == Init /\ [][Next]_vars

\* A process that runs takes its steps, a cancelled worker drains within its
\* timeouts, a backoff passes and an orphan notices the end of its input.
LiveSpec ==
    /\ Spec
    /\ \A s \in Supervisors :
           /\ WF_vars(Reconcile(s))
           /\ WF_vars(\E b \in ToSet(catalog.backends) : BackoffPasses(s, b))
    /\ WF_vars(\E t \in DOMAIN tasks : WorkerDrains(t))
    /\ WF_vars(\E i \in DOMAIN servers : OrphanEnds(i))

----------------------------------------------------------------------------
(* Properties. *)

Live(t) == tasks[t].state = "live"

\* An agent has one worker at a time, whichever passes, replacements, crashes and
\* successors of the supervisor led there (stop_seat joins before the next spawn, the
\* lock excludes a second supervisor).  The one overlap the code leaves is a process
\* that ends on an error: it gives up its lock just before its tasks end.
OneWorkerPerAgent ==
    \A t, u \in DOMAIN tasks :
        (t < u /\ Live(t) /\ Live(u) /\ tasks[t].agent = tasks[u].agent)
            => sup[tasks[t].sup].pc = "exit"

\* A backend is stopped only after every worker that was given its route has ended:
\* when it fails a health check, when nobody uses it, and on shutdown.
SeatsStopBeforeTheirBackend ==
    \A t \in DOMAIN tasks :
        (Live(t) /\ tasks[t].server # 0)
            => servers[tasks[t].server].state # "stopped"

\* Every worker is the one its durable configuration asks for, on a backend that
\* serves, and no backend is up that no seat needs.
Converged ==
    /\ \A a \in Agents :
           LET c == config[a]
               wanted == c.desired = "running" /\ Approved(c.profile)
               current == {t \in DOMAIN tasks : Live(t) /\ tasks[t].agent = a}
           IN IF wanted
              THEN \E t \in current :
                       /\ current = {t} /\ ~tasks[t].cancelled
                       /\ tasks[t].revision = c.revision /\ tasks[t].profile = c.profile
                       /\ BackendOf(c.profile) # NoBackend =>
                              servers[tasks[t].server].state = "up"
              ELSE current = {}
    /\ \A i \in DOMAIN servers :
           servers[i].state = "up" => servers[i].backend \in DesiredBackends(config)

\* Once operators and failures leave it alone, a supervisor that runs brings every
\* seat and backend to what the configurations ask for and keeps them there.
SeatsConverge ==
    <>[]((\A s \in Supervisors : sup[s].pc \in {"off", "stopped"}) \/ Converged)
=============================================================================
