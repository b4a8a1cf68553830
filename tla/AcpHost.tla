------------------------------- MODULE AcpHost -------------------------------
(***************************************************************************)
(* One ACP harness plugin process (crates/acp-host): the stdio loop that   *)
(* serves the worker's requests and forwards notifications (lib.rs), the   *)
(* driver behind it that owns one native session, its active turn and its  *)
(* pending permissions (runtime/), and the inner ACP runtime it drives,    *)
(* which is external.                                                      *)
(*                                                                         *)
(* Three tasks share the driver's state under one lock and meet in one     *)
(* bounded notification channel (outbox): the ACP connection's dispatch    *)
(* loop, which runs the update and permission handlers one at a time, in   *)
(* the order the runtime wrote them; the monitor of the prompt in flight;  *)
(* and the command loop behind the stdio loop.  Each of them numbers or    *)
(* ends a turn under the lock and sends what it has to say after releasing *)
(* it.                                                                     *)
(***************************************************************************)
EXTENDS Naturals, Sequences, FiniteSets

CONSTANTS
    MaxTurn,       \* bound: turns 1..MaxTurn are fenced one after the other
    Setups,        \* bounds: who uses the plugin, the turns a worker runs, and the
                   \* updates and permissions the runtime reports over all of them
    UpdateKinds,   \* the session updates the runtime makes: see Number
    StopReasons,   \* how it ends a prompt: "end_turn", and others
    OutboxSize,    \* capacity of the notification channel
    ToolLimit,     \* policy.tool_budget.limit
    MaxEntries     \* MAX_TRANSCRIPT_ENTRIES

ASSUME HostAssumption ==
    /\ MaxTurn \in Nat \ {0} /\ ToolLimit \in Nat
    /\ Setups \subseteq [mode : {"worker", "transcript"}, turns : 1 .. MaxTurn, frames : Nat]
    /\ OutboxSize \in Nat \ {0} /\ MaxEntries \in Nat
    /\ UpdateKinds \subseteq {"text", "long", "bad", "tool"}

VARIABLES
    session,     \* SharedState.sessions: the one session of the process
    pending,     \* SharedState.permissions: <<fence, event_seq>> of each
    dispatch,    \* the connection's dispatch loop and the handler it is in
    monitor,     \* the task that awaits the prompt or the replay in flight
    outbox,      \* the notification channel
    serve,       \* the request the stdio loop is awaiting
    requests,    \* frames written to the plugin's stdin
    runtime,     \* external: the inner ACP runtime
    wire,        \* external: what it wrote that is not dispatched yet
    log,         \* history: the events numbered in each turn
    answered     \* history: the permission answers the runtime was given

hostVars == <<session, pending, dispatch, monitor, outbox, serve, requests,
              runtime, wire, log, answered>>

Turns == 1 .. MaxTurn
NoTurn == 0

Closed == [open |-> FALSE, active |-> NoTurn, next |-> 1, tools |-> 0, whole |-> TRUE,
           cancel |-> FALSE, capturing |-> FALSE, entries |-> 0, truncated |-> FALSE]

Listening == [pc |-> "idle", note |-> <<>>, id |-> <<>>, answer |-> "none"]

Unmonitored == [pc |-> "idle", fence |-> NoTurn, answer |-> "none", reason |-> "none",
                terminal |-> <<>>, ids |-> {}]

Note(kind, fence, seq) == [kind |-> kind, fence |-> fence, seq |-> seq]

HostInit(frames) ==
    /\ session = Closed
    /\ pending = {}
    /\ dispatch = Listening
    /\ monitor = Unmonitored
    /\ outbox = <<>>
    /\ serve = "select"
    /\ requests = <<>>
    /\ runtime = [alive |-> TRUE, prompt |-> NoTurn, asking |-> FALSE, left |-> frames,
                  replay |-> FALSE, replayed |-> 0]
    /\ wire = <<>>
    /\ log = [t \in Turns |-> <<>>]
    /\ answered = {}

-----------------------------------------------------------------------------
(* The dispatch loop: handle_session_update, handle_permission_request. *)

Reads(kind) == dispatch.pc = "idle" /\ wire # <<>> /\ Head(wire) = kind

\* The event gets its number under the lock; the budget is checked there too.
\* A malformed chunk fails between the two.
Number(s, kind) ==
    LET tools == s.tools + (IF kind = "tool" THEN 1 ELSE 0)
    IN  [s EXCEPT !.next = @ + 1, !.tools = tools,
                  !.whole = @ /\ kind # "long",
                  !.cancel = @ \/ (kind # "bad" /\ tools > ToolLimit)]

\* Mutant: an entry past the bound is dropped and not marked.
CaptureSilently(s) == IF s.entries >= MaxEntries THEN s ELSE [s EXCEPT !.entries = @ + 1]

\* capture_transcript_entry refuses an entry past the bound.
Capture(s) ==
    IF s.truncated \/ s.entries >= MaxEntries THEN [s EXCEPT !.truncated = TRUE]
    ELSE [s EXCEPT !.entries = @ + 1]

Sending(note, id) == [dispatch EXCEPT !.pc = "sending", !.note = note, !.id = id]

\* An update outside any turn or replay is dropped, and so is the event of a malformed
\* chunk, which has its number by then.
HandleSessionUpdate ==
    \E kind \in UpdateKinds :
        /\ Reads(kind)
        /\ wire' = Tail(wire)
        /\ \/ /\ session.open /\ session.capturing
              /\ session' = Capture(session)
              /\ dispatch' = IF session'.entries = session.entries THEN dispatch
                             ELSE Sending(Note("entry", NoTurn, session'.entries), <<>>)
              /\ UNCHANGED log
           \/ /\ session.open /\ ~session.capturing /\ session.active # NoTurn
              /\ session' = Number(session, kind)
              /\ log' = [log EXCEPT ![session.active] = Append(@, kind)]
              /\ dispatch' = IF kind = "bad" THEN dispatch
                             ELSE Sending(Note(kind, session.active, session.next), <<>>)
           \/ /\ ~session.open \/ (~session.capturing /\ session.active = NoTurn)
              /\ UNCHANGED <<session, dispatch, log>>
        /\ UNCHANGED <<pending, monitor, outbox, serve, requests, runtime, answered>>

HandlePermissionRequest ==
    LET id == <<session.active, session.next>>
    IN  /\ Reads("permission")
        /\ wire' = Tail(wire)
        /\ IF session.active # NoTurn
           THEN /\ session' = [session EXCEPT !.next = @ + 1]
                /\ log' = [log EXCEPT ![session.active] = Append(@, "permission")]
                /\ pending' = pending \cup {id}
                /\ dispatch' = Sending(Note("permission", id[1], id[2]), id)
                /\ UNCHANGED runtime
           ELSE /\ runtime' = [runtime EXCEPT !.asking = FALSE]
                /\ UNCHANGED <<session, log, pending, dispatch>>
        /\ UNCHANGED <<monitor, outbox, serve, requests, answered>>

\* The handler sends after the lock is released, and waits while the channel is full.
SendNotification ==
    /\ dispatch.pc = "sending"
    /\ Len(outbox) < OutboxSize
    /\ outbox' = Append(outbox, dispatch.note)
    /\ dispatch' = IF dispatch.id = <<>> THEN Listening
                   ELSE [dispatch EXCEPT !.pc = "asking", !.note = <<>>]
    /\ UNCHANGED <<session, pending, monitor, serve, requests, runtime, wire, log, answered>>

\* The wait for a decision times out, which closes its reply channel.
PermissionExpires ==
    /\ dispatch.pc = "asking" /\ dispatch.answer = "none"
    /\ dispatch' = [dispatch EXCEPT !.answer = "expired"]
    /\ UNCHANGED <<session, pending, monitor, outbox, serve, requests, runtime, wire, log,
                   answered>>

AnswerPermission ==
    /\ dispatch.pc = "asking" /\ dispatch.answer # "none"
    /\ pending' = pending \ {dispatch.id}
    /\ answered' = answered \cup {<<dispatch.id, dispatch.answer>>}
    /\ runtime' = [runtime EXCEPT !.asking = FALSE]
    /\ dispatch' = Listening
    /\ UNCHANGED <<session, monitor, outbox, serve, requests, wire, log>>

\* pending.response.send(outcome): nobody listens once the request has expired.
Answer(ids, outcome) ==
    [dispatch EXCEPT !.answer = IF dispatch.id \in ids /\ @ = "none" THEN outcome ELSE @]

PermissionsOf(fence) == {id \in pending : id[1] = fence}

-----------------------------------------------------------------------------
(* The monitor of a prompt: monitor_prompt, cancel_and_drain, emit_terminal. *)

\* The answer to session/prompt comes through the same dispatch loop.  It is lost
\* when the monitor has already given up on it.
PromptAnswered ==
    \E stop \in StopReasons \cup {"failed"} :
        /\ Reads(stop)
        /\ wire' = Tail(wire)
        /\ monitor' = IF monitor.pc \in {"waiting", "draining"}
                      THEN [monitor EXCEPT !.answer = stop] ELSE monitor
        /\ UNCHANGED <<session, pending, dispatch, outbox, serve, requests, runtime, log,
                       answered>>

\* The select of monitor_prompt.  The runtime's answer, a wall or idle deadline and
\* a cancellation may be ready together, and any one of them is taken.
MonitorWaits ==
    /\ monitor.pc = "waiting"
    /\ \/ /\ monitor.answer # "none"
          /\ monitor' = [monitor EXCEPT !.pc = "ended"]
       \/ monitor' = [monitor EXCEPT !.pc = "draining", !.reason = "deadline"]
       \/ /\ session.cancel
          /\ monitor' = [monitor EXCEPT !.pc = "draining", !.reason = "cancellation"]
    /\ UNCHANGED <<session, pending, dispatch, outbox, serve, requests, runtime, wire, log,
                   answered>>

MonitorDrains ==
    /\ monitor.pc = "draining"
    /\ \/ /\ monitor.answer # "none"
          /\ monitor' = [monitor EXCEPT !.pc = "ended"]
       \/ monitor' = [monitor EXCEPT !.pc = "ended", !.answer = "failed"]
    /\ UNCHANGED <<session, pending, dispatch, outbox, serve, requests, runtime, wire, log,
                   answered>>

\* What the terminal claims: only an answered prompt has a known outcome and a
\* quiescent session, and a host stop keeps the runtime's own reason beside it.
Terminal ==
    [kind |-> "terminal", fence |-> session.active, seq |-> session.next - 1,
     known |-> monitor.answer # "failed", whole |-> session.whole,
     stop |-> IF monitor.answer = "failed" THEN "outcome_unknown"
              ELSE IF monitor.reason # "none" THEN monitor.reason ELSE monitor.answer]

\* Mutant: the terminal forgets the permissions of its turn.
EmitTerminalAlone ==
    /\ monitor.pc = "ended"
    /\ session' = [session EXCEPT !.active = NoTurn, !.cancel = FALSE]
    /\ monitor' = [monitor EXCEPT !.pc = "closing", !.terminal = Terminal, !.ids = {}]
    /\ UNCHANGED <<pending, dispatch, outbox, serve, requests, runtime, wire, log, answered>>

EmitTerminal ==
    /\ monitor.pc = "ended"
    /\ session' = [session EXCEPT !.active = NoTurn, !.cancel = FALSE]
    /\ monitor' = [monitor EXCEPT !.pc = "closing", !.terminal = Terminal,
                                  !.ids = PermissionsOf(session.active)]
    /\ UNCHANGED <<pending, dispatch, outbox, serve, requests, runtime, wire, log, answered>>

CancelItsPermissions ==
    /\ monitor.pc = "closing"
    /\ pending' = pending \ monitor.ids
    /\ dispatch' = Answer(monitor.ids \cap pending, "cancelled")
    /\ monitor' = [monitor EXCEPT !.pc = "sending"]
    /\ UNCHANGED <<session, outbox, serve, requests, runtime, wire, log, answered>>

SendTerminal ==
    /\ monitor.pc = "sending"
    /\ Len(outbox) < OutboxSize
    /\ outbox' = Append(outbox, monitor.terminal)
    /\ monitor' = Unmonitored
    /\ UNCHANGED <<session, pending, dispatch, serve, requests, runtime, wire, log, answered>>

-----------------------------------------------------------------------------
(* The command loop, one request at a time (DriverRuntime::handle).  Each    *)
(* operator is the effect of one method and of its refusals; the composition *)
(* adds the reply.                                                           *)

Request == Head(requests)
Takes(method) == serve = "select" /\ requests # <<>> /\ Request.method = method

Start(t) ==
    /\ session' = [session EXCEPT !.active = t, !.next = 1, !.tools = 0, !.whole = TRUE,
                                  !.cancel = FALSE]
    /\ monitor' = [Unmonitored EXCEPT !.pc = "waiting", !.fence = t]
    /\ runtime' = [runtime EXCEPT !.prompt = t]

\* cancel_turn cancels the permissions first, then finds the turn again.
CancelPermissions(fence) ==
    /\ pending' = pending \ PermissionsOf(fence)
    /\ dispatch' = Answer(PermissionsOf(fence), "cancelled")

\* resolve_permission takes the request out before it looks at its reply channel.
Resolve(id, outcome) ==
    /\ pending' = pending \ {id}
    /\ dispatch' = Answer({id} \cap pending, outcome)

Resolved(id) == id \in pending /\ ~(dispatch.id = id /\ dispatch.answer = "expired")

StartTranscript ==
    /\ session' = [session EXCEPT !.capturing = TRUE, !.entries = 0, !.truncated = FALSE]
    /\ runtime' = [runtime EXCEPT !.replay = TRUE]
    /\ monitor' = [Unmonitored EXCEPT !.pc = "loading"]

\* The answer to session/load, or its failure, comes through the dispatch loop.
LoadAnswered ==
    \E answer \in {"loaded", "unloaded"} :
        /\ Reads(answer)
        /\ wire' = Tail(wire)
        /\ monitor' = [monitor EXCEPT !.answer = answer]
        /\ UNCHANGED <<session, pending, dispatch, outbox, serve, requests, runtime, log,
                       answered>>

\* The replay's task wakes up later, takes the capture under the lock, and sends after
\* releasing it (SendTerminal): an update dispatched meanwhile is still captured.
TranscriptComplete ==
    /\ monitor.pc = "loading" /\ monitor.answer # "none"
    /\ session' = [session EXCEPT !.capturing = FALSE]
    /\ monitor' = [monitor EXCEPT !.pc = "sending", !.terminal =
          [kind |-> "complete", fence |-> NoTurn, seq |-> session.entries,
           known |-> monitor.answer = "loaded", whole |-> ~session.truncated]]
    /\ UNCHANGED <<pending, dispatch, outbox, serve, requests, runtime, wire, log, answered>>

-----------------------------------------------------------------------------
(* The inner runtime.  It reports what it likes while a prompt or a replay   *)
(* runs, waits for the answer to a permission, and volunteers updates        *)
(* between turns.                                                            *)

Wrote(kind) == Len(wire) < 1 /\ wire' = Append(wire, kind)

hostTasks == <<session, pending, dispatch, monitor, outbox, serve, requests, log, answered>>

RuntimeReports ==
    /\ runtime.alive /\ ~runtime.asking /\ runtime.left > 0
    /\ \/ \E kind \in UpdateKinds :
             /\ Wrote(kind)
             /\ runtime' = [runtime EXCEPT !.left = @ - 1,
                               !.replayed = @ + (IF runtime.replay THEN 1 ELSE 0)]
       \/ /\ runtime.prompt # NoTurn
          /\ Wrote("permission")
          /\ runtime' = [runtime EXCEPT !.left = @ - 1, !.asking = TRUE]
    /\ UNCHANGED hostTasks

RuntimeAnswers ==
    /\ runtime.alive /\ ~runtime.asking
    /\ \/ /\ runtime.prompt # NoTurn
          /\ \E stop \in StopReasons \cup {"failed"} : Wrote(stop)
          /\ runtime' = [runtime EXCEPT !.prompt = NoTurn]
       \/ /\ runtime.replay
          /\ \E answer \in {"loaded", "unloaded"} : Wrote(answer)
          /\ runtime' = [runtime EXCEPT !.replay = FALSE]
    /\ UNCHANGED hostTasks

\* The connection fails: a handler in flight is dropped with what it had to send, and
\* the request in flight, a prompt or a replay, ends in an error.
RuntimeDies ==
    /\ runtime.alive
    /\ runtime' = [runtime EXCEPT !.alive = FALSE, !.prompt = NoTurn, !.asking = FALSE,
                                  !.left = 0, !.replay = FALSE]
    /\ wire' = <<>>
    /\ dispatch' = Listening
    /\ monitor' = IF monitor.pc \in {"waiting", "draining", "loading"} /\ monitor.answer = "none"
                  THEN [monitor EXCEPT !.answer = "failed"] ELSE monitor
    /\ UNCHANGED <<session, pending, outbox, serve, requests, log, answered>>

HostStep ==
    \/ HandleSessionUpdate \/ HandlePermissionRequest \/ SendNotification
    \/ PermissionExpires \/ AnswerPermission \/ PromptAnswered \/ MonitorWaits
    \/ MonitorDrains \/ EmitTerminal \/ CancelItsPermissions \/ SendTerminal
    \/ LoadAnswered \/ TranscriptComplete

RuntimeStep == RuntimeReports \/ RuntimeAnswers \/ RuntimeDies
==============================================================================
