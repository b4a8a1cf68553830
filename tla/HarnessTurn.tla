----------------------------- MODULE HarnessTurn -----------------------------
(***************************************************************************)
(* One plugin generation end to end: the worker side of a harness plugin   *)
(* composed with the plugin process of AcpHost.  The worker side is the    *)
(* JSON-RPC peer and its reader task (crates/plugin-host/src/rpc.rs), the  *)
(* fencing client (harness_acp.rs), the controller that arms, drains,      *)
(* cancels and settles a turn (crates/execution/src/controller.rs), and    *)
(* the durable evidence rows it writes (crates/execution/src/              *)
(* operations.rs).  The other user of the same client is the transcript    *)
(* command (src/cli/transcript.rs), which only replays a session.          *)
(*                                                                         *)
(* The controller drops the future that drains a turn when a deadline or   *)
(* an interruption is selected, wherever that future is suspended: with a  *)
(* notification taken and not recorded, with a transaction in flight, or   *)
(* with a permission half resolved.                                        *)
(***************************************************************************)
EXTENDS AcpHost, SequencesExt

CONSTANTS
    BufferSize     \* NOTIFICATION_BUFFER

ASSUME ClientAssumption == BufferSize \in Nat \ {0}

VARIABLES
    rpc,        \* RpcState, and the one call the client is awaiting
    buffer,     \* notifications read and not taken
    client,     \* HarnessAcpClient.active_turn: its fence and last_event_seq
    ctl,        \* the controller, or the transcript command
    obs,        \* invocation_observations: events folded, terminal recorded
    granted,    \* the turn whose tool grants are active
    result,     \* what each turn was settled as
    entries,    \* the transcript command's entries
    report      \* what it printed

clientVars == <<rpc, buffer, client, ctl, obs, granted, result, entries, report>>
vars == <<hostVars, clientVars>>

NoReport == [known |-> FALSE, whole |-> FALSE, seq |-> 0]

\* The controller's local state: where it stands, the turn it runs, whether
\* it selected a host stop, and the notification its drain holds; `turns` bounds its work.
Seat(mode, turns) == [mode |-> mode, turns |-> turns, pc |-> "new", turn |-> NoTurn,
                      stopped |-> FALSE, held |-> <<>>]

Init ==
    /\ \E setup \in Setups : HostInit(setup.frames) /\ ctl = Seat(setup.mode, setup.turns)
    /\ rpc = [calls |-> {}, waits |-> "none", reply |-> "none", failed |-> FALSE,
              reading |-> TRUE]
    /\ buffer = <<>>
    /\ client = [fence |-> NoTurn, last |-> 0]
    /\ obs = [t \in Turns |-> [events |-> <<>>, terminal |-> FALSE]]
    /\ granted = NoTurn
    /\ result = [t \in Turns |-> "reserved"]
    /\ entries = 0
    /\ report = NoReport

-----------------------------------------------------------------------------
(* The JSON-RPC peer. *)

FailAll(r) == [r EXCEPT !.calls = {}, !.failed = TRUE,
                        !.reply = IF r.waits \in r.calls THEN "error" ELSE @]

\* A call on a failed peer is refused before anything is written.
Call(method, fence, seq, outcome) ==
    IF rpc.failed
    THEN /\ rpc' = [rpc EXCEPT !.waits = method, !.reply = "error"]
         /\ UNCHANGED requests
    ELSE /\ rpc' = [rpc EXCEPT !.waits = method, !.reply = "none", !.calls = @ \cup {method}]
         /\ requests' = Append(requests, [method |-> method, fence |-> fence, seq |-> seq,
                                          outcome |-> outcome])

\* The reader matches a response with its call.  One that no call waits for any
\* longer is still known; one whose call was failed is not, and ends the reader.
Answered(method, outcome) ==
    rpc' = IF ~rpc.reading THEN rpc
           ELSE IF method \in rpc.calls
           THEN [rpc EXCEPT !.calls = @ \ {method},
                            !.reply = IF rpc.waits = method THEN outcome ELSE @]
           ELSE [FailAll(rpc) EXCEPT !.reading = FALSE]

Returned(method, outcome) == rpc.waits = method /\ rpc.reply = outcome

\* A call that has returned, and a call whose future was dropped.
Forgotten(r) == [r EXCEPT !.waits = "none", !.reply = "none"]

CallTimesOut ==
    /\ rpc.waits \in rpc.calls
    /\ rpc' = FailAll(rpc)
    /\ UNCHANGED <<hostVars, buffer, client, ctl, obs, granted, result, entries, report>>

-----------------------------------------------------------------------------
(* The plugin's stdio loop: forward one notification, or serve one request   *)
(* while no notification is forwarded.                                       *)

\* The reader never waits for the client: a full buffer fails the peer.
Forward ==
    /\ serve = "select" /\ outbox # <<>>
    /\ outbox' = Tail(outbox)
    /\ IF rpc.reading /\ Len(buffer) < BufferSize
       THEN buffer' = Append(buffer, Head(outbox)) /\ UNCHANGED rpc
       ELSE /\ rpc' = IF rpc.reading THEN [FailAll(rpc) EXCEPT !.reading = FALSE] ELSE rpc
            /\ UNCHANGED buffer
    /\ UNCHANGED <<session, pending, dispatch, monitor, serve, requests, runtime, wire, log,
                   answered, client, ctl, obs, granted, result, entries, report>>

clientTasks == <<buffer, client, ctl, obs, granted, result, entries, report>>

\* Methods that touch nothing another task can see: describe, and what the driver
\* refuses.  After the connection ended every request is refused.
Refuses ==
    \/ ~runtime.alive
    \/ Request.method \in {"start", "close", "transcript"}
         /\ (~session.open \/ session.active # NoTurn)
    \/ Request.method = "transcript" /\ session.capturing
    \/ Request.method = "cancel" /\ session.active # Request.fence
    \/ Request.method = "resolve" /\ ~Resolved(<<Request.fence, Request.seq>>)

ServeDescribeOrRefuse ==
    /\ serve = "select" /\ requests # <<>>
    /\ \/ Refuses /\ Answered(Request.method, "error")
       \/ ~Refuses /\ Request.method = "describe" /\ Answered("describe", "ok")
    /\ pending' = IF Request.method = "resolve" /\ runtime.alive
                  THEN pending \ {<<Request.fence, Request.seq>>} ELSE pending
    /\ requests' = Tail(requests)
    /\ UNCHANGED <<session, dispatch, monitor, outbox, serve, runtime, wire, log, answered,
                   clientTasks>>

\* session/new or session/resume is awaited from the runtime for up to 30 seconds.
ServeOpen ==
    /\ Takes("open") /\ ~Refuses
    /\ \/ session' = [Closed EXCEPT !.open = TRUE] /\ Answered("open", "ok")
       \/ UNCHANGED session /\ Answered("open", "error")
    /\ requests' = Tail(requests)
    /\ UNCHANGED <<pending, dispatch, monitor, outbox, serve, runtime, wire, log, answered,
                   clientTasks>>

ServeStart ==
    /\ Takes("start") /\ ~Refuses
    /\ Start(Request.fence)
    /\ Answered("start", "ok")
    /\ requests' = Tail(requests)
    /\ UNCHANGED <<pending, dispatch, outbox, serve, wire, log, answered, clientTasks>>

\* cancel_turn finds the turn and cancels its permissions; then it looks again.
ServeCancel ==
    /\ Takes("cancel") /\ ~Refuses
    /\ CancelPermissions(Request.fence)
    /\ serve' = "cancelling"
    /\ UNCHANGED <<session, monitor, outbox, requests, runtime, wire, log, answered, rpc,
                   clientTasks>>

ServeCancelled ==
    /\ serve = "cancelling"
    /\ IF session.active = NoTurn
       THEN Answered("cancel", "error") /\ UNCHANGED session
       ELSE /\ session' = [session EXCEPT !.cancel = TRUE]
            /\ Answered("cancel", IF runtime.alive THEN "ok" ELSE "error")
    /\ serve' = "select"
    /\ requests' = Tail(requests)
    /\ UNCHANGED <<pending, dispatch, monitor, outbox, runtime, wire, log, answered,
                   clientTasks>>

ServeResolve ==
    /\ Takes("resolve") /\ ~Refuses
    /\ Resolve(<<Request.fence, Request.seq>>, Request.outcome)
    /\ Answered("resolve", "ok")
    /\ requests' = Tail(requests)
    /\ UNCHANGED <<session, monitor, outbox, serve, runtime, wire, log, answered, clientTasks>>

ServeClose ==
    /\ Takes("close") /\ ~Refuses
    /\ session' = Closed
    /\ Answered("close", "ok")
    /\ requests' = Tail(requests)
    /\ UNCHANGED <<pending, dispatch, monitor, outbox, serve, runtime, wire, log, answered,
                   clientTasks>>

ServeTranscript ==
    /\ Takes("transcript") /\ ~Refuses
    /\ StartTranscript
    /\ Answered("transcript", "ok")
    /\ requests' = Tail(requests)
    /\ UNCHANGED <<pending, dispatch, outbox, serve, wire, log, answered, clientTasks>>

Gone ==
    /\ runtime' = [runtime EXCEPT !.alive = FALSE, !.prompt = NoTurn, !.asking = FALSE,
                                  !.left = 0, !.replay = FALSE]
    /\ session' = Closed /\ pending' = {} /\ dispatch' = Listening /\ monitor' = Unmonitored
    /\ outbox' = <<>> /\ requests' = <<>> /\ wire' = <<>> /\ serve' = "ended"
    /\ rpc' = [FailAll(rpc) EXCEPT !.reading = FALSE]
    /\ UNCHANGED <<log, answered>>

\* The notification channel closes once the connection and every task that sends on
\* it have ended, and the plugin ends with it.
PluginExits ==
    /\ serve = "select" /\ ~runtime.alive /\ outbox = <<>> /\ monitor.pc = "idle" /\ wire = <<>>
    /\ Gone
    /\ UNCHANGED clientTasks

PluginDies == serve # "ended" /\ Gone /\ UNCHANGED clientTasks

-----------------------------------------------------------------------------
(* The durable evidence of a turn (operations.rs), one transaction each. *)

\* record_invocation_event: the next event of an open row, or one folded already.
RecordsEvent(t, n) ==
    /\ ~obs[t].terminal
    /\ n.seq \in {Len(obs[t].events), Len(obs[t].events) + 1}

RecordInvocationEvent(t, n) ==
    obs' = IF n.seq = Len(obs[t].events) THEN obs
           ELSE [obs EXCEPT ![t].events = Append(@, n.kind)]

\* Mutant: the terminal is recorded without comparing its last event.
RecordsAnyTerminal(t, n) == ~obs[t].terminal

\* record_invocation_terminal: only over exactly the events it claims.
RecordsTerminal(t, n) == ~obs[t].terminal /\ n.seq = Len(obs[t].events)

Records(t, n) == IF n.kind = "terminal" THEN RecordsTerminal(t, n) ELSE RecordsEvent(t, n)

Record(t, n) ==
    IF n.kind = "terminal" THEN obs' = [obs EXCEPT ![t].terminal = TRUE]
    ELSE RecordInvocationEvent(t, n)

-----------------------------------------------------------------------------
(* The fencing client's reading of a notification (next_notification). *)

\* The next event, or one seen already: the host gives one content to a number.
AdmitsEvent(n) ==
    n.fence = client.fence /\ n.fence # NoTurn /\ n.seq \in 1 .. client.last + 1

AdmitsTerminal(n) == n.fence = client.fence /\ n.fence # NoTurn /\ n.seq = client.last

-----------------------------------------------------------------------------
(* The controller: ManagedTurnController::run, and the worker loop around it. *)

At(pc) == ctl.pc = pc
Goto(pc) == ctl' = [ctl EXCEPT !.pc = pc]
hostOnly == <<session, pending, dispatch, monitor, outbox, serve, runtime, wire, log, answered>>
host == <<hostOnly, requests>>

\* The generation ends: a shutdown request, then the process group is killed.
EndGeneration ==
    /\ ctl' = [ctl EXCEPT !.pc = "done", !.held = <<>>]
    /\ buffer' = <<>>
    /\ client' = [fence |-> NoTurn, last |-> 0]
    /\ Gone

\* block, and the restart of the generation that execute_turn answers it with: the
\* session is marked uncertain and the delivery parked, or the store fails and leaves
\* the turn to recovery.  The client is not used again, so that what the plugin does
\* meanwhile reaches nobody.
BlockTurn ==
    /\ \E settled \in {"blocked", "unsettled"} : result' = [result EXCEPT ![ctl.turn] = settled]
    /\ granted' = NoTurn
    /\ EndGeneration
    /\ UNCHANGED <<entries, report>>

\* A lane is opened before its first turn and again after it was retired.  The
\* transcript command describes the harness before, and ends alike if that fails.
OpenSession ==
    /\ At("new")
    /\ Call("open", NoTurn, 0, "none")
    /\ Goto("opening")
    /\ UNCHANGED <<hostOnly, buffer, client, obs, granted, result, entries, report>>

SessionOpened ==
    /\ At("opening")
    /\ \/ /\ Returned("open", "ok") /\ Goto("ready")
          /\ rpc' = Forgotten(rpc)
          /\ UNCHANGED <<host, buffer, client>>
       \/ Returned("open", "error") /\ EndGeneration
    /\ UNCHANGED <<obs, granted, result, entries, report>>

\* The next reserved invocation: the harness must describe itself before it is armed.
Describe ==
    /\ At("ready") /\ ctl.mode = "worker" /\ ctl.turn < ctl.turns
    /\ Call("describe", NoTurn, 0, "none")
    /\ ctl' = [ctl EXCEPT !.pc = "describing", !.turn = @ + 1, !.stopped = FALSE]
    /\ UNCHANGED <<hostOnly, buffer, client, obs, granted, result, entries, report>>

\* arm_session_invocation, or the release of an invocation that was not armed.
Arm ==
    /\ At("describing")
    /\ \/ /\ Returned("describe", "ok") /\ Goto("armed")
          /\ result' = [result EXCEPT ![ctl.turn] = "armed"]
          /\ rpc' = Forgotten(rpc)
          /\ UNCHANGED <<host, buffer, client>>
       \/ /\ Returned("describe", "error") /\ EndGeneration
          /\ result' = [result EXCEPT ![ctl.turn] = "released"]
    /\ UNCHANGED <<obs, granted, entries, report>>

StartTurn ==
    /\ At("armed")
    /\ \/ /\ granted' = ctl.turn
          /\ Call("start", ctl.turn, 0, "none")
          /\ Goto("starting")
          /\ UNCHANGED <<hostOnly, buffer, client, result, entries, report>>
       \/ BlockTurn
    /\ UNCHANGED obs

\* The client tracks the turn only once the driver has accepted it.
TurnStarted ==
    /\ At("starting")
    /\ \/ /\ Returned("start", "ok") /\ Goto("drain")
          /\ client' = [fence |-> ctl.turn, last |-> 0]
          /\ rpc' = Forgotten(rpc)
          /\ UNCHANGED <<host, buffer, granted, result, entries, report>>
       \/ Returned("start", "error") /\ BlockTurn
    /\ UNCHANGED obs

IsEvent(n) == n.kind \notin {"terminal", "entry", "complete"}

\* drain_turn takes a notification.  What the client does not admit, a replayed
\* entry and a closed stream fail the drain.
TakeNotification ==
    /\ At("drain")
    /\ \/ /\ buffer # <<>> /\ IsEvent(Head(buffer)) /\ AdmitsEvent(Head(buffer))
          /\ client' = [client EXCEPT !.last = Max({@, Head(buffer).seq})]
          /\ ctl' = [ctl EXCEPT !.pc = "record", !.held = Head(buffer)]
          /\ buffer' = Tail(buffer)
          /\ UNCHANGED <<host, rpc, granted, result, entries, report>>
       \/ /\ buffer # <<>> /\ Head(buffer).kind = "terminal" /\ AdmitsTerminal(Head(buffer))
          /\ client' = [fence |-> NoTurn, last |-> 0]
          /\ ctl' = [ctl EXCEPT !.pc = "record", !.held = Head(buffer)]
          /\ buffer' = Tail(buffer)
          /\ UNCHANGED <<host, rpc, granted, result, entries, report>>
       \/ /\ buffer # <<>>
          /\ ~(IsEvent(Head(buffer)) /\ AdmitsEvent(Head(buffer)))
          /\ ~(Head(buffer).kind = "terminal" /\ AdmitsTerminal(Head(buffer)))
          /\ BlockTurn
       \/ buffer = <<>> /\ ~rpc.reading /\ BlockTurn
    /\ UNCHANGED obs

\* permission::decide: denied, or the one option that allows this call once.
Decisions == {"cancelled", "selected"}

\* Mutant: the permission is resolved before it is recorded.
ResolveFirst ==
    /\ At("record") /\ ctl.held.kind = "permission"
    /\ \E outcome \in Decisions : Call("resolve", ctl.held.fence, ctl.held.seq, outcome)
    /\ ctl' = [ctl EXCEPT !.pc = "resolving", !.held = <<>>]
    /\ UNCHANGED <<hostOnly, buffer, client, obs, granted, result, entries, report>>

\* A permission is resolved only once its event is durable.
RecordPermission ==
    /\ At("record") /\ ctl.held.kind = "permission"
    /\ \/ /\ RecordsEvent(ctl.turn, ctl.held)
          /\ RecordInvocationEvent(ctl.turn, ctl.held)
          /\ \E outcome \in Decisions : Call("resolve", ctl.held.fence, ctl.held.seq, outcome)
          /\ ctl' = [ctl EXCEPT !.pc = "resolving", !.held = <<>>]
          /\ UNCHANGED <<hostOnly, buffer, client, granted, result, entries, report>>
       \/ ~RecordsEvent(ctl.turn, ctl.held) /\ BlockTurn /\ UNCHANGED obs

RecordNotification ==
    /\ At("record") /\ ctl.held.kind # "permission"
    /\ \/ /\ Records(ctl.turn, ctl.held)
          /\ Record(ctl.turn, ctl.held)
          /\ ctl' = IF ctl.held.kind = "terminal" THEN [ctl EXCEPT !.pc = "revoke"]
                    ELSE [ctl EXCEPT !.pc = "drain", !.held = <<>>]
          /\ UNCHANGED <<host, rpc, buffer, client, granted, result, entries, report>>
       \/ ~Records(ctl.turn, ctl.held) /\ BlockTurn /\ UNCHANGED obs

PermissionResolved ==
    /\ At("resolving")
    /\ \/ /\ Returned("resolve", "ok") /\ Goto("drain")
          /\ rpc' = Forgotten(rpc)
          /\ UNCHANGED <<host, buffer, client, granted, result, entries, report>>
       \/ Returned("resolve", "error") /\ BlockTurn
    /\ UNCHANGED obs

\* The drain's future is dropped where it stands.  A transaction handed to the
\* database may still commit.
DropDrain ==
    /\ ctl.pc \in {"drain", "record", "resolving"}
    /\ \/ UNCHANGED obs
       \/ At("record") /\ Records(ctl.turn, ctl.held) /\ Record(ctl.turn, ctl.held)

\* The wall deadline or an interruption is selected.  A client whose terminal was
\* already taken has no turn left to cancel.
StopTurn ==
    /\ ~ctl.stopped
    /\ DropDrain
    /\ \/ client.fence = NoTurn /\ BlockTurn
       \/ /\ client.fence # NoTurn
          /\ ctl' = [ctl EXCEPT !.pc = "cancelling", !.stopped = TRUE, !.held = <<>>]
          /\ Call("cancel", client.fence, 0, "none")
          /\ UNCHANGED <<hostOnly, buffer, client, granted, result, entries, report>>

TurnCancelled ==
    /\ At("cancelling")
    /\ \/ /\ Returned("cancel", "ok") /\ Goto("drain")
          /\ rpc' = Forgotten(rpc)
          /\ UNCHANGED <<host, buffer, client, granted, result, entries, report>>
       \/ Returned("cancel", "error") /\ BlockTurn
    /\ UNCHANGED obs

CancelDrainTimesOut == ctl.stopped /\ DropDrain /\ BlockTurn

RevokeGrants ==
    /\ At("revoke")
    /\ granted' = NoTurn
    /\ Goto("settle")
    /\ UNCHANGED <<host, rpc, buffer, client, obs, result, entries, report>>

\* Mutant: an unknown outcome is settled like a failed one.
AnyTerminalSettles(n) == TRUE

\* settle_terminal: an unknown outcome or a session not quiescent cannot be settled.
Settleable(n) == n.known

\* terminal_payload's status.  Which host stop it was shows only here and after.
Status(n) ==
    IF ctl.stopped THEN {"interrupted", "failed"}
    ELSE IF n.stop = "end_turn" /\ n.whole THEN {"completed"} ELSE {"failed"}

\* Mutant: an unknown outcome is not parked, and the generation takes its next turn.
SettleKnownOnly ==
    /\ At("settle")
    /\ \E status \in Status(ctl.held) :
          result' = IF Settleable(ctl.held) THEN [result EXCEPT ![ctl.turn] = status] ELSE result
    /\ ctl' = [ctl EXCEPT !.pc = "ready", !.held = <<>>]
    /\ UNCHANGED <<hostVars, rpc, buffer, client, obs, granted, entries, report>>

\* complete_session_invocation, and what execute_turn does next: a newer message
\* retires the lane and a worker that shuts down ends.
SettleTerminal ==
    /\ At("settle")
    /\ \/ ~Settleable(ctl.held) /\ BlockTurn
       \/ /\ Settleable(ctl.held) /\ EndGeneration
          /\ \E status \in (Status(ctl.held) \cap {"interrupted"}) \cup {"unsettled"} :
                result' = [result EXCEPT ![ctl.turn] = status]
          /\ UNCHANGED <<granted, entries, report>>
       \/ /\ Settleable(ctl.held)
          /\ \E status \in Status(ctl.held) :
                /\ result' = [result EXCEPT ![ctl.turn] = status]
                /\ IF status = "interrupted"
                   THEN /\ ctl' = [ctl EXCEPT !.pc = "closing", !.held = <<>>]
                        /\ Call("close", NoTurn, 0, "none")
                   ELSE /\ ctl' = [ctl EXCEPT !.pc = "ready", !.held = <<>>]
                        /\ UNCHANGED <<rpc, requests>>
          /\ UNCHANGED <<hostOnly, buffer, client, granted, entries, report>>
    /\ UNCHANGED obs

LaneClosed ==
    /\ At("closing")
    /\ \/ /\ Returned("close", "ok") /\ Goto("new")
          /\ rpc' = Forgotten(rpc)
          /\ UNCHANGED <<host, buffer, client>>
       \/ Returned("close", "error") /\ EndGeneration
    /\ UNCHANGED <<obs, granted, result, entries, report>>

-----------------------------------------------------------------------------
(* The transcript command. *)

RequestTranscript ==
    /\ At("ready") /\ ctl.mode = "transcript"
    /\ Call("transcript", NoTurn, 0, "none")
    /\ Goto("loading")
    /\ UNCHANGED <<hostOnly, buffer, client, obs, granted, result, entries, report>>

ReplayStarted ==
    /\ At("loading")
    /\ \/ /\ Returned("transcript", "ok") /\ Goto("collect")
          /\ rpc' = Forgotten(rpc)
          /\ UNCHANGED <<host, buffer, client>>
       \/ Returned("transcript", "error") /\ EndGeneration
    /\ UNCHANGED <<obs, granted, result, entries, report>>

Collect ==
    /\ At("collect")
    /\ \/ /\ buffer # <<>> /\ Head(buffer).kind = "entry"
          /\ entries' = entries + 1
          /\ buffer' = Tail(buffer)
          /\ UNCHANGED <<host, rpc, client, ctl, report>>
       \/ /\ buffer # <<>> /\ Head(buffer).kind = "complete"
          /\ report' = [known |-> Head(buffer).known, whole |-> Head(buffer).whole,
                        seq |-> Head(buffer).seq]
          /\ EndGeneration
          /\ UNCHANGED entries
       \/ /\ buffer = <<>> /\ ~rpc.reading
          /\ EndGeneration
          /\ UNCHANGED <<entries, report>>
    /\ UNCHANGED <<obs, granted, result>>

-----------------------------------------------------------------------------
Plugin == (HostStep \/ RuntimeStep) /\ UNCHANGED clientVars

Serve ==
    \/ Forward \/ ServeDescribeOrRefuse \/ ServeOpen \/ ServeStart \/ ServeCancel
    \/ ServeCancelled \/ ServeResolve \/ ServeClose \/ ServeTranscript \/ PluginExits

Worker ==
    \/ OpenSession \/ SessionOpened \/ Describe \/ Arm \/ StartTurn \/ TurnStarted
    \/ TakeNotification \/ RecordPermission \/ RecordNotification \/ PermissionResolved
    \/ StopTurn \/ TurnCancelled \/ CancelDrainTimesOut \/ RevokeGrants
    \/ SettleTerminal \/ LaneClosed \/ CallTimesOut

Transcript == RequestTranscript \/ ReplayStarted \/ Collect

Next == Plugin \/ Serve \/ Worker \/ Transcript \/ PluginDies

Spec == Init /\ [][Next]_vars

\* The tasks of the host and of the worker run and deadlines pass.  The runtime owes
\* nothing: it may stay silent for ever.
LiveSpec ==
    Spec /\ WF_vars((HostStep /\ UNCHANGED clientVars) \/ Serve \/ Worker \/ Transcript)

-----------------------------------------------------------------------------
(* Properties *)

\* The durable evidence of a turn is never something other than what the plugin
\* observed: the folded events are the first ones it numbered, in its order, and a
\* row gets its terminal only when it has all of them.  Events numbered and never
\* sent, sent after the terminal, lost in a full buffer, or taken by a drain that a
\* deadline dropped before recording them, leave a row without a terminal instead
\* (update.rs:15, turn.rs:218, controller.rs:319, operations.rs record_invocation_*).
EvidenceIsExact ==
    \A t \in Turns :
        /\ IsPrefix(obs[t].events, log[t])
        /\ obs[t].terminal => obs[t].events = log[t]

\* A turn settled with a result is over everywhere: its evidence is durable, the
\* runtime no longer works on its prompt, no permission request of it can still be
\* granted, and its tool grants are revoked (settle_terminal, emit_terminal and
\* revoke_grants, which run in different processes).
SettledTurnsAreQuiet ==
    \A t \in Turns :
        result[t] \in {"completed", "failed", "interrupted"} =>
            /\ obs[t].terminal
            /\ runtime.prompt # t
            /\ PermissionsOf(t) = {}
            /\ granted # t

\* The runtime is allowed a tool call only after the decision is durable: a
\* permission answered "selected" has its event in the turn's row, in spite of
\* expiry, cancellation and dropped drains on the way (drain_turn records before it
\* resolves).
GrantedMeansRecorded ==
    \A a \in answered :
        a[2] = "selected" =>
            LET events == obs[a[1][1]].events
                seq == a[1][2]
            IN  seq <= Len(events) /\ events[seq] = "permission"

\* No permission request outlives its turn: every pending one belongs to the active
\* turn, or to the turn whose terminal is cancelling it right now, and a handler that
\* still waits for a decision is one somebody can still answer (emit_terminal,
\* cancel_turn, resolve_permission).
PermissionsEndWithTheirTurn ==
    /\ \A id \in pending :
          id[1] = session.active \/ (monitor.pc = "closing" /\ id \in monitor.ids)
    /\ dispatch.pc = "asking" /\ dispatch.answer = "none" => dispatch.id \in pending

\* A replay printed as complete, without failure or truncation, holds every update
\* the runtime replayed: capture_transcript_entry marks what it refuses, and each
\* replayed entry is sent before the answer to session/load is dispatched.  Its count
\* exceeds the printed entries by at most one: the replay's task may take the capture
\* while the dispatch loop is about to send an update that the runtime volunteered
\* after its answer, and overtake it (transcript.rs:91, update.rs:37).  The entries may
\* also exceed the replay, by updates volunteered before it or after it.
TranscriptIsWhole ==
    report.known /\ report.whole =>
        /\ runtime.replayed <= entries
        /\ report.seq \in {entries, entries + 1}

\* Every turn that was armed is settled or left to recovery, and every permission the
\* runtime asked is answered, whatever the runtime, the plugin and the pipe do:
\* nothing waits for ever on a full channel, a lost reply or a silent runtime.
TurnsSettle ==
    <>[](/\ \A t \in Turns : result[t] # "armed"
         /\ ~runtime.asking)
==============================================================================
